---------------------------- MODULE Reliability ----------------------------
(***************************************************************************)
(* ResearchReliabilityEngine of src/src/amrte/research/reliability.py, for *)
(* one scope: outcomes move an index, its deterioration from the best      *)
(* value gives a raw stage, and the published stage follows it down at     *)
(* once and up by confirmations.  Scopes share the bound on their number   *)
(* only.  The lock makes each call one step.                               *)
(***************************************************************************)
EXTENDS Evidence

CONSTANTS
  Outcomes,          \* the outcomes callers process
  Start,             \* starting_index
  Threshold,         \* the thresholds of the stages, in percent of the best value
  StageMultiplier,   \* the multipliers of the stages
  Confirmations,     \* recovery_confirmations
  MaxOutcomes        \* maximum_events_per_scope

\* Of the fields of an outcome the engine compares with the scope's, intact
\* says whether they agree (lineage) and are there (source, finite points).
Outcome == [id : Nat, delta : Int, observed : Time, available : Time, intact : BOOLEAN]

\* What validate accepts.
ReliabilityConfiguration ==
  /\ Start \in Nat \ {0}
  /\ Threshold \in [1..SUSPENDED -> 1..99]
  /\ \A k \in 1..(SUSPENDED - 1) : Threshold[k] < Threshold[k + 1]
  /\ StageMultiplier \in [Stage -> Percent]
  /\ StageMultiplier[NORMAL] = 100 /\ StageMultiplier[SUSPENDED] = 0
  /\ \A k \in 1..SUSPENDED : StageMultiplier[k] <= StageMultiplier[k - 1]
  /\ Confirmations \in Nat \ {0}
  /\ MaxOutcomes \in Nat \ {0}

ASSUME ReliabilityAssumption == ReliabilityConfiguration /\ Outcomes \subseteq Outcome

\* A version of the index; the deterioration follows from value and best, and
\* the episode and the duration, which nothing reads, are left out.
Index == [value : Nat, best : Nat, raw : Stage, stage : Stage, progress : Nat,
          count : Nat, observed : Time]

ASSUME NoIndexIsNone == None \notin Index

OutcomeEvent == [sequence : Nat, evidence : Outcome]

VARIABLES
  index,            \* indices[scope]
  indexVersions,    \* versions, in the order of their creation
  outcomeEvents,    \* events, in the order of their sequence numbers
  outcomes,         \* outcomes
  reliabilityBackup,    \* the recovery state kept outside the engine
  reliabilityTaken,     \* history: that state as it was taken
  reliabilityLosses     \* history: records recovery states have lost

reliabilityEngine == <<index, indexVersions, outcomeEvents, outcomes>>
reliabilityVars ==
  <<reliabilityEngine, reliabilityBackup, reliabilityTaken, reliabilityLosses>>

-----------------------------------------------------------------------------
(* Helpers.                                                                *)

\* The deterioration reaches the threshold of stage k.
Reaches(k, value, best) == 100 * (best - value) >= Threshold[k] * best

\* _stage: the worst stage whose threshold is reached.
RawStage(value, best) ==
  Worst({NORMAL} \cup {k \in 1..SUSPENDED : Reaches(k, value, best)})

\* Mutant: an improvement needs no confirmations.
PublishUncounted(raw, current) ==
  IF raw >= current.stage THEN [stage |-> raw, progress |-> 0]
  ELSE IF current.progress + 1 < Confirmations
  THEN [stage |-> current.stage, progress |-> current.progress + 1]
  ELSE [stage |-> Greatest(raw, current.stage - 1), progress |-> current.progress]

\* _publish: down at once, up by at most one stage per Confirmations outcomes.
Publish(raw, current) ==
  IF raw >= current.stage THEN [stage |-> raw, progress |-> 0]
  ELSE IF current.progress + 1 < Confirmations
  THEN [stage |-> current.stage, progress |-> current.progress + 1]
  ELSE [stage |-> Greatest(raw, current.stage - 1), progress |-> 0]

\* The value and the best value the events lead to, as reconcile and restore
\* compute them.
Replay(events) ==
  LET after[n \in 0..Len(events)] ==
        IF n = 0 THEN [value |-> Start, best |-> Start]
        ELSE LET value == Greatest(0, after[n - 1].value + events[n].evidence.delta)
             IN [value |-> value, best |-> Greatest(after[n - 1].best, value)]
  IN after[Len(events)]

\* reconcile finds nothing to report of a scope that is initialized.
ReconciledIndex(current, events) ==
  current # None =>
    /\ Replay(events) = [value |-> current.value, best |-> current.best]
    /\ current.count = Len(events)
    /\ [k \in DOMAIN events |-> events[k].sequence] = [k \in 1..Len(events) |-> k]
    /\ current.best >= current.value

-----------------------------------------------------------------------------
(* Actions.                                                                *)

FreshIndex(asOf) ==
  [value |-> Start, best |-> Start, raw |-> NORMAL, stage |-> NORMAL, progress |-> 0,
   count |-> 0, observed |-> asOf]

InitializeIndex(asOf) ==
  /\ index = None
  /\ index' = FreshIndex(asOf)
  /\ indexVersions' = <<index'>>
  /\ UNCHANGED <<outcomeEvents, outcomes, reliabilityBackup, reliabilityTaken,
                 reliabilityLosses>>

Shifted(value, o) == Greatest(0, value + o.delta)

\* The version an outcome makes of the index.
Moved(current, o) ==
  LET value     == Shifted(current.value, o)
      best      == Greatest(current.best, value)
      raw       == RawStage(value, best)
      published == Publish(raw, current)
  IN [value |-> value, best |-> best, raw |-> raw, stage |-> published.stage,
      progress |-> published.progress, count |-> current.count + 1,
      observed |-> o.observed]

\* process, with an outcome it accepts; one that is known, out of order or not
\* intact changes nothing, and neither does one that finds the history full.
ProcessOutcome(o, asOf) ==
  /\ index # None
  /\ o \notin outcomes
  /\ InTime(o, index.observed, asOf)
  /\ o.intact
  /\ Len(outcomeEvents) < MaxOutcomes
  /\ outcomes' = outcomes \cup {o}
  /\ index' = Moved(index, o)
  /\ indexVersions' = Append(indexVersions, index')
  /\ outcomeEvents' =
       Append(outcomeEvents, [sequence |-> Len(outcomeEvents) + 1, evidence |-> o])
  /\ UNCHANGED <<reliabilityBackup, reliabilityTaken, reliabilityLosses>>

\* recovery_state.  What the engine does afterwards is not in the state, and a
\* restore replaces it: the engine that is asked for the state stops there.
StopReliability ==
  /\ reliabilityBackup = None
  /\ reliabilityBackup' = [current |-> index, versions |-> indexVersions,
                           events |-> outcomeEvents, evidence |-> outcomes]
  /\ reliabilityTaken' = reliabilityBackup'
  /\ index' = None
  /\ indexVersions' = <<>>
  /\ outcomeEvents' = <<>>
  /\ outcomes' = {}
  /\ UNCHANGED reliabilityLosses

\* What restore demands: numbered events, within the bound, leading to the index.
AcceptableReliability(b) ==
  /\ Numbered(b)
  /\ Len(b.events) <= MaxOutcomes
  /\ b.current # None =>
       Replay(b.events) = [value |-> b.current.value, best |-> b.current.best]

RestoreReliability ==
  /\ reliabilityBackup # None
  /\ AcceptableReliability(reliabilityBackup)
  /\ index' = reliabilityBackup.current
  /\ indexVersions' = reliabilityBackup.versions
  /\ outcomeEvents' = reliabilityBackup.events
  /\ outcomes' = reliabilityBackup.evidence
  /\ reliabilityBackup' = None
  /\ reliabilityTaken' = None
  /\ UNCHANGED reliabilityLosses

\* The engine is refused the state, or works on without it.
StartReliabilityAfresh ==
  /\ reliabilityBackup # None
  /\ reliabilityBackup' = None
  /\ reliabilityTaken' = None
  /\ UNCHANGED <<reliabilityEngine, reliabilityLosses>>

DamageReliability ==
  /\ reliabilityBackup # None
  /\ reliabilityLosses < MaxLosses
  /\ reliabilityLosses' = reliabilityLosses + 1
  /\ reliabilityBackup' \in Damaged(reliabilityBackup)
  /\ UNCHANGED <<reliabilityEngine, reliabilityTaken>>

ReliabilityInit ==
  /\ index = None
  /\ indexVersions = <<>>
  /\ outcomeEvents = <<>>
  /\ outcomes = {}
  /\ reliabilityBackup = None
  /\ reliabilityTaken = None
  /\ reliabilityLosses = 0

ReliabilityNext ==
  \/ /\ reliabilityBackup = None
     /\ \E asOf \in Time :
          \/ InitializeIndex(asOf)
          \/ \E o \in Outcomes : ProcessOutcome(o, asOf)
  \/ StopReliability
  \/ RestoreReliability
  \/ StartReliabilityAfresh
  \/ DamageReliability

ReliabilitySpec == ReliabilityInit /\ [][ReliabilityNext]_reliabilityVars

-----------------------------------------------------------------------------
(* Properties.                                                             *)

ReliabilityTypeOK ==
  /\ index \in Index \cup {None}
  /\ indexVersions \in Seq(Index)
  /\ outcomeEvents \in Seq(OutcomeEvent) /\ Len(outcomeEvents) <= MaxOutcomes
  /\ outcomes \subseteq Outcomes
  /\ reliabilityLosses \in 0..MaxLosses

\* What reconcile looks for never occurs: the index is what its outcomes lead
\* to, each counted once, after restarts and from damaged states too.
IndexReplays == ReconciledIndex(index, outcomeEvents)

\* "Deterioration applies immediately; improvement requires configured
\* confirmation and recovers at most one stage per confirmation cycle": between
\* consecutive versions, whatever happens in between.
ImprovementConfirmed ==
  \A i \in 2..Len(indexVersions) :
    LET now  == indexVersions[i]
        last == indexVersions[i - 1]
    IN /\ now.stage >= RawStage(now.value, now.best)
       /\ now.stage < last.stage =>
            /\ now.stage = last.stage - 1
            /\ i > Confirmations
            /\ \A j \in (i - Confirmations + 1)..i :
                 /\ RawStage(indexVersions[j].value, indexVersions[j].best) < last.stage
                 /\ indexVersions[j - 1].stage = last.stage
=============================================================================
