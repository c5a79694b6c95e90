----------------------------- MODULE Robustness -----------------------------
(***************************************************************************)
(* DeterministicRobustnessEngine of src/src/amrte/validation/robustness.py *)
(* A plan is judged on windows of its observations: what was developed on  *)
(* an earlier time is validated on a later one, which a holdout may have   *)
(* sealed.  Values are whole multiples of the precision; their resampling, *)
(* seeded by the plan, is a function of them and left out.                 *)
(***************************************************************************)
EXTENDS Experiments

CONSTANTS
  RobustnessPlans,        \* the plans that are registered
  Measured,               \* sets of observations they are registered with
  HoldoutPeriods, SealTimes, JudgingTimes,
  MaxWindows, MaxIterations, MaxEvidence, MinimumResample, MinimumWindows,
  StableGap,              \* 0.25, of which four are a cliff
  MaxSeals,               \* bound: the seals that are made
  MaxJudged               \* bound: the times a plan is judged after a restore

VARIABLES
  robust,                 \* the engine
  savedRobust,            \* the recovery state that was saved last
  judged                  \* history: what was judged since the engine began or was restored

robustnessVars == <<robust, savedRobust, judged>>

ValidationMode == {"EXPLORATORY", "CONFIRMATORY", "PRE_REGISTERED"}
WindowMode == {"ROLLING", "ANCHORED"}
ContaminationState == {"CLEAN", "UNKNOWN", "POTENTIALLY_CONTAMINATED", "CONTAMINATED"}
RobustnessClassification ==
  {"ROBUST_EVIDENCE", "MODERATE_EVIDENCE", "MIXED_EVIDENCE", "FRAGILE", "INSUFFICIENT_EVIDENCE", "CONTAMINATED"}

\* value: None when it is not finite.
MeasuredObservation == [id : Nat, dataset : STRING, observed : Time, known : Time, value : Int \cup {None}]

\* handed: the hand-over names an experiment, its dataset and its replay;
\* configured: it is of the engine's configuration.
RobustnessValidationPlan ==
  [id : STRING, mode : ValidationMode, windows : WindowMode, dataset : STRING, start : Time, end : Time,
   development : Int, validation : Int, step : Int, embargo : Int, parameters : Nat, iterations : Nat,
   block : Nat, stresses : SUBSET Int, registered : Time \cup {None}, handed : BOOLEAN, configured : BOOLEAN]

HoldoutSeal == [plan : STRING, start : Time, end : Time, sealed : Time]

\* RobustnessConfiguration.validate.
RobustnessConfiguration ==
  {MaxWindows, MaxIterations, MaxEvidence, MinimumResample, MinimumWindows} \subseteq Nat \ {0}

ASSUME RobustnessAssumption ==
  /\ RobustnessConfiguration
  /\ RobustnessPlans \subseteq RobustnessValidationPlan
  /\ \A offered \in Measured : offered \subseteq MeasuredObservation
  /\ HoldoutPeriods \subseteq Time \X Time /\ SealTimes \subseteq Time
  /\ StableGap \in Nat /\ {MaxSeals, MaxJudged} \subseteq Nat

-----------------------------------------------------------------------------
\* _validate
ValidPlan(p, offered) ==
  /\ p.configured /\ p.handed
  /\ p.start < p.end /\ \A d \in {p.development, p.validation, p.step} : d > 0
  /\ p.embargo >= 0 /\ p.iterations \in 1..MaxIterations
  /\ p.block >= 1 /\ \A d \in p.stresses : d >= 0
  /\ p.mode = "PRE_REGISTERED" => p.registered # None /\ p.registered <= p.start
  /\ \A o \in offered : o.dataset = p.dataset /\ o.value # None /\ o.observed <= o.known /\ o.known <= p.end

FreshRobustness ==
  [plans |-> {}, observations |-> {}, seals |-> <<>>, windowResults |-> {},
   evidence |-> <<>>, profiles |-> {}, results |-> <<>>, used |-> {}]

RegisterPlan(p, offered) ==
  /\ \A q \in robust.plans : q.id # p.id
  /\ ValidPlan(p, offered)
  /\ robust' = [robust EXCEPT !.plans = @ \cup {p}, !.observations = @ \cup offered]
  /\ UNCHANGED <<savedRobust, judged>>

\* seal_holdout: the time of the sealing is what the caller says it is.
SealHoldout(p, period, at) ==
  LET seal == [plan |-> p.id, start |-> period[1], end |-> period[2], sealed |-> at]
  IN /\ p.start < seal.start /\ seal.start < seal.end /\ seal.end <= p.end
     /\ robust' = [robust EXCEPT !.seals = Put(@, [id |-> seal])]
     /\ Len(robust'.seals) <= MaxSeals
     /\ UNCHANGED <<savedRobust, judged>>

(***************************************************************************)
(* The windows of a plan.                                                  *)
(***************************************************************************)

ValidationWindow(p, n) ==
  LET cursor == p.start + (n - 1) * p.step
      opened == cursor + p.development + p.embargo
  IN [plan |-> p.id, sequence |-> n,
      developed |-> <<IF p.windows = "ANCHORED" THEN p.start ELSE cursor, cursor + p.development>>,
      validated |-> <<opened, opened + p.validation>>]

WindowCount(p) == Cardinality({n \in 1..(p.end - p.start) : ValidationWindow(p, n).validated[2] <= p.end})

\* generate_windows: a function of the plan, so that those that are kept are left
\* out; with too many of them it fails.
Windows == [p \in RobustnessPlans |-> [n \in 1..WindowCount(p) |-> ValidationWindow(p, n)]]

\* _values: of all observations of the dataset, whatever plan they came with.
ValuesIn(p, interval) ==
  {o \in robust.observations :
     /\ o.dataset = p.dataset /\ interval[1] <= o.observed /\ o.observed < interval[2]
     /\ o.known <= interval[2]}

\* The seals that hold a window, by their places.
Sealing(p, w) ==
  {i \in DOMAIN robust.seals : LET s == robust.seals[i].id
                              IN s.plan = p.id /\ s.start <= w.validated[1] /\ s.end >= w.validated[2]}

\* Mutant: the latest seal of a window decides.
ContaminationLatest(p, w) ==
  LET seal == robust.seals[Max(Sealing(p, w))].id
  IN IF Sealing(p, w) = {} THEN "UNKNOWN"
     ELSE IF seal.sealed > w.validated[1] THEN "CONTAMINATED"
     ELSE IF seal \in robust.used THEN "POTENTIALLY_CONTAMINATED"
     ELSE "CLEAN"

\* _contamination: the first seal that holds the window decides.
Contamination(p, w) ==
  LET seal == robust.seals[Min(Sealing(p, w))].id
  IN IF Sealing(p, w) = {} THEN "UNKNOWN"
     ELSE IF seal.sealed > w.validated[1] THEN "CONTAMINATED"
     ELSE IF seal \in robust.used THEN "POTENTIALLY_CONTAMINATED"
     ELSE "CLEAN"

ContaminationRank == [CLEAN |-> 0, UNKNOWN |-> 1, POTENTIALLY_CONTAMINATED |-> 2, CONTAMINATED |-> 3]

Contaminated(p, windows) ==
  LET states == {Contamination(p, w) : w \in windows} \cup {"CLEAN"}
  IN CHOOSE s \in states : \A t \in states : ContaminationRank[t] <= ContaminationRank[s]

(***************************************************************************)
(* Judging a plan.                                                         *)
(***************************************************************************)

Mean(observations) == MapThenSumSet(LAMBDA o : o.value, observations) \div Cardinality(observations)

\* What a window results in, if it has observations to develop on and to validate on.
WindowResult(p, w) ==
  LET development == ValuesIn(p, w.developed)
      validation  == ValuesIn(p, w.validated)
  IN IF {} \in {development, validation} THEN None
     ELSE [window |-> w, developed |-> Mean(development), validated |-> Mean(validation),
           state |-> Contamination(p, w)]

IsStable(r) == r.validated - r.developed \in -StableGap..StableGap

\* _evidence, from a window and from the stresses.
Record(p, direction, reference) == [id |-> [plan |-> p.id, direction |-> direction, of |-> reference]]

WindowEvidence(p, w) ==
  LET r == WindowResult(p, w)
  IN IF r = None THEN Record(p, "WEAKENING", w)
     ELSE Record(p, IF IsStable(r) THEN "SUPPORTING" ELSE "WEAKENING", r)

EvidenceKept(evidence, records) ==
  FoldLeft(LAMBDA s, r : Evicted(PutNew(s, r), MaxEvidence), evidence, records)

\* _stress: the share, in percent, of the stresses that do not raise the mean.
StressStability(p, values) ==
  IF values = {} THEN None
  ELSE IF p.stresses = {} THEN 100
  ELSE (100 * Cardinality({d \in p.stresses : Mean({[o EXCEPT !.value = @ - d] : o \in values}) <= Mean(values)}))
                  \div Cardinality(p.stresses)

\* parameter_robustness: the range of the values, and whether it is a cliff.
ParameterRobustness(p, values) ==
  IF p.parameters = 0 \/ values = {} THEN [range |-> None, cliff |-> FALSE]
  ELSE LET range == Greatest(0, Max({a.value - b.value : a \in values, b \in values}))
       IN [range |-> range, cliff |-> range > 4 * StableGap]

\* _profile
Classification(results, parameter, contamination) ==
  LET stable == {r \in results : IsStable(r)}
  IN IF contamination = "CONTAMINATED" THEN "CONTAMINATED"
     ELSE IF Cardinality(results) < MinimumWindows THEN "INSUFFICIENT_EVIDENCE"
     ELSE IF parameter.cliff THEN "FRAGILE"
     ELSE IF stable = results THEN "ROBUST_EVIDENCE"
     ELSE IF 2 * Cardinality(stable) >= Cardinality(results) THEN "MODERATE_EVIDENCE"
     ELSE "MIXED_EVIDENCE"

\* run: a plan that was judged at that time has its result, which is given again;
\* every seal of the plan is used, whether it holds a window or not.
JudgePlan(p, at) ==
  LET windows       == Range(Windows[p])
      results       == {WindowResult(p, w) : w \in windows} \ {None}
      validations   == {<<r.window.sequence, ValuesIn(p, r.window.validated)>> : r \in results}
      values        == UNION {v[2] : v \in validations}
      sampled       == MapThenSumSet(LAMBDA v : Cardinality(v[2]), validations)
      contamination == Contaminated(p, windows)
      parameter     == ParameterRobustness(p, values)
      stresses      == SetToSeq({Record(p, "NEUTRAL", [stress |-> d]) : d \in p.stresses})
      profile == [plan |-> p.id, walk |-> <<Cardinality({r \in results : IsStable(r)}), Cardinality(results)>>,
                  distribution |-> IF sampled < MinimumResample THEN None ELSE validations,
                  stress |-> StressStability(p, values), parameter |-> parameter.range,
                  contamination |-> contamination,
                  classification |-> Classification(results, parameter, contamination)]
      evidence == EvidenceKept(robust.evidence,
                           [n \in DOMAIN Windows[p] |-> WindowEvidence(p, Windows[p][n])]
                             \o (IF values = {} THEN <<>> ELSE stresses))
      final == [id |-> [profile |-> profile, results |-> results], at |-> at,
                evidence |-> {r.id : r \in {e \in Range(evidence) : e.id.plan = p.id}}]
  IN /\ Len(judged) < MaxJudged
     /\ \A i \in DOMAIN robust.results : ~(robust.results[i].id.profile.plan = p.id /\ robust.results[i].at = at)
     /\ WindowCount(p) <= MaxWindows
     /\ robust' = [robust EXCEPT
                     !.windowResults = @ \cup results, !.evidence = evidence, !.profiles = @ \cup {profile},
                     !.results = PutNew(@, final),
                     !.used = @ \cup {s.id : s \in {t \in Range(robust.seals) : t.id.plan = p.id}}]
     /\ judged' = Append(judged, [profile |-> profile, windows |-> windows, seals |-> robust.seals])
     /\ UNCHANGED savedRobust

(***************************************************************************)
(* Recovery.                                                               *)
(***************************************************************************)

\* reconcile: the windows keep the validation after the development, and the
\* evidence of a plan's results is the plan's own.
PlanReconciles(e, p) ==
  /\ \A n \in DOMAIN Windows[p] : Windows[p][n].developed[2] <= Windows[p][n].validated[1]
  /\ \A i \in DOMAIN e.results, k \in DOMAIN e.evidence :
       e.results[i].id.profile.plan = p.id /\ e.evidence[k].id \in e.results[i].evidence =>
         e.evidence[k].id.plan = p.id

SaveRobustness ==
  /\ savedRobust' = [robust EXCEPT !.used = {}]
  /\ UNCHANGED <<robust, judged>>

\* restore: the uses of the seals are not part of the state: they are those of this
\* process, none in a new one.  A state that is refused, or does not reconcile, only
\* sets recovery_restricted, which nothing reads.
RestoreRobustness(renewed) ==
  /\ savedRobust # None
  /\ robust' = [savedRobust EXCEPT !.used = IF renewed THEN {} ELSE robust.used]
  /\ judged' = <<>>
  /\ UNCHANGED savedRobust

RobustnessInit == robust = FreshRobustness /\ savedRobust = None /\ judged = <<>>

RobustnessNext ==
  \/ \E p \in RobustnessPlans, offered \in Measured : RegisterPlan(p, offered)
  \/ \E p \in robust.plans, period \in HoldoutPeriods, at \in SealTimes : SealHoldout(p, period, at)
  \/ \E p \in robust.plans, at \in JudgingTimes : JudgePlan(p, at)
  \/ SaveRobustness
  \/ \E renewed \in BOOLEAN : RestoreRobustness(renewed)

RobustnessSpec == RobustnessInit /\ [][RobustnessNext]_robustnessVars

-----------------------------------------------------------------------------
RobustnessTypeOK ==
  /\ robust.plans \subseteq RobustnessPlans /\ robust.observations \subseteq MeasuredObservation
  /\ \A i \in DOMAIN robust.seals : robust.seals[i].id \in HoldoutSeal
  /\ \A profile \in robust.profiles :
       profile.contamination \in ContaminationState /\ profile.classification \in RobustnessClassification

\* Docs/NEUTRAL_ROBUSTNESS_VALIDATION.md, "deterministic holdout seals,
\* contamination detection, and reuse warnings", since the engine began or was
\* restored: whatever is registered and sealed in between, no plan that has
\* windows is judged clean twice; without new seals no later result is cleaner;
\* a seal that came too late is a veto at every later time; and what is kept of the
\* results is complete and belongs together, the evidence that was evicted excepted.
HoldoutsSpentOnce ==
  /\ RobustnessTypeOK
  /\ \A i, j \in DOMAIN judged :
       LET a == judged[i]
           b == judged[j]
       IN i < j /\ a.profile.plan = b.profile.plan /\ a.windows # {} =>
            /\ "CLEAN" \notin {a.profile.contamination} \cap {b.profile.contamination}
            /\ a.profile.classification = "CONTAMINATED" => b.profile.classification = "CONTAMINATED"
            /\ a.seals = b.seals =>
                 ContaminationRank[a.profile.contamination] <= ContaminationRank[b.profile.contamination]
  /\ \A i \in DOMAIN robust.results :
       LET result == robust.results[i]
       IN result.id.profile \in robust.profiles /\ result.id.results \subseteq robust.windowResults
  /\ \A p \in robust.plans : PlanReconciles(robust, p)

\* Validation as a whole: experiments replay, and holdouts are spent once.
ValidationHolds == ReplayHolds /\ HoldoutsSpentOnce
=============================================================================
