---------------------------- MODULE AdaptiveRisk ----------------------------
(***************************************************************************)
(* reconcile of src/src/amrte/risk/invalidation.py: a thesis's distance is *)
(* sized by RiskSizingEngine (risk/sizing.py) and what that authorises is  *)
(* restricted by AdaptiveRiskEngine (risk/adaptive.py), which remembers    *)
(* the peak of the research equity and a risk state for every decision.    *)
(*                                                                         *)
(* Amounts of risk are whole numbers, of which fractions are rounded down; *)
(* modifiers and the factor are in percent.                                *)
(***************************************************************************)
EXTENDS ThesisInvalidation

CONSTANTS
  Capitals,             \* available capital callers pass, and when it was known
  BaseFraction,         \* base_risk_fraction
  Costs,                \* cost buffers callers pass
  MinExposure, MaxExposure,
  Equities,             \* equity histories callers pass, see ResearchEquityObservation
  Evidences,            \* volatility and health evidence, see RiskModifierResult
  Bands,                \* drawdown thresholds, in percent, in ascending order
  BandModifiers,        \* drawdown_modifiers, one more than the thresholds
  ProviderModifier,     \* what the missing policies give portfolio and protection
  MinimumModifier,      \* composition_mode is MINIMUM_MODIFIER
  ByGroup,              \* overlap_policy is MOST_RESTRICTIVE_ONLY
  HardMaximum,          \* the least of the maximum fractions
  RiskConfirmations,    \* recovery_confirmation_observations
  RiskCooldown,         \* cooldown_seconds
  MaxAdaptiveCache,     \* maximum_cache_entries
  MaxReconciliations    \* bound: evaluations of a decision that were not cached

VARIABLES
  adaptive,     \* the adaptive engine
  given,        \* the latest result of reconcile
  judged,       \* history: proposed and accepted states, by decision
  highest       \* history: the highest equity that was evaluated

riskVars == <<theses, adaptive, given, judged, highest>>

\* NORMAL, CAUTION, REDUCED, DEFENSIVE, PROTECT and BLOCKED, and the fraction of
\* the budget a state allows at most.
AdaptiveRiskState == 0..5

StateCap == [s \in AdaptiveRiskState |-> <<100, 80, 60, 30, 10, 0>>[s + 1]]

RiskModifierResult == [id : STRING, group : STRING, modifier : Percent, at : Time]

ResearchEquityObservation == [equity : Int, at : Time]

RiskSizingConfiguration ==
  BaseFraction \in Percent /\ {MinExposure, MaxExposure} \subseteq Nat /\ MinExposure <= MaxExposure

\* The bands are those that are distinct: validate wants four.
AdaptiveRiskConfiguration ==
  /\ {HardMaximum, ProviderModifier} \subseteq Percent
  /\ Bands \in Seq(Nat) /\ BandModifiers \in Seq(Percent) /\ Len(BandModifiers) = Len(Bands) + 1
  /\ \A i, j \in DOMAIN Bands : i < j => Bands[i] <= Bands[j]
  /\ \A i \in DOMAIN Bands : BandModifiers[i + 1] <= BandModifiers[i]
  /\ RiskConfirmations \in Nat \ {0} /\ RiskCooldown \in Nat /\ MaxAdaptiveCache \in Nat \ {0}

ASSUME AdaptiveAssumption ==
  /\ RiskSizingConfiguration /\ AdaptiveRiskConfiguration
  /\ \A c \in Capitals : c.amount \in Nat /\ c.at \in Time
  /\ Costs \subseteq Nat /\ MaxReconciliations \in Nat
  /\ Equities \subseteq Seq(ResearchEquityObservation)
  /\ Evidences \subseteq Seq(RiskModifierResult)

FreshAdaptive == [peak |-> 0, states |-> <<>>, cache |-> <<>>]

(***************************************************************************)
(* Sizing.                                                                 *)
(***************************************************************************)

\* quantize_simulated_exposure
Quantized(risk, distance, cost) ==
  LET q == Least(Greatest(0, risk - cost) \div distance, MaxExposure)
  IN IF q < MinExposure THEN 0 ELSE q

RiskOf(exposure, distance, cost) == IF exposure = 0 THEN 0 ELSE exposure * distance + cost

\* size: what a decision that is not blocked is authorised; a blocked one has 0.
Sized(s, capital, distance, cost) ==
  LET budget   == (capital.amount * BaseFraction) \div 100
      exposure == IF distance = None THEN 0 ELSE Quantized(budget, distance, cost)
  IN IF ~s.available \/ capital.at > s.at \/ exposure = 0
     THEN [snapshot |-> s, budget |-> 0, capital |-> 0, exposure |-> 0, distance |-> distance, cost |-> cost]
     ELSE [snapshot |-> s, budget |-> budget, capital |-> capital.amount, exposure |-> exposure,
           distance |-> distance, cost |-> cost]

(***************************************************************************)
(* Modifiers.                                                              *)
(***************************************************************************)

Known(history, s) == SelectSeq(history, LAMBDA o : o.at <= s.at)

\* _drawdown_modifier, from the peak that is remembered; without a history, or
\* with equity that is not positive, it blocks.
PeakOf(history, s) ==
  LET known == Known(history, s)
  IN IF known = <<>> \/ \E i \in DOMAIN known : known[i].equity <= 0 THEN 0
     ELSE Max({known[i].equity : i \in DOMAIN known})

Peak(history, s) == Greatest(adaptive.peak, PeakOf(history, s))

DrawdownModifier(history, s) ==
  LET known == Known(history, s)
      peak  == Peak(history, s)
      lost  == peak - Last(known).equity
      band  == Cardinality({i \in DOMAIN Bands : 100 * lost >= Bands[i] * peak})
  IN IF PeakOf(history, s) = 0 THEN 0 ELSE BandModifiers[band + 1]

\* All modifiers, in the order of the code.
Modifiers(history, s, evidence) ==
  <<[group |-> "DRAWDOWN", modifier |-> DrawdownModifier(history, s)]>>
  \o [i \in DOMAIN evidence |-> [group |-> evidence[i].group, modifier |-> evidence[i].modifier]]
  \o <<[group |-> "PORTFOLIO", modifier |-> ProviderModifier],
       [group |-> "PROTECTION", modifier |-> ProviderModifier]>>

\* Those that take part: of a dependency group only the first of the least.
Participating(all) ==
  {i \in DOMAIN all : ByGroup =>
     \A j \in DOMAIN all : all[j].group = all[i].group =>
       all[j].modifier > all[i].modifier \/ (all[j].modifier = all[i].modifier /\ j >= i)}

\* evaluate: the hard reasons, and the composition.
Hard(d, history, evidence, all) ==
  \/ d.exposure = 0
  \/ \E i \in DOMAIN history : history[i].at > d.snapshot.at
  \/ \E i \in DOMAIN evidence : evidence[i].at > d.snapshot.at
  \/ \E i \in DOMAIN all : all[i].modifier = 0

Composed(amount, all) ==
  LET part[i \in 0..Len(all)] ==
        IF i = 0 THEN amount
        ELSE IF i \in Participating(all) THEN (part[i - 1] * all[i].modifier) \div 100
        ELSE part[i - 1]
  IN IF MinimumModifier
     THEN (amount * Min({all[i].modifier : i \in Participating(all)})) \div 100
     ELSE part[Len(all)]

(***************************************************************************)
(* The risk state.                                                         *)
(***************************************************************************)

\* _classify of the restricted part of the budget.
Classify(amount, budget) ==
  IF amount = 0 THEN 5
  ELSE CHOOSE s \in 0..4 : LET within(t) == 100 * amount <= <<100, 99, 60, 30, 10>>[t + 1] * budget
                           IN within(s) /\ (s < 4 => ~within(s + 1))

\* Mutant: the state follows the proposal at once, also to a milder one.
TransitionAtOnce(key, proposed, at) ==
  [id |-> key, state |-> proposed, count |-> 0, cooldown |-> 0]

\* _transition: down at once, up by one when confirmed and out of the cooldown,
\* which every evaluation in a restricted state starts anew.
Transition(key, proposed, at) ==
  LET known    == Held(adaptive.states, key)
      old      == Entry(adaptive.states, key)
      milder   == known /\ proposed < old.state
      count    == IF milder THEN old.count + 1 ELSE 0
      stepped  == milder /\ count >= RiskConfirmations /\ at >= old.cooldown
      accepted == IF stepped THEN old.state - 1 ELSE IF milder THEN old.state ELSE proposed
      until    == IF known THEN old.cooldown ELSE 0
  IN [id |-> key, state |-> accepted,
      count |-> IF stepped THEN 0 ELSE count,
      cooldown |-> IF accepted >= 3 THEN Greatest(until, at + RiskCooldown) ELSE until]

(***************************************************************************)
(* Operations.                                                             *)
(***************************************************************************)

\* What the modifiers and the maximum of the capital leave of the budget.
Capped(d, history, evidence, all) ==
  Least(IF Hard(d, history, evidence, all) THEN 0 ELSE Composed(d.budget, all),
        (d.capital * HardMaximum) \div 100)

\* What the risk state leaves of that.
Given(d, capped, state) ==
  LET risk == Least(capped, (d.budget * StateCap[state]) \div 100)
  IN [decision |-> d, risk |-> risk, state |-> state,
      exposure |-> IF risk = 0 THEN 0 ELSE Least(Quantized(risk, d.distance, d.cost), d.exposure)]

\* AdaptiveRiskEngine.evaluate of what is sized, when the cache has nothing.
\* It is not called for a decision that sizing blocks.
RestrictRisk(d, history, evidence) ==
  LET key == <<d, history, evidence>>
      s   == d.snapshot
  IN /\ ~Held(adaptive.cache, key)
     /\ Len(judged[s.id]) < MaxReconciliations
     /\ \E capped \in {Capped(d, history, evidence, Modifiers(history, s, evidence))} :
        \E proposed \in {Classify(capped, d.budget)} :
        \E state \in {Transition(s.id, proposed, s.at)} :
          /\ given' = Given(d, capped, state.state)
          /\ adaptive' = [peak |-> Peak(history, s), states |-> Put(adaptive.states, state),
                          cache |-> Evicted(Append(adaptive.cache, [id |-> key, result |-> given']),
                                            MaxAdaptiveCache)]
          /\ judged' = [judged EXCEPT ![s.id] =
                          Append(@, [proposed |-> proposed, accepted |-> state.state])]
     /\ highest' = Greatest(highest, PeakOf(history, s))

\* The cached result, whatever the state has become since.
RestrictRiskAgain(d, history, evidence) ==
  /\ Held(adaptive.cache, <<d, history, evidence>>)
  /\ given' = Entry(adaptive.cache, <<d, history, evidence>>).result
  /\ adaptive' = [adaptive EXCEPT !.cache =
                    Append(Without(adaptive.cache, <<d, history, evidence>>),
                           Entry(adaptive.cache, <<d, history, evidence>>))]
  /\ UNCHANGED <<judged, highest>>

\* What becomes of theses without risk.
MakeThesis ==
  /\ \E s \in Snapshots, e \in Structures \cup {None}, a \in Atrs \cup {None}, n \in Additions :
       EvaluateThesis(s, e, a, n) \/ EvaluateThesisAgain(<<s.id, e, a, n>>)
  /\ UNCHANGED <<adaptive, given, judged, highest>>

FollowThesis ==
  /\ \E d \in HeldDecisions :
       (\E t \in Time : ObserveThesis(d, t)) \/ ExpireThesis(d) \/ SupersedeThesis(d)
  /\ UNCHANGED <<adaptive, given, judged, highest>>

\* reconcile, of a decision with a distance.
ReconcileThesis(d, capital, cost, history, evidence) ==
  LET s == CHOOSE x \in Snapshots : x.id = d.snapshot
  IN /\ d.distance # None
     /\ \E sized \in {Sized(s, capital, d.distance, cost)} :
          /\ sized.exposure > 0
          /\ RestrictRisk(sized, history, evidence) \/ RestrictRiskAgain(sized, history, evidence)
     /\ UNCHANGED theses

\* recovery_state and restore of both engines in a new process.
RestartRisk ==
  /\ RestartTheses
  /\ adaptive' = [adaptive EXCEPT !.cache = <<>>]
  /\ UNCHANGED <<given, judged, highest>>

RiskInit ==
  /\ theses = FreshTheses /\ adaptive = FreshAdaptive /\ given = None
  /\ judged = [i \in {s.id : s \in Snapshots} |-> <<>>] /\ highest = 0

Reconciliation ==
  \E d \in HeldDecisions, c \in Capitals, n \in Costs, h \in Equities, e \in Evidences :
    ReconcileThesis(d, c, n, h, e)

RiskNext ==
  \/ MakeThesis \/ FollowThesis
  \/ Reconciliation
  \/ RestartRisk

RiskSpec == RiskInit /\ [][RiskNext]_riskVars

-----------------------------------------------------------------------------
(* Properties.                                                             *)

RiskTypeOK ==
  /\ \A i \in DOMAIN theses.states : theses.states[i].status \in InvalidationLifecycle
  /\ \A i \in DOMAIN adaptive.states : adaptive.states[i].state \in AdaptiveRiskState

\* Docs/ADAPTIVE_RISK_RESEARCH.md: "deterioration is immediate; recovery is
\* confirmed, stepped, and cooldown-aware", peaks are remembered, and "0 <=
\* adaptive risk <= Prompt 17 base risk".  Whatever distances, capital, costs and
\* evidence meet, and across restarts: what an exposure loses at the thesis's
\* distance is within the risk that was given, which is within the budget; a
\* decision's state follows a worse one at once and a better one by one step,
\* after as many better evaluations in a row as are configured; and no drawdown
\* is measured from less than the highest equity that was seen.
RestrictionEarned ==
  /\ RiskTypeOK
  /\ given # None =>
       /\ RiskOf(given.exposure, given.decision.distance, given.decision.cost) <= given.risk
       /\ 100 * given.risk <= StateCap[given.state] * given.decision.budget
       /\ given.exposure <= given.decision.exposure
  /\ \A i \in DOMAIN judged : \A n \in 2..Len(judged[i]) :
       LET now == judged[i][n] before == judged[i][n - 1]
       IN IF now.proposed >= before.accepted THEN now.accepted = now.proposed
          ELSE /\ now.accepted \in {before.accepted, before.accepted - 1}
               /\ now.accepted < before.accepted =>
                    /\ n > RiskConfirmations
                    /\ \A k \in (n - RiskConfirmations + 1)..n :
                         judged[i][k].proposed < judged[i][k - 1].accepted
  /\ adaptive.peak = highest
=============================================================================
