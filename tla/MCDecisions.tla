---------------------------- MODULE MCDecisions -----------------------------
(* A small instance of the engines of risk, of portfolio and of arbitration. *)
EXTENDS Protection, AdaptiveRisk, PortfolioRisk, StrategyHealth, Correlation, Arbitration

\* Exits: two stages and a runner, one stage without; protection takes the third.
Target(target, fraction, trigger) == [target |-> target, fraction |-> fraction, trigger |-> trigger]

ExitPlan(id, initial, stages, runner, bars, at) ==
  [id |-> id, initial |-> initial, stages |-> stages,
   runner |-> IF runner = 0 THEN "NO_RUNNER" ELSE "FIXED_REMAINDER",
   runnerFraction |-> runner, fullExit |-> bars > 0, bars |-> bars, at |-> at]

MCExitPlans ==
  {ExitPlan("P", 5, <<Target(1, 50, "CLOSE_AT_OR_BEYOND"), Target(2, 30, "TOUCH")>>, 20, 3, 1),
   ExitPlan("Q", 3, <<Target(1, 50, "TOUCH")>>, 0, 0, 0)}
MCProtectedPlans == {ExitPlan("R", 2, <<Target(1, 50, "TOUCH")>>, 50, 3, 1)}
MCPlans == MCExitPlans \cup MCProtectedPlans

Observed(id, touch, close, worst, bar, at) ==
  [id |-> id, touch |-> touch, close |-> close, worst |-> worst, bar |-> bar, at |-> at]

MCEarly == {Observed(1, 1, 0, 0, 0, 0), Observed(3, 2, 0, 0, 1, 1)}
MCBars == {Observed(2, 1, 1, 0, 1, 1), Observed(4, 2, 2, 1, 2, 1), Observed(5, 0, 0, -1, 3, 1)}
MCExitObservations == MCEarly \cup MCBars

MCProtection ==
  [breakEven |-> TRUE, breakEvenOn |-> "TARGET_STAGE_COMPLETION", breakEvenAt |-> 0,
   offset |-> 0, trailing |-> TRUE, trailingOn |-> "NORMALIZED_R", trailingAt |-> 1,
   methods |-> {"ATR", "R_BASED"},
   steps |-> {[activation |-> 1, locked |-> 0], [activation |-> 2, locked |-> 1]},
   minimum |-> 1, cooldown |-> 0, hybrid |-> "ATR", touch |-> FALSE]
MCAtrBoundaries == {None, 1}
MCStructureBoundaries == {None}

\* Theses: one decision, with structure and volatility evidence or one of them.
MCSnapshots == {[id |-> "D1", at |-> 1, available |-> TRUE, restricted |-> FALSE]}
MCStructures == {[id |-> "S", raw |-> 3, at |-> 1, healthy |-> TRUE, lineage |-> TRUE]}
MCAtrs == {[id |-> "A", raw |-> 4, at |-> 0, healthy |-> TRUE, lineage |-> TRUE]}
MCCapitals == {[amount |-> 1000, at |-> 0]}
MCEquities == {<<[equity |-> 100, at |-> 0]>>, <<[equity |-> 96, at |-> 1]>>}
Modifier(id, group, modifier) == [id |-> id, group |-> group, modifier |-> modifier, at |-> 0]
MCEvidences ==
  {<<Modifier("v", "VOL", 100), Modifier("s", "STRATEGY", 100)>>,
   <<Modifier("v", "VOL", 50), Modifier("s", "VOL", 40)>>,
   <<Modifier("v", "VOL", 100), Modifier("s", "STRATEGY", 75)>>}
MCBands == <<2, 5>>
MCBandModifiers == <<100, 80, 0>>

\* Portfolio: two requests for one record, which differ in their groups.
Request(id, record, groups, exposure, rate) ==
  [id |-> id, record |-> record, decision |-> record, groups |-> groups,
   exposure |-> exposure, rate |-> rate, mapped |-> TRUE]

MCRequests ==
  {Request(1, 1, {"long"}, 2, 1), Request(2, 2, {"long", "alpha"}, 1, 2),
   Request(3, 2, {"short", "alpha"}, 2, 1)}
MCRemains ==
  {[exit |-> 3, risk |-> None, protected |-> FALSE], [exit |-> 1, risk |-> None, protected |-> TRUE],
   [exit |-> 1, risk |-> 1, protected |-> FALSE], [exit |-> 0, risk |-> 0, protected |-> FALSE]}
MCGroups == [long |-> 3, short |-> 3, alpha |-> 2]

\* Strategy health: outcomes of which one becomes known late.
MCProfiles == {[id |-> "A", minimum |-> 1, known |-> 0]}
Outcome(id, r, known) == [id |-> id, profile |-> "A", r |-> r, known |-> known]
MCOutcomes == {Outcome(1, -2, 0), Outcome(2, 1, 1)}
MCHealthWindows == {[completed |-> 1, minimum |-> 1], [completed |-> 2, minimum |-> 2]}
Threshold(expectancy, drawdown) == [expectancy |-> expectancy, drawdown |-> drawdown]
MCThresholds == <<Threshold(0, 1), Threshold(-1, 2), Threshold(-2, 3)>>
MCMultipliers == <<100, 25, 50, 25>>

\* Correlation: two instruments that are the same, opposite or in between, and
\* a candidate that is as the first.
Exposed(instrument, exposure) ==
  [instrument |-> instrument, direction |-> 1, exposure |-> exposure, updated |-> 0]
MCBooks == [b \in {"both"} |-> {Exposed(1, 1), Exposed(2, 2)}]
Returns(values) ==
  {[at |-> t - 1, available |-> t - 1, value |-> values[t]] : t \in DOMAIN values}
Series(a, b) == (1 :> Returns(a)) @@ (2 :> Returns(b)) @@ (3 :> Returns(a))
MCSeriesBooks ==
  ("strong" :> Series(<<1, 0, 1>>, <<1, 0, 1>>)) @@ ("none" :> Series(<<1, 0, 1>>, <<0, 1, 0>>))
  @@ ("mid" :> Series(<<1, 0, 0>>, <<1, 0, 1>>))
MCAdmissions == {[instrument |-> 3, direction |-> 1, approved |-> 2, at |-> 2]}
MCCorrelationWindows == {[count |-> 2, required |-> TRUE], [count |-> 3, required |-> FALSE]}

\* Arbitration: a trend and a breakout that agree, a breakout against them, a
\* return to the mean, a copy of the trend's hypothesis, one that has expired, and
\* one about other intelligence.
MCIntelligences ==
  {[id |-> "I", at |-> 1, epoch |-> 1, available |-> TRUE, regime |-> "TREND"],
   [id |-> "U", at |-> 1, epoch |-> 1, available |-> TRUE, regime |-> "UNKNOWN"],
   [id |-> "N", at |-> 1, epoch |-> 1, available |-> FALSE, regime |-> "TREND"]}
Evaluation(id, strategy, family, direction, candidate, expires, quality, about) ==
  [id |-> id, strategy |-> strategy, family |-> family,
   native |-> IF family = "TREND" THEN {"TREND"} ELSE {}, direction |-> direction,
   candidate |-> candidate, about |-> about, at |-> 1, expires |-> expires, epoch |-> 1,
   lineage |-> TRUE, qualified |-> TRUE, health |-> "HEALTHY", completeness |-> 90,
   uncertainty |-> 10, quality |-> quality, confidence |-> 60]
MCEvaluations ==
  {Evaluation("1", "trend", "TREND", "BULLISH", "c1", 2, 60, "I"),
   Evaluation("2", "breakout", "BREAKOUT", "BULLISH", "c2", 2, 90, "I"),
   Evaluation("3", "breakout", "BREAKOUT", "BEARISH", "c3", 2, 70, "I"),
   Evaluation("4", "range", "MEAN_REVERSION", "BULLISH", "c4", 2, 70, "I"),
   Evaluation("5", "range", "MEAN_REVERSION", "BULLISH", "c1", 2, 70, "I"),
   Evaluation("6", "range", "MEAN_REVERSION", "BULLISH", "c6", 0, 70, "I"),
   Evaluation("7", "trend", "TREND", "BULLISH", "c7", 2, 60, "U")}
MCStrategyPriority == <<"range">>

\* The engines share no state, but for theses and their risk, and for protection and
\* the exits it follows: one of them is called.  Exits with more plans are taken
\* without protection.
VARIABLE called

MCInit ==
  /\ called \in {"exits", "protection", "theses", "risk",
                 "portfolio", "health", "correlation", "arbitration"}
  /\ ExitInit /\ ProtectInit /\ RiskInit
  /\ PortfolioInit /\ HealthInit /\ CorrelationInit /\ ArbitrationInit

portfolioSide == <<portfolioVars, healthVars, correlationVars, arbitrationVars>>
riskSide      == <<exitVars, protectVars, riskVars>>

RiskSide ==
  \/ /\ called = "exits" /\ ExitSteps(MCExitPlans, MCExitObservations)
     /\ UNCHANGED <<protectVars, riskVars>>
  \/ /\ called = "protection" /\ UNCHANGED riskVars
     /\ \/ ProtectSteps(MCProtectedPlans, MCBars) /\ UNCHANGED exitVars
        \/ ExitSteps(MCProtectedPlans, MCBars) /\ UNCHANGED protectVars
  \/ /\ called = "theses" /\ UNCHANGED <<exitVars, protectVars>>
     /\ MakeThesis \/ FollowThesis \/ RestartRisk
  \/ /\ called = "risk" /\ UNCHANGED <<exitVars, protectVars>>
     /\ MakeThesis \/ Reconciliation \/ RestartRisk

PortfolioSide ==
  \/ /\ called = "portfolio" /\ PortfolioNext
     /\ UNCHANGED <<healthVars, correlationVars, arbitrationVars>>
  \/ /\ called = "health" /\ HealthNext
     /\ UNCHANGED <<portfolioVars, correlationVars, arbitrationVars>>
  \/ /\ called = "correlation" /\ CorrelationNext
     /\ UNCHANGED <<portfolioVars, healthVars, arbitrationVars>>
  \/ /\ called = "arbitration" /\ ArbitrationNext
     /\ UNCHANGED <<portfolioVars, healthVars, correlationVars>>

MCNext ==
  /\ UNCHANGED called
  /\ \/ RiskSide /\ UNCHANGED portfolioSide
     \/ PortfolioSide /\ UNCHANGED riskSide

MCSpec == MCInit /\ [][MCNext]_<<riskSide, portfolioSide, called>>
=============================================================================
