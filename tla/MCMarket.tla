------------------------------ MODULE MCMarket ------------------------------
(* A small instance of the engines that turn market data into context.     *)
EXTENDS MarketData, NewsRisk, Regime, Sessions, Robustness, Structure, Framework

\* Market data: a quick series and a slow one; records with a duplicate, a gap and
\* a jump, in the wrong order, and in conflict.
Bar(series, open, close, price, spread, closed) ==
  [series |-> series, open |-> open, close |-> close, price |-> price, spread |-> spread,
   closed |-> closed, aware |-> TRUE, sound |-> TRUE]
Quick(open, price) == Bar("quick", open, open + 1, price, open + 1, TRUE)
Slow(open) == Bar("slow", open, open + 2, 4, None, TRUE)
Forming(open) == Bar("quick", open, None, 4, 1, FALSE)
MCProviderBars == <<Slow(0), Quick(0, 4), Quick(1, 4), Forming(2)>>
MCDatasets ==
  {<<Slow(0), Quick(0, 4), Quick(0, 4), Quick(1, 8)>>, <<Quick(1, 4), Quick(0, 4), Quick(0, 5)>>}
MCCadence == [quick |-> 1, slow |-> 2]
MCRoles == [context |-> "slow", strategy |-> "quick", execution |-> "quick"]

\* News: an event that is postponed after it was announced, one that is moved
\* nearer, one whose importance is unknown, and one of another dimension.
Version(id, logical, scheduled, updated, importance, active, dimension) ==
  [id |-> id, logical |-> logical, scheduled |-> scheduled, known |-> 0, updated |-> updated,
   revision |-> updated, importance |-> importance, active |-> active, affects |-> {dimension}]
MCEventVersions ==
  {Version(1, "rate", 2, 0, 4, TRUE, "A"), Version(2, "rate", 2, 2, 4, FALSE, "A"),
   Version(3, "jobs", 6, 0, 3, TRUE, "A"), Version(4, "jobs", 3, 1, 3, TRUE, "A"),
   Version(5, "speech", 5, 1, 5, TRUE, "A"), Version(6, "trade", 1, 0, 1, TRUE, "B")}
MCCoverageStart == -3
MCDimensions == [alpha |-> {"A"}, beta |-> {"A", "B"}]
MCEventWindows ==
  [i \in 1..4 |-> [pre |-> IF i < 3 THEN 1 ELSE 2, before |-> i \div 3, after |-> 1, post |-> 1]]
MCNewsPolicy == [trend |-> [CLEAR |-> "ELIGIBLE", UPCOMING_HIGH |-> "ELIGIBLE"]]

\* Regime: a clear trend, a range, a breakout, a mixed structure, nothing at all, and
\* features or market data that are not fit.
Reading(direction, consolidation, broke, adx, expansion, displacement) ==
  [direction |-> direction, consolidation |-> consolidation, broke |-> broke,
   shifted |-> direction = "MIXED", flipped |-> FALSE, adx |-> adx, expansion |-> expansion,
   displacement |-> displacement, bandwidth |-> IF direction = "SIDEWAYS" THEN 3 ELSE None, valid |-> TRUE]
Uncertain == Reading("UNKNOWN", None, FALSE, None, None, None)
Observation(snapshot, fit, reading) ==
  [snapshot |-> snapshot, lineage |-> TRUE, fit |-> fit, readings |-> [i \in 1..3 |-> reading]]
MCRegimeInputs ==
  {Observation(1, TRUE, Reading("BULLISH", None, FALSE, 70, 110, 150)),
   Observation(2, TRUE, Reading("SIDEWAYS", 80, FALSE, 15, 90, 10)),
   Observation(3, TRUE, Reading("BULLISH", None, TRUE, 30, 190, 240)),
   Observation(4, TRUE, Uncertain),
   Observation(5, TRUE, [Uncertain EXCEPT !.valid = FALSE]),
   [Observation(6, FALSE, Uncertain) EXCEPT !.lineage = FALSE],
   Observation(7, TRUE, Reading("MIXED", None, FALSE, 60, 150, 40))}
MCRegimeTimelines == {<<o, p>> : o \in MCRegimeInputs, p \in MCRegimeInputs}
MCThresholds == [TREND |-> 60, RANGE |-> 60, BREAKOUT_EXPANSION |-> 65, TRANSITION |-> 55]
MCWeights == <<5, 3, 2>>

\* Sessions: days of six units from a Friday to the Wednesday after it; the first
\* zone repeats two units on the Sunday, the second skips one on the Monday.
MCZones ==
  [reference |-> [before |-> 0, after |-> 0, at |-> 0], west |-> [before |-> 0, after |-> -2, at |-> 16],
   east |-> [before |-> 1, after |-> 2, at |-> 21]]
Session(id, type, zone, open, close, priority) ==
  [id |-> id, type |-> type, zone |-> zone, open |-> open, close |-> close, weekdays |-> {0, 1, 2, 4, 6},
   priority |-> priority, enabled |-> TRUE]
MCSessionsOf ==
  [pair |-> {Session(1, "LONDON", "east", 1, 4, 0), Session(2, "NEW_YORK", "west", 2, 5, 1),
             [Session(3, "CUSTOM", "reference", 0, 5, 2) EXCEPT !.enabled = FALSE]},
   index |-> {Session(1, "ASIAN", "west", 0, 3, 0), Session(2, "CUSTOM", "east", 5, 2, 0)}]
MCCalendarDays == [d \in {0, 3, 5} |-> CASE d = 5 -> "CLOSED" [] d = 3 -> "SHORTENED" [] OTHER -> "OPEN"]
MCRollovers == {[zone |-> "west", start |-> 4, end |-> 5, weekdays |-> {0, 4}, pre |-> 1, post |-> 1]}
MCSessionPolicy == [trend |-> (1 :> "ELIGIBLE") @@ (2 :> "CONDITIONAL") @@ (0 :> "RESTRICTED")]


\* Experiments: one of two trials that holds a subject out, and one over a longer
\* time that brings observations the first may then use.
MCDefinitions ==
  {[id |-> "short", mode |-> "PRE_REGISTERED", dataset |-> "D", manifest |-> {"s", "t"}, trials |-> 2,
    subjects |-> {"s", "t"}, categories |-> {}, holdout |-> {"t"}, start |-> 1, end |-> 2, asOf |-> 2,
    registered |-> 0],
   [id |-> "long", mode |-> "EXPLORATORY", dataset |-> "D", manifest |-> {"s", "t"}, trials |-> 1,
    subjects |-> {"s", "t"}, categories |-> {"c"}, holdout |-> {}, start |-> 0, end |-> 3, asOf |-> 3,
    registered |-> None]}
Neutral(id, subject, observed, known) ==
  [id |-> id, subject |-> subject, category |-> "c", observed |-> observed, known |-> known, dataset |-> "D"]
MCOffered ==
  {{Neutral(1, "s", 1, 2), Neutral(2, "t", 1, 2)}, {Neutral(3, "s", 0, 1), Neutral(4, "s", 2, 3)}}

\* Robustness: a plan of three windows, whose holdout may be sealed in time and too
\* late, and one with an embargo before its only window; values that agree, that
\* drift, and that are known late.
Plan(id, mode, start, end, windows, embargo) ==
  [id |-> id, mode |-> mode, windows |-> windows, dataset |-> "D", start |-> start, end |-> end,
   development |-> 1, validation |-> 1, step |-> 1, embargo |-> embargo, parameters |-> 2,
   iterations |-> 1, block |-> 1, stresses |-> {1, 2}, registered |-> 0, handed |-> TRUE, configured |-> TRUE]
MCRobustnessPlans ==
  {Plan("two", "PRE_REGISTERED", 0, 4, "ANCHORED", 0), Plan("one", "EXPLORATORY", 1, 4, "ROLLING", 1)}
Measure(id, observed, known, value) ==
  [id |-> id, dataset |-> "D", observed |-> observed, known |-> known, value |-> value]
MCMeasured == {{Measure(1, 0, 1, 4), Measure(2, 1, 2, 5), Measure(3, 2, 4, 9), Measure(4, 3, 4, 6)}}
MCHoldoutPeriods == {<<1, 4>>}

\* Structure: bars that rise, that fall, and one between them.
MCBars ==
  {[high |-> 6, low |-> 4, close |-> 6], [high |-> 5, low |-> 3, close |-> 4], [high |-> 4, low |-> 2, close |-> 2]}

\* Framework: one strategy qualifies where another fails or sees nothing; of the
\* snapshots one is of the future at first, one is degraded, one has stale data,
\* and one is not assembled.
Snapshot(id, instrument, at, lineage, data, shape) ==
  [id |-> id, instrument |-> instrument, at |-> at, lineage |-> lineage, data |-> data,
   structure |-> shape, features |-> "HEALTHY", regime |-> "HEALTHY", session |-> "HEALTHY",
   news |-> "HEALTHY", ordinary |-> TRUE, allowed |-> TRUE]
MCIntelligence ==
  {Snapshot("a", "alpha", 1, {1}, "VALID", "HEALTHY"), Snapshot("b", "beta", 0, {1}, "VALID", "DEGRADED"),
   Snapshot("c", "alpha", 0, {1}, "STALE", "HEALTHY"), Snapshot("d", "alpha", 0, {1, 2}, "VALID", "HEALTHY")}
Said(detects, qualifies, score, fails) ==
  [capable |-> TRUE, applies |-> "APPLICABLE", detects |-> detects, qualifies |-> qualifies, score |-> score,
   fails |-> fails]
MCVerdict ==
  [s \in {"trend", "range"} |-> [id \in {"a", "b", "c", "d"} |->
     IF s = "trend" THEN Said("DETECTED", "QUALIFIED", "VALID", FALSE)
     ELSE Said("NOT_DETECTED", "REJECTED", "INVALID", id = "b")]]
MCGateStatuses ==
  {[RISK |-> "APPROVED", PORTFOLIO |-> "UNAVAILABLE"], [RISK |-> "APPROVED", PORTFOLIO |-> "REJECTED"]}
\* The engines share no state: one of them is called.
VARIABLE called

MCInit ==
  /\ called \in {"data", "news", "regime", "sessions", "experiments", "robustness", "structure", "framework"}
  /\ MarketInit /\ NewsInit /\ RegimeInit /\ SessionsInit
  /\ ExperimentInit /\ RobustnessInit /\ StructureInit /\ FrameworkInit

MCNext ==
  /\ UNCHANGED called
  /\ \/ /\ called = "data" /\ MarketNext
        /\ UNCHANGED <<newsVars, regimeVars, sessionVars,
                       experimentVars, robustnessVars, structureVars, frameworkVars>>
     \/ /\ called = "news" /\ NewsNext
        /\ UNCHANGED <<marketVars, regimeVars, sessionVars,
                       experimentVars, robustnessVars, structureVars, frameworkVars>>
     \/ /\ called = "regime" /\ RegimeNext
        /\ UNCHANGED <<marketVars, newsVars, sessionVars,
                       experimentVars, robustnessVars, structureVars, frameworkVars>>
     \/ /\ called = "sessions" /\ SessionsNext
        /\ UNCHANGED <<marketVars, newsVars, regimeVars,
                       experimentVars, robustnessVars, structureVars, frameworkVars>>
     \/ /\ called = "experiments" /\ ExperimentNext
        /\ UNCHANGED <<marketVars, newsVars, regimeVars,
                       sessionVars, robustnessVars, structureVars, frameworkVars>>
     \/ /\ called = "robustness" /\ RobustnessNext
        /\ UNCHANGED <<marketVars, newsVars, regimeVars,
                       sessionVars, experimentVars, structureVars, frameworkVars>>
     \/ /\ called = "structure" /\ StructureNext
        /\ UNCHANGED <<marketVars, newsVars, regimeVars,
                       sessionVars, experimentVars, robustnessVars, frameworkVars>>
     \/ /\ called = "framework" /\ FrameworkNext
        /\ UNCHANGED <<marketVars, newsVars, regimeVars,
                       sessionVars, experimentVars, robustnessVars, structureVars>>

MCSpec ==
  MCInit /\ [][MCNext]_<<marketVars, newsVars, regimeVars, sessionVars, experimentVars, robustnessVars, structureVars,
                         frameworkVars, called>>
=============================================================================
