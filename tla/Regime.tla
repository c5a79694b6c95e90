------------------------------- MODULE Regime -------------------------------
(***************************************************************************)
(* RegimeEngine of src/src/amrte/market/regime.py: evidence of structure   *)
(* and features scores five components on three timeframes, their weighted *)
(* scores propose a regime, and hysteresis decides which one is published. *)
(* Scores are whole points, ratios are in percent.                         *)
(***************************************************************************)
EXTENDS Evidence, FiniteSetsExt, Functions, SequencesExt

CONSTANTS
  RegimeInputs,           \* what may be analyzed, see RegimeObservation
  RegimeTimelines,        \* bound: what callers rebuild from, sequences of them
  Threshold,              \* the ordinary regimes' thresholds: [Ordinary -> Percent]
  AbnormalThreshold, MinimumRegimeConfidence, MinimumMargin,
  EntryScore, ExitScore,  \* entry_threshold, exit_threshold
  Confirmations, MinimumPersistence, RegimeCooldown, UnknownGrace,
  Weights,                \* timeframe_weights of context, strategy and execution
  MaxRegimeHistory,       \* maximum_history
  MaxAnalyses             \* bound: observations that are analyzed

VARIABLES
  regime,                 \* the engine
  analyzed                \* history: what each analysis proposed and published

regimeVars == <<regime, analyzed>>

Ordinary == {"TREND", "RANGE", "BREAKOUT_EXPANSION", "TRANSITION"}

\* The order that decides between equal scores.
InDeclaredOrder == <<"TREND", "RANGE", "BREAKOUT_EXPANSION", "TRANSITION">>

RegimeConfiguration ==
  /\ \A o \in Ordinary : Threshold[o] \in Percent
  /\ {AbnormalThreshold, MinimumRegimeConfidence, MinimumMargin, EntryScore, ExitScore} \subseteq Percent
  /\ ExitScore <= EntryScore
  /\ {Confirmations, MinimumPersistence, MaxRegimeHistory} \subseteq Nat \ {0}
  /\ {RegimeCooldown, UnknownGrace} \subseteq Nat
  /\ Len(Weights) = 3 /\ \A i \in 1..3 : Weights[i] \in Nat
  /\ Weights[1] + Weights[2] + Weights[3] > 0

\* What the structure and the features of a timeframe say.  A number that is
\* None is missing; one that is there but not valid does not occur.
TimeframeReading ==
  [direction : {"BULLISH", "BEARISH", "SIDEWAYS", "MIXED", "UNKNOWN"},
   consolidation : Percent \cup {None}, broke : BOOLEAN, shifted : BOOLEAN, flipped : BOOLEAN,
   adx : Nat \cup {None}, expansion : Nat \cup {None}, displacement : Int \cup {None},
   bandwidth : Nat \cup {None}, valid : BOOLEAN]

\* lineage: the snapshots are of one market snapshot; fit: its data are valid and
\* synchronized and its spread is not extreme.
RegimeObservation ==
  [snapshot : Nat, lineage : BOOLEAN, fit : BOOLEAN, readings : [1..3 -> TimeframeReading]]

ASSUME RegimeAssumption ==
  /\ RegimeConfiguration /\ MaxAnalyses \in Nat
  /\ RegimeInputs \subseteq RegimeObservation /\ RegimeTimelines \subseteq Seq(RegimeInputs)

-----------------------------------------------------------------------------
Bounded(v) == Greatest(0, Least(100, v))

Absolute(v) == Greatest(v, -v)

\* _timeframe: the pieces of evidence, each with its value and twice its weight.
TrendEvidence(r) ==
  (IF r.direction \in {"BULLISH", "BEARISH"} THEN {<<"DIRECTIONAL_STRUCTURE", 90, 4>>} ELSE {})
  \cup (IF r.broke THEN {<<"CONFIRMED_BOS", 80, 3>>} ELSE {})
  \cup (IF r.adx # None THEN {<<"ADX_STRENGTH", r.adx, 2>>} ELSE {})
  \cup (IF r.displacement # None
        THEN {<<"DIRECTIONAL_DISPLACEMENT", (Absolute(r.displacement) * 35) \div 100, 2>>} ELSE {})

RangeEvidence(r) ==
  (IF r.direction = "SIDEWAYS" THEN {<<"SIDEWAYS_STRUCTURE", 90, 4>>} ELSE {})
  \cup (IF r.consolidation # None THEN {<<"CONSOLIDATION", r.consolidation, 4>>} ELSE {})
  \cup (IF r.adx # None THEN {<<"ADX_WEAKNESS", 100 - r.adx, 2>>} ELSE {})
  \cup (IF r.bandwidth # None /\ r.bandwidth < 5 THEN {<<"BANDWIDTH_COMPRESSION", 80, 2>>} ELSE {})

BreakoutEvidence(r) ==
  (IF r.broke THEN {<<"BOUNDARY_BREAK", 85, 4>>} ELSE {})
  \cup (IF r.flipped THEN {<<"ZONE_ROLE_FLIP", 70, 2>>} ELSE {})
  \cup (IF r.expansion # None THEN {<<"VOLATILITY_EXPANSION", r.expansion - 100, 4>>} ELSE {})
  \cup (IF r.displacement # None
        THEN {<<"EXPANSION_DISPLACEMENT", (Absolute(r.displacement) * 40) \div 100, 3>>} ELSE {})

TransitionEvidence(r) ==
  (IF r.direction = "MIXED" THEN {<<"MIXED_STRUCTURE", 70, 3>>} ELSE {})
  \cup (IF r.shifted THEN {<<"STRUCTURAL_SHIFT", 85, 4>>} ELSE {})
  \cup (IF r.expansion # None /\ r.expansion > 120
        THEN {<<"VOLATILITY_CHANGE", ((r.expansion - 100) * 80) \div 100, 2>>} ELSE {})

\* The mean of the evidence, each value within 0..100, by weight.
Normalized(evidence) ==
  LET weight == MapThenSumSet(LAMBDA e : e[3], evidence)
  IN IF evidence = {} THEN 0
     ELSE MapThenSumSet(LAMBDA e : Bounded(e[2]) * e[3], evidence) \div weight

\* The scores of a timeframe: a breakout needs evidence of three dimensions.
TimeframeScores(r) ==
  LET breakout == Normalized(BreakoutEvidence(r))
      proven   == r.broke /\ r.expansion # None /\ r.displacement # None
  IN [TREND |-> Normalized(TrendEvidence(r)), RANGE |-> Normalized(RangeEvidence(r)),
      BREAKOUT_EXPANSION |-> IF proven THEN breakout ELSE Least(breakout, Threshold["BREAKOUT_EXPANSION"] - 1),
      TRANSITION |-> Normalized(TransitionEvidence(r)), ABNORMAL |-> IF r.valid THEN 0 ELSE 80]

\* The confidence in a timeframe: of its best score, by the features it has.
TimeframeConfidence(r) ==
  LET present == Cardinality({f \in {"adx", "expansion", "displacement", "bandwidth"} : r[f] # None})
      best    == Max({TimeframeScores(r)[o] : o \in Ordinary})
  IN Bounded((best * (6 + present)) \div 10)

\* _composite: the scores by the weights of the timeframes, and what they propose.
CompositeScores(o) ==
  [c \in Ordinary \cup {"ABNORMAL"} |->
     Bounded(MapThenSumSet(LAMBDA i : Weights[i] * TimeframeScores(o.readings[i])[c], 1..3)
               \div MapThenSumSet(LAMBDA i : Weights[i], 1..3))]

\* The first of the best in the order the regimes are declared in.
Winner(scores) ==
  InDeclaredOrder[SelectInSeq(InDeclaredOrder, LAMBDA c : \A d \in Ordinary : scores[d] <= scores[c])]

\* The winner is proposed if its score, margin and confidence suffice.
Candidate(o, scores, winner) ==
  LET margin     == scores[winner] - Max({scores[d] : d \in Ordinary \ {winner}})
      certain    == MapThenSumSet(LAMBDA i : TimeframeConfidence(o.readings[i]), 1..3) \div 3
      confidence == Bounded((60 * scores[winner] + 25 * Least(100, 5 * margin) + 15 * certain) \div 100)
  IN IF ~o.fit \/ scores["ABNORMAL"] >= AbnormalThreshold THEN "ABNORMAL"
     ELSE IF scores[winner] >= Threshold[winner] /\ margin >= MinimumMargin
             /\ confidence >= MinimumRegimeConfidence
     THEN winner ELSE "UNKNOWN"

Proposal(o, scores, candidate) ==
  [scores |-> scores, candidate |-> candidate,
   winning |-> IF candidate = "ABNORMAL" THEN IF o.fit THEN scores["ABNORMAL"] ELSE 100
               ELSE IF candidate = "UNKNOWN" THEN 0 ELSE scores[candidate]]

Composite(o) ==
  LET scores == CompositeScores(o) IN Proposal(o, scores, Candidate(o, scores, Winner(scores)))

-----------------------------------------------------------------------------
FreshRegime ==
  [stable |-> "UNKNOWN", candidate |-> "UNKNOWN", count |-> 0, persistence |-> 0, cooldown |-> 0,
   unknown |-> 0, history |-> <<>>]

\* Mutant: another candidate is counted together with the one before.
CountingAll(r, candidate, winning) ==
  LET count == r.count + 1
  IN IF winning >= EntryScore /\ count >= Confirmations
     THEN [r EXCEPT !.stable = candidate, !.candidate = candidate, !.count = count, !.persistence = 1,
                    !.cooldown = RegimeCooldown, !.unknown = 0]
     ELSE [r EXCEPT !.candidate = candidate, !.count = count]

\* A candidate that is counted: another one starts from the beginning.
Counted(r, candidate, winning) ==
  LET count == IF candidate = r.candidate THEN r.count + 1 ELSE 1
  IN IF winning >= EntryScore /\ count >= Confirmations
     THEN [r EXCEPT !.stable = candidate, !.candidate = candidate, !.count = count, !.persistence = 1,
                    !.cooldown = RegimeCooldown, !.unknown = 0]
     ELSE [r EXCEPT !.candidate = candidate, !.count = count]

\* _publish: abnormal at once; another regime only after what holds the one that
\* is published, and then after its confirmations.
Publish(r, proposed) ==
  LET candidate == proposed.candidate
      u         == IF candidate = "UNKNOWN" THEN [r EXCEPT !.unknown = r.unknown + 1] ELSE r
  IN IF candidate = "ABNORMAL"
     THEN [r EXCEPT !.stable = candidate, !.candidate = candidate, !.count = 1, !.persistence = 1, !.cooldown = 0]
     ELSE IF candidate = r.stable
     THEN [r EXCEPT !.candidate = candidate, !.count = 0, !.persistence = r.persistence + 1,
                    !.cooldown = Greatest(0, r.cooldown - 1), !.unknown = 0]
     ELSE IF candidate = "UNKNOWN" /\ u.unknown <= UnknownGrace /\ r.stable # "UNKNOWN"
     THEN u
     ELSE IF \/ r.stable \in Ordinary /\ proposed.scores[r.stable] >= ExitScore
             \/ r.stable # "UNKNOWN" /\ r.persistence < MinimumPersistence
     THEN [u EXCEPT !.persistence = r.persistence + 1]
     ELSE IF r.cooldown > 0 THEN [u EXCEPT !.cooldown = r.cooldown - 1]
     ELSE Counted(u, candidate, proposed.winning)

\* analyze: the history has one entry for a market snapshot.
Recorded(r, snapshot) ==
  LET last  == Last(r.history)
      entry == [regime |-> r.stable, snapshot |-> snapshot,
                duration |-> IF r.history # <<>> /\ last.regime = r.stable THEN last.duration + 1 ELSE 1]
      h     == Append(r.history, entry)
  IN IF r.history # <<>> /\ last.snapshot = snapshot THEN r
     ELSE [r EXCEPT !.history = SubSeq(h, Greatest(1, Len(h) - MaxRegimeHistory + 1), Len(h))]

\* What each observation proposes.
Proposed == [o \in RegimeInputs |-> Composite(o)]

\* What is published is published for a reason, which analyzed keeps.
Analyzed(s, o, proposed) ==
  LET published == Publish(s.regime, proposed)
  IN [regime   |-> Recorded(published, o.snapshot),
      analyzed |-> Append(s.analyzed, [candidate |-> proposed.candidate, winning |-> proposed.winning,
                                       from |-> s.regime.stable, to |-> published.stable])]

Analysis(s, o) == Analyzed(s, o, Proposed[o])

Become(s) == regime' = s.regime /\ analyzed' = s.analyzed

AnalyzeRegime(o) ==
  /\ o.lineage /\ Len(analyzed) < MaxAnalyses
  /\ Become(Analysis([regime |-> regime, analyzed |-> analyzed], o))

\* rebuild: from the beginning, over a timeline that the caller supplies, of which
\* observations without their lineage are left out.
Rebuild(timeline) ==
  LET after[n \in 0..Len(timeline)] ==
        IF n = 0 THEN [regime |-> FreshRegime, analyzed |-> <<>>]
        ELSE IF timeline[n].lineage THEN Analysis(after[n - 1], timeline[n])
        ELSE after[n - 1]
  IN Become(after[Len(timeline)])

RegimeInit == regime = FreshRegime /\ analyzed = <<>>

RegimeNext ==
  \/ \E o \in RegimeInputs : AnalyzeRegime(o)
  \/ \E timeline \in RegimeTimelines : Rebuild(timeline)

RegimeSpec == RegimeInit /\ [][RegimeNext]_regimeVars

-----------------------------------------------------------------------------
\* A regime is published because of what was observed: an abnormal one at once,
\* any other after it has been proposed as often as must be confirmed, with a
\* winning score at the end, since the regime that was published, or an abnormal
\* one, was last proposed; and no sooner than the regime it replaces, unless that
\* is unknown, has been published for its minimum.  Other proposals may come in
\* between.
RegimeConfirmed ==
  \A k \in DOMAIN analyzed :
    LET a     == analyzed[k]
        again == {j \in 1..(k - 1) : analyzed[j].candidate \in {a.from, "ABNORMAL"}}
        since == IF again = {} THEN 0 ELSE Max(again)
        proposed == {j \in (since + 1)..k : analyzed[j].candidate = a.to}
        entered  == {j \in 1..(k - 1) : analyzed[j].to = a.from /\ analyzed[j].from # a.from}
    IN /\ a.candidate = "ABNORMAL" => a.to = "ABNORMAL"
       /\ a.to # a.from /\ a.to # "ABNORMAL" =>
            /\ a.candidate = a.to /\ a.winning >= EntryScore
            /\ Cardinality(proposed) >= Confirmations
            /\ a.from # "UNKNOWN" /\ entered # {} => k - Max(entered) >= MinimumPersistence
=============================================================================
