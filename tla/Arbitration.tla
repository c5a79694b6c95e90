---------------------------- MODULE Arbitration -----------------------------
(***************************************************************************)
(* StrategyArbitrationEngine of src/src/amrte/strategies/                  *)
(* strategy_arbitration.py: the evaluations of the strategies become       *)
(* opinions, every pair of them is assessed, and a policy prefers one,     *)
(* lets compatible ones coexist, or abstains.                              *)
(***************************************************************************)
EXTENDS Evidence, FiniteSetsExt, Store

CONSTANTS
  Intelligences,          \* market intelligence, see MarketIntelligence
  Evaluations,            \* what strategies may say of them, see StrategyEvaluation
  MaxOpinions,            \* bound: strategies that are evaluated together
  ArbitrationPolicy,      \* policy: REJECT_, CONFIDENCE_, QUALITY_ or HYBRID
  CombineAll,             \* combination_mode is ALLOW_SAME_DIRECTION_COMPATIBLE
  AllowedPairs,           \* allowed_pairs of strategies, as sets
  StrategyPriority,       \* strategy_priority
  NativePriority,         \* regime_native_priority
  AllowDegraded, RejectExpired,
  MinimumCompleteness, MaximumUncertainty, MinimumConfidence, MinimumQuality,
  ConfidenceDifference, QualityDifference,
  MaxArbitrationCache     \* maximum_cache_entries

VARIABLES
  arbitrations,           \* the cache of results, by group
  decided                 \* the latest result and what it was asked for

arbitrationVars == <<arbitrations, decided>>

MarketIntelligence == [id : STRING, at : Time, epoch : Nat, available : BOOLEAN, regime : STRING]

\* An evaluation with its candidate and score; lineage says whether it has both
\* and they are about the intelligence's instrument.
StrategyEvaluation ==
  [id : STRING, strategy : STRING, family : STRING, native : SUBSET STRING, direction : STRING,
   candidate : STRING, about : STRING, at : Time, expires : Time, epoch : Nat,
   lineage : BOOLEAN, qualified : BOOLEAN, health : {"HEALTHY", "DEGRADED", "INVALID"},
   completeness : Percent, uncertainty : Percent, quality : Percent, confidence : Percent]

ArbitrationConfiguration ==
  /\ {MinimumCompleteness, MaximumUncertainty, MinimumConfidence, MinimumQuality,
      ConfidenceDifference, QualityDifference} \subseteq Percent
  /\ ArbitrationPolicy \in {"REJECT", "CONFIDENCE", "QUALITY", "HYBRID"}
  /\ {CombineAll, NativePriority, AllowDegraded, RejectExpired} \subseteq BOOLEAN
  /\ \A p \in AllowedPairs : Cardinality(p) = 2
  /\ \A i, j \in DOMAIN StrategyPriority : StrategyPriority[i] = StrategyPriority[j] => i = j
  /\ MaxArbitrationCache \in Nat \ {0}

ASSUME ArbitrationAssumption ==
  /\ ArbitrationConfiguration /\ MaxOpinions \in Nat
  /\ \A i \in Intelligences : i \in MarketIntelligence
  /\ \A e \in Evaluations : e \in StrategyEvaluation

\* _opinion: the evaluations that become opinions.
Accepted(e, i) ==
  /\ e.lineage /\ e.about = i.id
  /\ e.at <= i.at /\ e.epoch = i.epoch
  /\ e.qualified
  /\ e.health = "HEALTHY" \/ (e.health = "DEGRADED" /\ AllowDegraded)
  /\ RejectExpired => e.expires >= i.at
  /\ e.completeness >= MinimumCompleteness /\ e.uncertainty <= MaximumUncertainty
  /\ e.confidence >= MinimumConfidence /\ e.quality >= MinimumQuality

\* _assess, what matters of it: the compatibility of two opinions.
Compatibility(a, b) ==
  IF a.candidate = b.candidate THEN "DUPLICATE"
  ELSE IF {a.direction, b.direction} = {"BULLISH", "BEARISH"} THEN "MUTUALLY_EXCLUSIVE"
  ELSE IF {a.family, b.family} = {"BREAKOUT", "MEAN_REVERSION"} THEN "CONFLICTING"
  ELSE IF a.direction = b.direction THEN "CONDITIONALLY_COMPATIBLE"
  ELSE "INCOMPARABLE"

AllPairs(opinions) == {p \in SUBSET opinions : Cardinality(p) = 2}

Compatible(p) ==
  \A a, b \in p : a # b => Compatibility(a, b) = "CONDITIONALLY_COMPATIBLE"

\* Mutant: an opinion needs to agree with one of the others only.
CoexistBesideOne(opinions) ==
  /\ \A a \in opinions : \E p \in AllPairs(opinions) : a \in p /\ Compatible(p)
  /\ CombineAll \/ \A p \in AllPairs(opinions) : {o.strategy : o \in p} \in AllowedPairs

\* _resolve: the opinions may coexist.
Coexist(opinions) ==
  /\ \A p \in AllPairs(opinions) : Compatible(p)
  /\ CombineAll \/ \A p \in AllPairs(opinions) : {o.strategy : o \in p} \in AllowedPairs

\* _preferred: a before b in the order of completeness, certainty, quality and
\* confidence; the rest of the order is by identity.
Before(a, b) ==
  LET key(o) == <<o.completeness, 100 - o.uncertainty, o.quality, o.confidence>>
      first  == {k \in 1..4 : key(a)[k] # key(b)[k]}
  IN first # {} => key(a)[Min(first)] > key(b)[Min(first)]

\* By its nativeness, by separation from the next in that order, or by priority.
Preferred(opinions, regime) ==
  LET native == {o \in opinions : regime \in o.native}
      ranked == {p \in opinions \X opinions :
                   /\ p[1] # p[2] /\ Before(p[1], p[2])
                   /\ \A o \in opinions \ {p[1], p[2]} : Before(p[1], o) /\ Before(p[2], o)}
      separated(a, b) ==
        \/ ArbitrationPolicy \in {"CONFIDENCE", "HYBRID"}
             /\ a.confidence - b.confidence >= ConfidenceDifference
        \/ ArbitrationPolicy \in {"QUALITY", "HYBRID"}
             /\ a.quality - b.quality >= QualityDifference
      winner == {p[1] : p \in {p \in ranked : separated(p[1], p[2])}}
      favoured == {k \in DOMAIN StrategyPriority :
                     \E o \in opinions : o.strategy = StrategyPriority[k]}
  IN IF NativePriority /\ Cardinality(native) = 1 /\ regime \notin {"UNKNOWN", "ABNORMAL"}
     THEN native
     ELSE IF winner # {} THEN winner
     ELSE IF favoured # {}
     THEN {o \in opinions : o.strategy = StrategyPriority[Min(favoured)]}
     ELSE {}

\* The outcome, and the opinions that are permitted.
Resolved(opinions, regime) ==
  LET preferred == Preferred(opinions, regime)
  IN IF opinions = {} THEN [outcome |-> "ALL_REJECTED", permitted |-> {}]
     ELSE IF Cardinality(opinions) = 1 THEN [outcome |-> "SINGLE_PREFERRED", permitted |-> opinions]
     ELSE IF Coexist(opinions) THEN [outcome |-> "MULTIPLE_COMPATIBLE", permitted |-> opinions]
     ELSE IF preferred # {} /\ ArbitrationPolicy # "REJECT"
     THEN [outcome |-> "SINGLE_PREFERRED", permitted |-> {CHOOSE o \in preferred : TRUE}]
     ELSE [outcome |-> "NO_ACTION", permitted |-> {}]

\* arbitrate: the result of a group of opinions is cached whatever was rejected
\* beside them; intelligence that is not available blocks.
Arbitrate(i, evaluations) ==
  LET opinions == {e \in evaluations : Accepted(e, i)}
      group    == <<i.id, opinions>>
      fresh    == [id |-> group, resolved |-> Resolved(opinions, i.regime),
                   health |-> IF opinions = {} THEN "UNAVAILABLE"
                              ELSE IF opinions # evaluations THEN "DEGRADED" ELSE "HEALTHY"]
      result   == IF Held(arbitrations, group) THEN Entry(arbitrations, group) ELSE fresh
  IN IF i.available
     THEN /\ arbitrations' = Evicted(Append(Without(arbitrations, group), result),
                                   MaxArbitrationCache)
          /\ decided' = [intelligence |-> i, evaluations |-> evaluations,
                         resolved |-> result.resolved, health |-> result.health]
     ELSE /\ decided' = [intelligence |-> i, evaluations |-> evaluations, health |-> "UNAVAILABLE",
                         resolved |-> [outcome |-> "BLOCKED", permitted |-> {}]]
          /\ UNCHANGED arbitrations

\* What may be recovered is the identity of the last results: nothing of them.
RestartArbitration == arbitrations' = <<>> /\ UNCHANGED decided

ArbitrationInit == arbitrations = <<>> /\ decided = None

\* Each strategy is evaluated once for an intelligence.
Evaluated == {s \in SUBSET Evaluations : /\ IsFiniteSet(s) /\ Cardinality(s) <= MaxOpinions
                                          /\ \A e, f \in s : e.strategy = f.strategy => e = f}

ArbitrationNext ==
  \/ \E i \in Intelligences, s \in Evaluated : Arbitrate(i, s)
  \/ arbitrations # <<>> /\ RestartArbitration

ArbitrationSpec == ArbitrationInit /\ [][ArbitrationNext]_arbitrationVars

-----------------------------------------------------------------------------
\* What is permitted never contradicts itself: it holds no two opposite
\* directions, no hypothesis twice, and no breakout beside a return to the mean.
\* Each of it was accepted for the intelligence that was asked about, also when
\* the result was decided earlier, and together they are permitted only if
\* every two of them may be combined.
PermittedTogether ==
  decided # None =>
    LET allowed == decided.resolved.permitted
    IN /\ \A a, b \in allowed : a # b =>
            /\ {a.direction, b.direction} # {"BULLISH", "BEARISH"}
            /\ a.candidate # b.candidate
            /\ {a.family, b.family} # {"BREAKOUT", "MEAN_REVERSION"}
            /\ CombineAll \/ {a.strategy, b.strategy} \in AllowedPairs
       /\ \A a \in allowed : a \in decided.evaluations /\ Accepted(a, decided.intelligence)
       /\ allowed # {} => decided.resolved.outcome \in {"SINGLE_PREFERRED", "MULTIPLE_COMPATIBLE"}
=============================================================================
