----------------------------- MODULE Framework -----------------------------
(***************************************************************************)
(* MarketIntelligenceAssembler of src/src/amrte/market/intelligence.py and *)
(* StrategyOrchestrator of src/src/amrte/strategies/framework.py: what the *)
(* engines of Phase II say becomes one snapshot, on which a strategy is    *)
(* evaluated, step after step, until a step says no; the result is cached, *)
(* and a signal that passes the gates is remembered in the state of its    *)
(* strategy and instrument.  What a strategy says of a snapshot is a       *)
(* constant.                                                               *)
(***************************************************************************)
EXTENDS Evidence, SequencesExt, Store

CONSTANTS
  Strategies,             \* the registry: strategy ids
  Intelligence,           \* what is assembled, see IntelligenceSnapshot
  Verdict,                \* [strategies -> [snapshot ids -> StrategyVerdict]]
  AllowedInstruments,
  GateStatuses,           \* what the gates may say: functions from GateType to GateStatus
  Reasons,                \* the evaluation reasons
  CandidateTtl, MaxEvaluationCache,
  MaxReferences,          \* maximum_history
  MaxClock,               \* bound: the time of the orchestrator
  MaxMadeEvaluations      \* bound: the evaluations that are made

VARIABLES
  framework,              \* the orchestrator
  clock,
  candidates,             \* the versions of candidates that callers hold
  evaluations             \* history: the evaluations that were made, in order

frameworkVars == <<framework, clock, candidates, evaluations>>

GateType == {"RISK", "PORTFOLIO", "PROTECTION", "EXECUTION"}
GateStatus == {"APPROVED", "CONDITIONAL", "REJECTED", "BLOCKED", "UNAVAILABLE", "UNKNOWN"}
ApplicabilityState == {"APPLICABLE", "CONDITIONAL", "NOT_APPLICABLE", "BLOCKED", "UNKNOWN"}
DetectionState == {"DETECTED", "NOT_DETECTED", "INCOMPLETE", "BLOCKED", "UNKNOWN"}
QualificationState == {"QUALIFIED", "CONDITIONALLY_QUALIFIED", "REJECTED", "BLOCKED", "INCOMPLETE", "UNKNOWN"}
ScoreHealth == {"VALID", "HEALTHY", "DEGRADED", "INCOMPLETE", "UNAVAILABLE", "INVALID", "UNKNOWN"}

\* The health of each component, and where they come from: data, instrument, time,
\* configuration and epoch as one number.  ordinary: the regime is neither abnormal
\* nor unknown; allowed: neither the session nor the news restrict.
IntelligenceSnapshot ==
  [id : STRING, instrument : STRING, at : Time, lineage : SUBSET Nat, data : STRING, structure : STRING,
   features : STRING, regime : STRING, session : STRING, news : STRING, ordinary : BOOLEAN, allowed : BOOLEAN]

\* capable: the snapshot has what the strategy requires; fails: it raises an error
\* while it detects.
StrategyVerdict ==
  [capable : BOOLEAN, applies : ApplicabilityState, detects : DetectionState,
   qualifies : QualificationState, score : ScoreHealth, fails : BOOLEAN]

\* validate, of what is modelled.
StrategyFrameworkConfiguration ==
  AllowedInstruments # {} /\ {CandidateTtl, MaxEvaluationCache, MaxReferences} \subseteq Nat \ {0}

ASSUME FrameworkAssumption ==
  /\ StrategyFrameworkConfiguration
  /\ \A s \in Strategies, i \in Intelligence : i \in IntelligenceSnapshot /\ Verdict[s][i.id] \in StrategyVerdict
  /\ \A g \in GateStatuses : DOMAIN g \subseteq GateType /\ \A t \in DOMAIN g : g[t] \in GateStatus
  /\ MaxMadeEvaluations \in Nat /\ MaxClock \in Time

-----------------------------------------------------------------------------
\* validate_lineage: components that do not come from the same are not assembled.
ValidLineage(i) == Cardinality(i.lineage) = 1

Critical(i) ==
  \/ i.data \in {"INVALID", "UNAVAILABLE", "STALE"}
  \/ i.structure \in {"INVALID_INPUT", "INSUFFICIENT_HISTORY"}
  \/ i.features \in {"INVALID_INPUT", "INSUFFICIENT_HISTORY", "STALE", "UNAVAILABLE"}

Missing(i) ==
  i.news \in {"UNAVAILABLE", "INVALID"} \/ i.session \in {"UNAVAILABLE", "INVALID_CONFIGURATION"}

Limited(i) == {i.regime, i.session, i.news} # {"HEALTHY"} \/ ~i.allowed

Degraded(i) ==
  {"DEGRADED", "VALID_WITH_WARNINGS"} \cap {i.data, i.structure, i.features, i.regime, i.session, i.news} # {}

\* assemble: a regime out of the ordinary takes the availability, and only a healthy
\* snapshot its health.
IntelligenceHealth(i) ==
  CASE Critical(i) -> "UNTRUSTED"
    [] Missing(i) -> "UNAVAILABLE"
    [] Limited(i) -> "RESTRICTED"
    [] Degraded(i) -> "DEGRADED"
    [] ~i.ordinary -> "RESTRICTED"
    [] OTHER -> "HEALTHY"

IntelligenceAvailability(i) ==
  CASE Critical(i) \/ Missing(i) \/ ~i.ordinary -> "NOT_AVAILABLE"
    [] Limited(i) \/ Degraded(i) -> "AVAILABLE_WITH_RESTRICTIONS"
    [] OTHER -> "AVAILABLE"

\* _phase2_applicability, then what the strategy itself says.
Applicability(s, i) ==
  CASE i.instrument \notin AllowedInstruments -> "NOT_APPLICABLE"
    [] i.at > clock -> "BLOCKED"
    [] \/ IntelligenceAvailability(i) \in {"NOT_AVAILABLE", "UNKNOWN"}
       \/ IntelligenceHealth(i) \in {"UNTRUSTED", "UNAVAILABLE", "UNKNOWN"} -> "BLOCKED"
    [] ~Verdict[s][i.id].capable -> "BLOCKED"
    [] IntelligenceAvailability(i) = "AVAILABLE_WITH_RESTRICTIONS" -> "CONDITIONAL"
    [] OTHER -> Verdict[s][i.id].applies

\* The steps in their order: the first that says no decides.
Refusal(s, i, gates) ==
  LET v == Verdict[s][i.id]
  IN CASE Applicability(s, i) \notin {"APPLICABLE", "CONDITIONAL"} -> "NOT_APPLICABLE"
       [] v.fails -> "ERROR"
       [] v.detects = "NOT_DETECTED" -> "NOT_DETECTED"
       [] v.detects # "DETECTED" -> "NOT_DETECTABLE"
       [] v.qualifies \notin {"QUALIFIED", "CONDITIONALLY_QUALIFIED"} -> "NOT_QUALIFIED"
       [] v.score \notin {"VALID", "HEALTHY", "DEGRADED"} -> "SCORE_NOT_VALID"
       [] \E t \in DOMAIN gates : gates[t] \in {"REJECTED", "BLOCKED"} -> "GATE_BLOCKED"
       [] OTHER -> None

\* What each refusal results in.
Outcome == [NOT_APPLICABLE |-> "BLOCKED", ERROR |-> "ERROR", NOT_DETECTED |-> "NO_ACTION",
            NOT_DETECTABLE |-> "BLOCKED", NOT_QUALIFIED |-> "NO_ACTION", SCORE_NOT_VALID |-> "BLOCKED",
            GATE_BLOCKED |-> "BLOCKED"]

FinalAction == [Outcome EXCEPT !.ERROR = "NO_ACTION", !.SCORE_NOT_VALID = "NO_ACTION"]

\* The cache key; a gate that is not available lets a signal pass for research.
EvaluationOf(s, i, reason, gates) ==
  LET refusal == Refusal(s, i, gates)
      silent  == \E t \in DOMAIN gates : gates[t] \in {"UNAVAILABLE", "UNKNOWN"}
  IN [id |-> [strategy |-> s, snapshot |-> i.id, reason |-> reason],
      instrument |-> i.instrument, refusal |-> refusal,
      outcome |-> IF refusal = None THEN "COMPLETED" ELSE Outcome[refusal],
      action |-> IF refusal = None THEN "RESEARCH_SIGNAL" ELSE FinalAction[refusal],
      readiness |-> CASE refusal = "GATE_BLOCKED" \/ (refusal = None /\ silent) -> "READY_WITH_RESTRICTIONS"
                      [] refusal \in {"NOT_APPLICABLE", "ERROR", "SCORE_NOT_VALID"} -> "NOT_READY"
                      [] OTHER -> "READY"]

IsSignal(e) == e.action = "RESEARCH_SIGNAL"

NoState(key) == [id |-> key, snapshot |-> None, logical |-> None, references |-> <<>>]

\* [-maximum_history:]
LatestOf(s) == SubSeq(s, Greatest(1, Len(s) - MaxReferences + 1), Len(s))

\* Mutant: an evaluation that is no signal forgets the ones before.
RememberedAfresh(state, e) ==
  [state EXCEPT !.snapshot = e.id.snapshot,
                !.logical = IF IsSignal(e) THEN <<e.id.strategy, e.id.snapshot>> ELSE None,
                !.references = IF IsSignal(e) THEN LatestOf(Append(state.references, e.id)) ELSE <<>>]

Remembered(state, e) ==
  [id         |-> state.id,
   snapshot   |-> e.id.snapshot,
   logical    |-> IF IsSignal(e) THEN <<e.id.strategy, e.id.snapshot>> ELSE None,
   references |-> IF IsSignal(e) THEN LatestOf(Append(state.references, e.id)) ELSE state.references]

StateKey(e) == <<e.id.strategy, e.instrument>>

\* _finish: cache, history and state.
Finished(f, e) ==
  LET key   == StateKey(e)
      state == IF Held(f.states, key) THEN Entry(f.states, key) ELSE NoState(key)
  IN [cache   |-> Evicted(Append(f.cache, e), MaxEvaluationCache),
      history |-> LatestOf(Append(f.history, e)),
      states  |-> Put(f.states, Remembered(state, e))]

\* evaluate: a result in the cache is given again, whatever the clock and the
\* gates say by now.
EvaluateStrategy(s, i, reason, gates) ==
  LET e    == EvaluationOf(s, i, reason, gates)
      held == Held(framework.cache, e.id)
  IN \/ /\ held
        /\ framework' = [framework EXCEPT
                           !.cache = Append(Without(framework.cache, e.id), Entry(framework.cache, e.id))]
        /\ UNCHANGED <<candidates, clock, evaluations>>
     \/ /\ ~held /\ Len(evaluations) < MaxMadeEvaluations
        /\ framework' = Finished(framework, e)
        /\ evaluations' = Append(evaluations, e)
        /\ candidates' =
             IF e.refusal \notin {None, "GATE_BLOCKED"} THEN candidates
             ELSE candidates \cup
                    {[evaluation |-> e.id, expires |-> i.at + CandidateTtl,
                      status |-> IF e.refusal = "GATE_BLOCKED" THEN "BLOCKED" ELSE Verdict[s][i.id].qualifies]}
        /\ UNCHANGED clock

\* transition_candidate: another version of a candidate that qualified; the
\* version the caller had stays as it is.
TransitionCandidate(c, target) ==
  /\ c.status \in {"QUALIFIED", "CONDITIONALLY_QUALIFIED"}
  /\ target = "EXPIRED" => clock >= c.expires
  /\ candidates' = candidates \cup {[c EXCEPT !.status = target]}
  /\ UNCHANGED <<framework, clock, evaluations>>

TickFramework == clock < MaxClock /\ clock' = clock + 1 /\ UNCHANGED <<framework, candidates, evaluations>>

FrameworkInit ==
  /\ framework = [cache |-> <<>>, history |-> <<>>, states |-> <<>>]
  /\ clock = 0 /\ candidates = {} /\ evaluations = <<>>

FrameworkNext ==
  \/ \E s \in Strategies, i \in {j \in Intelligence : ValidLineage(j)}, reason \in Reasons, gates \in GateStatuses :
        EvaluateStrategy(s, i, reason, gates)
  \/ \E c \in candidates, target \in {"EXPIRED", "INVALIDATED"} : TransitionCandidate(c, target)
  \/ TickFramework

FrameworkSpec == FrameworkInit /\ [][FrameworkNext]_frameworkVars

-----------------------------------------------------------------------------
\* Of the evaluations made, in their order, the places of those of a strategy on an
\* instrument, of those of them that are signals, and of those with an identity.
OwnEvaluations(made, key) == {n \in DOMAIN made : StateKey(made[n]) = key}
OwnSignals(made, key) == {n \in OwnEvaluations(made, key) : IsSignal(made[n])}
MadeFor(made, id) == {n \in DOMAIN made : made[n].id = id}

\* The references are to the last signals, each in its place from the end.
RefersToLast(references, made, signals) ==
  /\ Len(references) = Least(MaxReferences, Cardinality(signals))
  /\ \A n \in signals :
       LET later == Cardinality({m \in signals : m > n})
       IN later < MaxReferences => references[Len(references) - later] = made[n].id

RemembersItsOwn(state, made) ==
  LET own == OwnEvaluations(made, state.id)
  IN /\ own # {} /\ state.snapshot = made[Max(own)].id.snapshot
     /\ RefersToLast(state.references, made, OwnSignals(made, state.id))

LastMade(e, made) == MadeFor(made, e.id) # {} /\ made[Max(MadeFor(made, e.id))] = e

\* Docs/STRATEGY_FRAMEWORK.md, "Strategy state is isolated by strategy and
\* instrument and stores only bounded strategy-derived references": through
\* evictions and repeated calls, there is a state of every strategy evaluated on an
\* instrument, which remembers its last signals in the order they were made, and
\* the snapshot evaluated last; what is cached is what was last made for its key.
StatesIsolated ==
  /\ \A k \in DOMAIN framework.states : RemembersItsOwn(framework.states[k], evaluations)
  /\ \A n \in DOMAIN evaluations : Held(framework.states, StateKey(evaluations[n]))
  /\ \A k \in DOMAIN framework.cache : LastMade(framework.cache[k], evaluations)
=============================================================================
