------------------------- MODULE ThesisInvalidation -------------------------
(***************************************************************************)
(* ThesisInvalidationEngine of src/src/amrte/risk/invalidation.py: the     *)
(* distance at which the thesis of a strategy decision is invalid, and     *)
(* what becomes of it.  Distances are whole numbers, measured from the     *)
(* reference point in the adverse direction of the candidate; profiles,    *)
(* friction and allowance are given by what they add.                      *)
(***************************************************************************)
EXTENDS Evidence, FiniteSetsExt, Store

CONSTANTS
  Snapshots,              \* strategy decisions, see StrategyDecisionSnapshot
  Structures, Atrs,       \* evidence callers pass, see DistanceEvidence
  Additions,              \* friction and volatility allowance callers pass
  Method, Fallbacks,      \* method and fallback methods of the profile
  AddVolatility,          \* hybrid_policy is STRUCTURE_PLUS_VOLATILITY_BUFFER
  Widen,                  \* below_minimum_policy is WIDEN_TO_MINIMUM_IF_THESIS_VALID
  MinimumDistance, MaximumDistance,
  MaxTheses,              \* maximum_ledger_entries
  MaxThesisCache          \* maximum_cache_entries

VARIABLE theses           \* InvalidationLedger and the engine's cache

Methods == {"STRUCTURE", "ATR_NORMALIZED", "HYBRID"}

\* A strategy decision, and whether it permits research.
StrategyDecisionSnapshot == [id : STRING, at : Time, available : BOOLEAN, restricted : BOOLEAN]

\* StructuralInvalidationEvidence and ATRInvalidationEvidence: lineage is whether
\* it is about the snapshot.
DistanceEvidence == [id : STRING, raw : Int, at : Time, healthy : BOOLEAN, lineage : BOOLEAN]

\* The configuration, and the profile of the strategy.
InvalidationConfiguration ==
  /\ Method \in Methods /\ Fallbacks \subseteq Methods
  /\ {AddVolatility, Widen} \subseteq BOOLEAN
  /\ {MinimumDistance, MaximumDistance} \subseteq Nat \ {0} /\ MinimumDistance <= MaximumDistance
  /\ {MaxTheses, MaxThesisCache} \subseteq Nat \ {0}

ASSUME ThesisAssumption ==
  /\ InvalidationConfiguration
  /\ Snapshots \subseteq StrategyDecisionSnapshot
  /\ Structures \cup Atrs \subseteq DistanceEvidence /\ Additions \subseteq Nat

InvalidationLifecycle == {"ACTIVE", "INVALIDATED", "EXPIRED", "SUPERSEDED", "BLOCKED"}

FreshTheses == [decisions |-> <<>>, events |-> <<>>, states |-> <<>>, cache |-> <<>>]

Usable(e, s) == e # None /\ e.at <= s.at /\ e.lineage /\ e.healthy

\* The candidates, as method and raw distance; evidence of another lineage blocks.
ThesisCandidates(s, structure, atr) ==
  LET one(method, e) == IF Usable(e, s) THEN {[method |-> method, raw |-> e.raw]} ELSE {}
      hybrid == IF Method = "HYBRID" /\ Usable(structure, s) /\ Usable(atr, s)
                THEN {[method |-> "HYBRID",
                       raw |-> IF AddVolatility THEN structure.raw + atr.raw
                               ELSE Greatest(structure.raw, atr.raw)]}
                ELSE {}
  IN one("STRUCTURE", structure) \cup one("ATR_NORMALIZED", atr) \cup hybrid

\* _eligible_candidates and _select: the greatest distance.
Eligible(candidates) ==
  LET valid == {c \in candidates : c.raw > 0}
      primary == {c \in valid : c.method = Method}
  IN IF primary # {} THEN primary ELSE {c \in valid : c.method \in Fallbacks}

\* The distance of the decision, or None when the decision is blocked.
Distance(s, structure, atr, added) ==
  LET eligible == Eligible(ThesisCandidates(s, structure, atr))
      wide     == Max({c.raw : c \in eligible}) + added
      distance == IF wide < MinimumDistance /\ Widen THEN MinimumDistance ELSE wide
      foreign(e) == e # None /\ e.at <= s.at /\ ~e.lineage
  IN IF \/ ~s.available \/ foreign(structure) \/ foreign(atr) \/ eligible = {} THEN None
     ELSE IF distance < MinimumDistance \/ distance > MaximumDistance THEN None
     ELSE distance

\* InvalidationLedger._bound; states are never dropped.
ThesisBound(l) ==
  LET excess == Greatest(0, Len(l.decisions) + Len(l.events) - MaxTheses)
      events == Least(excess, Len(l.events))
  IN [decisions |-> SubSeq(l.decisions, excess - events + 1, Len(l.decisions)),
      events |-> SubSeq(l.events, events + 1, Len(l.events)),
      states |-> l.states, cache |-> Evicted(l.cache, MaxThesisCache)]

\* evaluate, when the cache has nothing: the identity is that of the content, and
\* a decision made before is active again.
EvaluateThesis(s, structure, atr, added) ==
  LET key == <<s.id, structure, atr, added>>
      distance == Distance(s, structure, atr, added)
      d == [id |-> <<s.id, distance>>, snapshot |-> s.id, distance |-> distance,
            status |-> IF distance = None THEN "BLOCKED" ELSE "ACTIVE"]
  IN /\ ~Held(theses.cache, key)
     /\ theses' = ThesisBound(
          [theses EXCEPT !.decisions = Put(theses.decisions, d), !.states = Put(theses.states, d),
                         !.cache = Append(theses.cache, [id |-> key, decision |-> d])])

\* A cached decision is the most recently used.
EvaluateThesisAgain(key) ==
  /\ Held(theses.cache, key)
  /\ theses' = [theses EXCEPT !.cache =
                  Append(Without(theses.cache, key), Entry(theses.cache, key))]

\* observe, of a value beyond the boundary: only the decision that is passed,
\* not its state in the ledger, says whether it is active.
ObserveThesis(d, at) ==
  LET e == [id |-> <<d.id, at>>, decision |-> d.id]
  IN /\ d.status = "ACTIVE"
     /\ theses' = ThesisBound(
          [theses EXCEPT !.events = PutNew(theses.events, e),
                         !.states = Put(theses.states, [d EXCEPT !.status = "INVALIDATED"])])

\* expire and supersede
ExpireThesis(d) ==
  LET held == theses.states
  IN theses' = [theses EXCEPT !.states =
                  IF Held(held, d.id) /\ Entry(held, d.id).status = "INVALIDATED" THEN held
                  ELSE Put(held, [d EXCEPT !.status = "EXPIRED"])]

SupersedeThesis(d) ==
  theses' = [theses EXCEPT !.states = Put(theses.states, [d EXCEPT !.status = "SUPERSEDED"])]

\* recovery_state and restore in a new engine: decisions and cache are gone.
RestartTheses == theses' = [theses EXCEPT !.decisions = <<>>, !.cache = <<>>]

\* The decisions callers hold: those evaluated since the engine was made.
HeldDecisions ==
  {theses.decisions[i] : i \in DOMAIN theses.decisions}
  \cup {theses.cache[i].decision : i \in DOMAIN theses.cache}
=============================================================================
