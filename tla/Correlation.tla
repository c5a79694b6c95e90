---------------------------- MODULE Correlation -----------------------------
(***************************************************************************)
(* CorrelationDependencyEngine of src/src/amrte/portfolio/correlation.py:  *)
(* the return series of pairs of instruments are aligned and correlated,   *)
(* instruments that reinforce each other form clusters whose published     *)
(* state is confirmed, retained and cooled down, and what the portfolio    *)
(* approved is reduced to what the candidate's cluster still has.          *)
(*                                                                         *)
(* The composition is the default (most restrictive); dependencies are     *)
(* compared with thresholds in percent.  Matrices, factor exposures and    *)
(* multi-window snapshots are for reports: nothing here reads them.        *)
(***************************************************************************)
EXTENDS Evidence, FiniteSetsExt

CONSTANTS
  Books,                   \* records callers pass, by name: see PortfolioExposureRecord
  SeriesBooks,             \* series callers pass, by name: see ReturnObservation
  Admissions,              \* admissions callers pass, see PortfolioRiskDecision
  CorrelationWindows,      \* windows: observation_count and required; {} is the default
  Lookback, MinimumObservations,
  CorrelationStaleAfter,   \* stale_after_seconds
  StrictAlignment,         \* missing_data_policy is not PAIRWISE_COMPLETE
  EntryThreshold, ExitThreshold,
  EntryCount, ExitCount,   \* entry_ and exit_confirmation_count
  ReleaseCooldown,         \* cluster_release_cooldown_seconds
  MaximumClusterExposure, MaximumClusterMembers,
  MinimumValidWindows,
  MissingWindowBlocks,     \* missing_window_policy is BLOCK
  UnknownBlocks,           \* unknown_is_blocking
  MaxSeen                  \* bound: observations of a set of members that count

VARIABLES
  correlation,             \* cluster_states, by members, and recovery_restricted
  assessed,                \* the decision of assess since the latest snapshot, or None
  sightings                \* history: what was observed of every set of members

correlationVars == <<correlation, assessed, sightings>>

\* An exposure of an instrument, with what remains of it; +1 is bullish and -1 bearish.
PortfolioExposureRecord == [instrument : Nat, direction : {0 - 1, 1}, exposure : Nat, updated : Time]

\* What the portfolio approved for a candidate.
PortfolioRiskDecision == [instrument : Nat, direction : {0 - 1, 1}, approved : Nat, at : Time]

\* The observations of an instrument, at most one for a time.
ReturnObservation == [at : Time, available : Time, value : Int]

CorrelationConfiguration ==
  /\ \A w \in CorrelationWindows : w.count \in Nat /\ w.count > 1 /\ w.required \in BOOLEAN
  /\ 2 <= MinimumObservations /\ MinimumObservations <= Lookback
  /\ 0 <= ExitThreshold /\ ExitThreshold < EntryThreshold /\ EntryThreshold <= 100
  /\ {EntryCount, ExitCount, MaximumClusterMembers} \subseteq Nat \ {0}
  /\ {CorrelationStaleAfter, ReleaseCooldown, MaximumClusterExposure} \subseteq Nat
  /\ {StrictAlignment, MissingWindowBlocks, UnknownBlocks} \subseteq BOOLEAN
  /\ MinimumValidWindows <= Greatest(1, Cardinality(CorrelationWindows))

ASSUME CorrelationAssumption ==
  /\ CorrelationConfiguration
  /\ \A b \in DOMAIN Books : /\ Books[b] \subseteq PortfolioExposureRecord
                             /\ \A r, q \in Books[b] : r.instrument = q.instrument => r = q
  /\ \A s \in DOMAIN SeriesBooks : \A i \in DOMAIN SeriesBooks[s] :
       SeriesBooks[s][i] \subseteq ReturnObservation
  /\ Admissions \subseteq PortfolioRiskDecision

ClusterLifecycleState ==
  {"ABSENT", "ENTRY_PENDING", "ACTIVE", "EXIT_PENDING", "COOLDOWN", "STALE_RESTRICTED"}

Retained == {"ACTIVE", "EXIT_PENDING", "STALE_RESTRICTED"}

(***************************************************************************)
(* Dependencies.                                                           *)
(***************************************************************************)

Booked == {r.instrument : r \in UNION {Books[b] : b \in DOMAIN Books}}

Instruments == Booked \cup {c.instrument : c \in Admissions}

\* The observations of a series that are known.
Available(series, x, asOf) == {o \in series[x] : o.available <= asOf /\ o.at <= asOf}

TimesOf(observations) == {o.at : o \in observations}

\* The last times that two series have in common.
LastCommon(xs, ys, count) ==
  LET common == TimesOf(xs) \cap TimesOf(ys)
  IN {t \in common : Cardinality({u \in common : u > t}) < count}

ValuesAt(times, observations) == [t \in times |-> (CHOOSE o \in observations : o.at = t).value]

\* The covariance of two functions of time, and the product of their variances.
Moments(f, g) ==
  LET sum(h)       == MapThenSumSet(LAMBDA t : h[t], DOMAIN h)
      moment(h, k) == Cardinality(DOMAIN h) * MapThenSumSet(LAMBDA t : h[t] * k[t], DOMAIN h)
                        - sum(h) * sum(k)
  IN [covariance |-> moment(f, g), variances |-> moment(f, f) * moment(g, g)]

WithVariance(pair) == IF pair.variances = 0 THEN None ELSE pair

PairAt(times, xs, ys, asOf, required) ==
  IF \/ StrictAlignment /\ TimesOf(xs) # TimesOf(ys)
     \/ Cardinality(times) < required
     \/ asOf - Max(times) > CorrelationStaleAfter
  THEN None
  ELSE WithVariance(Moments(ValuesAt(times, xs), ValuesAt(times, ys)))

PairOf(xs, ys, asOf, count, required) ==
  PairAt(LastCommon(xs, ys, count), xs, ys, asOf, required)

\* pair, of the series a and b: what the last common observations that are known
\* give, or None when they are missing, not aligned, too few, stale or without
\* variance.
Correlated(series, a, b, asOf, count, required) ==
  IF {a, b} \ DOMAIN series # {} THEN None
  ELSE PairOf(Available(series, a, asOf), Available(series, b, asOf), asOf, count, required)

\* What every pair of series gives at every time.
Pairs ==
  [s \in DOMAIN SeriesBooks, a, b \in Instruments, t \in Time |->
     Correlated(SeriesBooks[s], a, b, t, Lookback, MinimumObservations)]

WindowPairs ==
  [w \in CorrelationWindows, s \in DOMAIN SeriesBooks, a, b \in Instruments, t \in Time |->
     Correlated(SeriesBooks[s], a, b, t, w.count, w.count)]

\* The direction adjusted dependency is at least a threshold: squares for roots.
Reinforcing(pair, direction, threshold) ==
  /\ direction * pair.covariance >= 0
  /\ 10000 * pair.covariance * pair.covariance >= threshold * threshold * pair.variances

\* _candidate_multi_dependency, MOST_RESTRICTIVE: the dependencies in the windows.
MultiDependency(of) ==
  LET valid   == {w \in CorrelationWindows : of[w] # None}
      missing == \E w \in CorrelationWindows \ valid : w.required
  IN IF \/ Cardinality(valid) < MinimumValidWindows
        \/ missing /\ MissingWindowBlocks
     THEN None
     ELSE [of |-> {of[w] : w \in valid}, healthy |-> ~missing]

MultiPair(name, a, b, t) ==
  MultiDependency([w \in CorrelationWindows |-> WindowPairs[w, name, a, b, t]])

HealthyPairs(multi) == IF multi = None \/ ~multi.healthy THEN {} ELSE multi.of

\* What assess takes a dependency on an instrument from; none when it is missing.
Dependencies(name, a, b, t) ==
  IF CorrelationWindows = {} THEN {Pairs[name, a, b, t]} \ {None}
  ELSE HealthyPairs(MultiPair(name, a, b, t))

(***************************************************************************)
(* Clusters.                                                               *)
(***************************************************************************)

\* The records that count: of an instrument the last, so that a book holds one.
Active(book, asOf) == {r \in Books[book] : r.updated <= asOf /\ r.exposure > 0}

\* The active records that reinforce each other, in both orders.
Links(active, name, asOf, threshold) ==
  {x \in active \X active :
     /\ x[1] # x[2]
     /\ \E pair \in {Pairs[name, x[1].instrument, x[2].instrument, asOf]} :
          pair # None /\ Reinforcing(pair, x[1].direction * x[2].direction, threshold)}

\* _clusters: the components of at least two members.
ComponentsOf(active, linked) ==
  LET closed == {c \in SUBSET active : \A x \in linked : x[1] \in c => x[2] \in c}
      component(r) == {q.instrument : q \in
                         {q \in active : \A c \in closed : r \in c => q \in c}}
  IN {c \in {component(r) : r \in active} : Cardinality(c) > 1}

Components(book, name, asOf, threshold) ==
  LET active == Active(book, asOf) IN ComponentsOf(active, Links(active, name, asOf, threshold))

\* What every portfolio has at every time: the components, and whether all pairs
\* are healthy.
Clusters ==
  [b \in DOMAIN Books, s \in DOMAIN SeriesBooks, t \in Time,
   threshold \in {EntryThreshold, ExitThreshold} |-> Components(b, s, t, threshold)]

HealthyBooks ==
  [b \in DOMAIN Books, s \in DOMAIN SeriesBooks, t \in Time |->
     \A r, q \in Active(b, t) : r # q => Pairs[s, r.instrument, q.instrument, t] # None]

\* _update_cluster_lifecycle, of one set of members.
LifecycleOf(old, present, held, healthy, asOf) ==
  LET exits == old.exits + 1
  IN IF ~healthy /\ old.state \in Retained THEN [old EXCEPT !.state = "STALE_RESTRICTED"]
     ELSE IF present
     THEN [old EXCEPT !.exits = 0, !.entries = old.entries + 1,
                      !.state = IF old.state \in {"ACTIVE", "STALE_RESTRICTED"}
                                   \/ old.entries + 1 >= EntryCount
                                THEN "ACTIVE" ELSE "ENTRY_PENDING"]
     ELSE IF held /\ old.state \in Retained THEN [old EXCEPT !.exits = 0, !.state = "ACTIVE"]
     ELSE IF old.state \in Retained /\ exits >= ExitCount
     THEN [old EXCEPT !.exits = exits, !.entries = 0, !.state = "COOLDOWN",
                      !.until = asOf + ReleaseCooldown]
     ELSE IF old.state \in Retained
     THEN [old EXCEPT !.exits = exits, !.entries = 0, !.state = "EXIT_PENDING"]
     ELSE IF old.state = "COOLDOWN" /\ asOf < old.until THEN old
     ELSE [old EXCEPT !.state = "ABSENT"]

\* Mutant: a cluster that hysteresis keeps keeps its count of exits.
LifecycleKeepingExits(old, present, held, healthy, asOf) ==
  IF healthy /\ ~present /\ held /\ old.state \in Retained THEN [old EXCEPT !.state = "ACTIVE"]
  ELSE LifecycleOf(old, present, held, healthy, asOf)

Lifecycle(old, present, held, healthy, asOf) == LifecycleOf(old, present, held, healthy, asOf)

Members == {m \in SUBSET Booked : Cardinality(m) > 1}

NewCluster == [state |-> "ABSENT", entries |-> 0, exits |-> 0, until |-> 0, observation |-> None]

(***************************************************************************)
(* Operations.                                                             *)
(***************************************************************************)

\* snapshot: every set of members that is, was, or is still held as a cluster.
\* The states of clusters are far fewer than are kept.
Sighted(raw, held, healthy, observed, asOf) ==
  LET counted  == {m \in Members : LET c == correlation.clusters[m]
                                   IN /\ m \in raw \cup held \/ c.observation # None
                                      /\ c.observation # observed}
      next     == [m \in counted |-> [Lifecycle(correlation.clusters[m], m \in raw, m \in held,
                                                healthy, asOf) EXCEPT !.observation = observed]]
  IN /\ \A m \in counted : Len(sightings[m]) < MaxSeen
     /\ correlation' = [correlation EXCEPT !.clusters =
          [m \in Members |-> IF m \in counted THEN next[m] ELSE correlation.clusters[m]]]
     /\ sightings' = [m \in Members |->
          IF m \notin counted THEN sightings[m]
          ELSE Append(sightings[m],
                 [present |-> m \in raw, held |-> m \in held, healthy |-> healthy,
                  from |-> correlation.clusters[m].state, to |-> next[m].state, at |-> asOf])]
     /\ assessed' = None

Snapshot(book, name, asOf) ==
  Sighted(Clusters[book, name, asOf, EntryThreshold], Clusters[book, name, asOf, ExitThreshold],
          HealthyBooks[book, name, asOf], <<book, name, asOf>>, asOf)

\* assess: what is related to the candidate counts against the limits, and what
\* is missing blocks; with windows the health of a pair, in the order of the
\* instruments, replaces that of those before.  Published clusters take no part.
Assessment(candidate, active, missed, related) ==
  LET blocking == IF CorrelationWindows = {} THEN missed
                  ELSE {r \in missed : \A q \in active : q.instrument <= r.instrument}
      existing == MapThenSumSet(LAMBDA r : r.exposure, related)
      members  == Cardinality({r.instrument : r \in related} \cup {candidate.instrument})
      allowed  == Greatest(0, Least(candidate.approved, MaximumClusterExposure - existing))
  IN [candidate |-> candidate,
      missing |-> {r.instrument : r \in missed}, related |-> {r.instrument : r \in related},
      approved |-> IF correlation.restricted \/ (blocking # {} /\ UnknownBlocks) THEN 0
                   ELSE IF related = {} THEN candidate.approved
                   ELSE IF members > MaximumClusterMembers THEN 0
                   ELSE allowed]

Assess(candidate, book, name) ==
  LET active == Active(book, candidate.at)
  IN \E of \in {[r \in active |-> Dependencies(name, candidate.instrument, r.instrument, candidate.at)]} :
       /\ candidate.approved > 0
       /\ assessed' = Assessment(candidate, active, {r \in active : of[r] = {}},
                        {r \in active : \E pair \in of[r] :
                           Reinforcing(pair, candidate.direction * r.direction, EntryThreshold)})
       /\ UNCHANGED <<correlation, sightings>>

\* recovery_state and restore in a new engine; an incompatible state is refused.
RestartCorrelation ==
  /\ correlation' = [correlation EXCEPT !.restricted = FALSE]
  /\ UNCHANGED <<assessed, sightings>>

RestartCorrelationRefused ==
  /\ correlation' = [correlation EXCEPT !.restricted = TRUE]
  /\ UNCHANGED <<assessed, sightings>>

CorrelationInit ==
  /\ correlation = [clusters |-> [m \in Members |-> NewCluster], restricted |-> FALSE]
  /\ assessed = None /\ sightings = [m \in Members |-> <<>>]

CorrelationNext ==
  \/ \E b \in DOMAIN Books, s \in DOMAIN SeriesBooks :
       \/ \E t \in Time : Snapshot(b, s, t)
       \/ \E c \in Admissions : Assess(c, b, s)
  \/ RestartCorrelation \/ RestartCorrelationRefused

CorrelationSpec == CorrelationInit /\ [][CorrelationNext]_correlationVars

-----------------------------------------------------------------------------
(* Properties.                                                             *)

CorrelationTypeOK ==
  \A m \in DOMAIN correlation.clusters :
    LET c == correlation.clusters[m]
    IN /\ c.state \in ClusterLifecycleState /\ {c.entries, c.exits} \subseteq Nat
       /\ c.until \in Nat

\* Docs/CORRELATION_CONCENTRATION_RESEARCH.md: "published cluster state is
\* separated from raw graph state.  Entry/exit confirmation, hysteresis, cooldown,
\* stale restriction [...] are preserved."  Over all observations of a set of
\* members, healthy or not: it becomes a cluster after as many sightings as are
\* configured since it last was released; it is released only into the cooldown,
\* after as many healthy observations since one last retained it, and ends after
\* the cooldown; and observations that are not healthy only make it stale.
ClustersEarned ==
  CorrelationTypeOK /\ \A m \in DOMAIN sightings : \A n \in DOMAIN sightings[m] :
    LET seen     == sightings[m]
        now      == seen[n]
        released == {k \in 1..(n - 1) : seen[k].to = "COOLDOWN" /\ seen[k].from \in Retained}
        kept     == {k \in 1..n : seen[k].healthy /\ (seen[k].held \/ seen[k].present)}
        since(S) == IF S = {} THEN 1 ELSE Max(S) + 1
    IN /\ now.to = "COOLDOWN" /\ now.from # "COOLDOWN" =>
            /\ now.from \in Retained
            /\ Cardinality({k \in since(kept)..n : seen[k].healthy /\ seen[k].from \in Retained})
                 >= ExitCount
       /\ now.from \notin Retained /\ now.to \in Retained =>
            Cardinality({k \in since(released)..n : seen[k].present}) >= EntryCount
       /\ now.from = "COOLDOWN" /\ now.to = "ABSENT" =>
            now.at >= seen[Max(released)].at + ReleaseCooldown
       /\ now.from = "COOLDOWN" => now.present \/ now.to \in {"COOLDOWN", "ABSENT"}
       /\ now.from \in Retained /\ ~now.healthy => now.to = "STALE_RESTRICTED"
=============================================================================
