--------------------------- MODULE StrategyHealth ---------------------------
(***************************************************************************)
(* StrategyHealthEngine of src/src/amrte/portfolio/strategy_health.py:     *)
(* outcomes of completed research are ingested, the last of them are       *)
(* classified against what a profile of the strategy expects, and what is  *)
(* published moves towards that with confirmations and a cooldown.  The    *)
(* published state's multiplier restricts what correlation approved.       *)
(*                                                                         *)
(* Outcomes are in whole units of R; the exposure step is 1.               *)
(***************************************************************************)
EXTENDS Evidence, FiniteSetsExt, Store

CONSTANTS
  Profiles,             \* see StrategyExpectedBehaviorProfile
  Outcomes,             \* outcomes callers ingest, see StrategyOutcomeObservation
  Windows,              \* number and least number of completed observations
  Thresholds,           \* for caution, defensive and suspend, see Classified
  Multipliers,          \* for healthy, insufficient history, caution, defensive
  Exposures,            \* what correlation approved
  StaleAfter,           \* stale_after_seconds
  DeteriorationCount,   \* deterioration_confirmation_count
  RecoveryCount,        \* recovery_confirmation_count
  HealthCooldown,       \* recovery_cooldown_seconds
  MaxOutcomes,          \* maximum_outcomes
  MaxEvaluations        \* bound: evaluations of a profile that count

VARIABLES
  health,               \* the engine, with the snapshots that callers hold
  allocated,            \* the latest allocation
  published             \* history: raw and published states of every profile

healthVars == <<health, allocated, published>>

StrategyExpectedBehaviorProfile == [id : STRING, minimum : Nat, known : Time]

StrategyOutcomeObservation == [id : Nat, profile : STRING, r : Int, known : Time]

\* StrategyHealthState by _rank; UNKNOWN (5) and INVALID (6) are never reached.
HEALTHY      == 0
INSUFFICIENT == 1
DEFENSIVE    == 3
STALE        == 4
CRITICAL     == 7   \* SUSPENDED

StrategyHealthState == 0..7

StrategyHealthConfiguration ==
  /\ Windows # {} /\ \A w \in Windows : w.minimum \in Nat \ {0} /\ w.completed >= w.minimum
  /\ Multipliers \in Seq(Percent) /\ Len(Multipliers) = 4
  /\ Multipliers[4] <= Multipliers[3] /\ Multipliers[3] <= Multipliers[1]
  /\ {DeteriorationCount, MaxOutcomes} \subseteq Nat \ {0}
  /\ RecoveryCount \in Nat /\ RecoveryCount >= DeteriorationCount
  /\ {StaleAfter, HealthCooldown} \subseteq Nat

ASSUME StrategyHealthAssumption ==
  /\ StrategyHealthConfiguration
  /\ Profiles \subseteq StrategyExpectedBehaviorProfile
  /\ Outcomes \subseteq StrategyOutcomeObservation
  /\ Len(Thresholds) = 3 /\ Exposures \subseteq Nat /\ MaxEvaluations \in Nat

\* No time is None.
ASSUME NoTimeIsNone == None \notin Nat

\* _multiplier
HealthMultiplier(state) == IF state > DEFENSIVE THEN 0 ELSE Multipliers[state + 1]

FreshHealth == [outcomes |-> <<>>, published |-> <<>>, snapshots |-> {}, restricted |-> FALSE]

\* The observations of a profile that were known, in the order they became so.
Observations(p, asOf) ==
  SortSeq(SelectSeq(health.outcomes, LAMBDA o : o.profile = p.id /\ o.known <= asOf),
          LAMBDA a, b : a.known < b.known \/ (a.known = b.known /\ a.id < b.id))

\* _metrics and _classify: the sum of the outcomes, and the greatest fall of the
\* equity, against the thresholds.
Classified(items) ==
  LET equity[i \in 0..Len(items)] == IF i = 0 THEN 0 ELSE equity[i - 1] + items[i].r
      drawdown == Max({equity[x[1]] - equity[x[2]] : x \in
                         {x \in (0..Len(items)) \X (0..Len(items)) : x[1] <= x[2]}})
      beyond(t) == equity[Len(items)] <= t.expectancy * Len(items) \/ drawdown >= t.drawdown
  IN IF beyond(Thresholds[3]) THEN CRITICAL
     ELSE IF beyond(Thresholds[2]) THEN DEFENSIVE
     ELSE IF beyond(Thresholds[1]) THEN 2
     ELSE HEALTHY

\* evaluate: the raw state, the worst of the windows, or stale.
Raw(p, items, asOf) ==
  LET selected(w) == SubSeq(items, Greatest(1, Len(items) - w.completed + 1), Len(items))
      state(w) == IF Len(selected(w)) < Greatest(w.minimum, p.minimum) THEN INSUFFICIENT
                  ELSE Classified(selected(w))
  IN IF items # <<>> /\ asOf - Last(items).known > StaleAfter THEN STALE
     ELSE Max({state(w) : w \in Windows})

\* Mutant: better evaluations are counted also when worse ones come between.
MovedCounting(old, raw, set, asOf) ==
  LET better == IF raw < old.state THEN old.better + 1 ELSE old.better
      same   == [old EXCEPT !.better = better, !.set = set]
  IN IF raw > old.state THEN [same EXCEPT !.state = raw, !.until = asOf + HealthCooldown]
     ELSE IF better >= RecoveryCount /\ (old.until = None \/ asOf >= old.until)
          THEN [same EXCEPT !.state = raw]
     ELSE same

\* _transition, without the one that starts a profile.
Moved(old, raw, set, asOf) ==
  LET worse  == IF raw > old.state THEN old.worse + 1 ELSE 0
      better == IF raw < old.state THEN old.better + 1 ELSE 0
      same   == [old EXCEPT !.worse = worse, !.better = better, !.set = set]
  IN IF raw \in {STALE, CRITICAL} THEN [same EXCEPT !.state = raw]
     ELSE IF worse >= DeteriorationCount
          THEN [same EXCEPT !.state = raw, !.until = asOf + HealthCooldown]
     ELSE IF better >= RecoveryCount /\ (old.until = None \/ asOf >= old.until)
          THEN [same EXCEPT !.state = raw]
     ELSE same

Transitioned(p, raw, set, asOf) ==
  IF Held(health.published, p.id) THEN Moved(Entry(health.published, p.id), raw, set, asOf)
  ELSE [id |-> p.id, state |-> raw, worse |-> 0, better |-> 0, until |-> None, set |-> set]

(***************************************************************************)
(* Operations.                                                             *)
(***************************************************************************)

Ingest(o) ==
  /\ health' = [health EXCEPT !.outcomes = Evicted(PutNew(@, o), MaxOutcomes)]
  /\ UNCHANGED <<allocated, published>>

\* evaluate: the same observations at the same time are not counted again.  The
\* snapshot is kept for callers.
EvaluateHealth(p, asOf) ==
  LET items == Observations(p, asOf)
      set   == <<[i \in DOMAIN items |-> items[i].id], asOf>>
      known == Held(health.published, p.id) /\ Entry(health.published, p.id).set = set
      raw   == Raw(p, items, asOf)
      next  == IF known THEN Entry(health.published, p.id) ELSE Transitioned(p, raw, set, asOf)
  IN /\ p.known <= asOf
     /\ known \/ Len(published[p.id]) < MaxEvaluations
     /\ health' = [health EXCEPT !.published = Put(@, next),
                                 !.snapshots = (@ \ {x \in @ : x.id = p.id})
                                               \cup {[id |-> p.id, state |-> next.state]}]
     /\ published' = IF known THEN published
                     ELSE [published EXCEPT ![p.id] =
                             Append(@, [raw |-> raw, state |-> next.state, at |-> asOf,
                                        items |-> set[1]])]
     /\ UNCHANGED allocated

\* allocate, with the snapshots of a strategy and of its family (or the same).
Allocate(exposure, snapshot, family) ==
  LET multiplier == Least(HealthMultiplier(snapshot.state), HealthMultiplier(family.state))
  IN /\ exposure > 0
     /\ allocated' =
          [upstream |-> exposure, state |-> snapshot.state, family |-> family.state,
           exposure |-> IF health.restricted \/ snapshot.state = STALE THEN 0
                        ELSE (exposure * multiplier) \div 100]
     /\ UNCHANGED <<health, published>>

\* recovery_state and restore in a new engine; an incompatible state is refused.
RestartHealth ==
  /\ health' = [health EXCEPT !.snapshots = {}, !.restricted = FALSE]
  /\ UNCHANGED <<allocated, published>>

RestartHealthRefused ==
  /\ health' = [health EXCEPT !.restricted = TRUE]
  /\ UNCHANGED <<allocated, published>>

HealthInit ==
  /\ health = FreshHealth /\ allocated = None
  /\ published = [i \in {p.id : p \in Profiles} |-> <<>>]

HealthNext ==
  \/ \E o \in Outcomes : Ingest(o)
  \/ \E p \in Profiles, t \in Time : EvaluateHealth(p, t)
  \/ \E x \in Exposures, s, f \in health.snapshots : Allocate(x, s, f)
  \/ RestartHealth \/ RestartHealthRefused

HealthSpec == HealthInit /\ [][HealthNext]_healthVars

-----------------------------------------------------------------------------
(* Properties.                                                             *)

\* The n-th evaluation and those before it that were in a row better (worse) than
\* what was published before each.
Better(seen, n, count) ==
  n > count /\ \A k \in (n - count + 1)..n : seen[k].raw < seen[k - 1].state

Worse(seen, n, count) ==
  n > count /\ \A k \in (n - count + 1)..n : seen[k].raw > seen[k - 1].state

HealthTypeOK ==
  \A i \in DOMAIN health.published :
    LET s == health.published[i]
    IN s.state \in StrategyHealthState /\ {s.worse, s.better} \subseteq Nat /\ s.until \in Time \cup {None} \cup Nat

\* Docs/STRATEGY_HEALTH_ALLOCATION.md: "recovery requires [...] sequential
\* confirmation, and cooldown", "restrictive transitions may occur quickly", and
\* allocation "does not increase" what correlation approved.  Whatever outcomes
\* become known in between, across restarts: what is published gets better only
\* after as many evaluations in a row as are configured called for that, and after
\* the cooldown of the deterioration before; it follows worse evaluations as soon
\* as they are confirmed, and a suspension at once; a suspended or stale strategy
\* or family gets nothing.
AllocationEarned ==
  /\ HealthTypeOK
  /\ \A i \in DOMAIN published : \A n \in 2..Len(published[i]) :
       LET seen == published[i] now == seen[n] before == seen[n - 1]
           fell == {k \in 2..(n - 1) : /\ seen[k].state > seen[k - 1].state
                                       /\ seen[k].raw \notin {STALE, CRITICAL}}
       IN /\ now.raw = CRITICAL \/ Worse(seen, n, DeteriorationCount) => now.state = now.raw
          /\ now.state < before.state /\ now.raw # STALE =>
               /\ Better(seen, n, RecoveryCount)
               /\ fell # {} => now.at >= seen[Max(fell)].at + HealthCooldown
  /\ allocated # None =>
       /\ allocated.exposure <= allocated.upstream
       /\ CRITICAL \in {allocated.state, allocated.family} => allocated.exposure = 0
=============================================================================
