-------------------------- MODULE TemporalQuality --------------------------
(***************************************************************************)
(* TemporalQualityProtectionEngine of                                      *)
(* src/src/amrte/research/temporal_quality.py, for one scope: adverse      *)
(* units use up the budgets of a day and of a week, a run of adverse       *)
(* outcomes or a used up budget starts a cooldown, which only a confirmed  *)
(* release ends.  The lock makes each call one step.                       *)
(***************************************************************************)
EXTENDS Evidence, Store

CONSTANTS
  Results,            \* the TemporalQualityOutcomes callers process
  Upstreams,          \* the upstream multipliers they pass
  DayOf, WeekOf,      \* research_day_id and research_week_id of a time
  DailyWatch, DailyBlock, WeeklyWatch, WeeklyBlock,
  StreakWatch, StreakCooldown,
  CooldownTime,       \* cooldown_seconds
  TemporalMultiplier, \* the multipliers of the stages
  Patience,           \* recovery_confirmations
  MaxResults          \* maximum_events_per_scope

COOLDOWN == 3

\* intact says that lineage, source and classification are as they must be; the
\* category and the streaks of categories, which nothing reads, are left out.
Result == [id : Nat, kind : {"ADVERSE", "NEUTRAL", "FAVORABLE"}, units : Nat,
           observed : Time, available : Time, intact : BOOLEAN]

\* What validate accepts.
TemporalQualityConfiguration ==
  /\ DailyWatch \in Nat \ {0} /\ DailyBlock \in Nat /\ DailyWatch < DailyBlock
  /\ WeeklyWatch \in Nat \ {0} /\ WeeklyBlock \in Nat /\ WeeklyWatch < WeeklyBlock
  /\ StreakWatch \in Nat \ {0} /\ StreakCooldown \in Nat /\ StreakWatch <= StreakCooldown
  /\ CooldownTime \in Nat \ {0}
  /\ TemporalMultiplier \in [Stage -> Percent]
  /\ TemporalMultiplier[COOLDOWN] = 0 /\ TemporalMultiplier[SUSPENDED] = 0
  /\ \A s \in 1..SUSPENDED : TemporalMultiplier[s] <= TemporalMultiplier[s - 1]
  /\ Patience \in Nat \ {0}
  /\ MaxResults \in Nat \ {0}

ASSUME TemporalAssumption ==
  /\ TemporalQualityConfiguration
  /\ Results \subseteq Result
  /\ \A o \in Results : o.kind # "ADVERSE" => o.units = 0
  /\ Upstreams \subseteq Percent
  /\ DayOf \in [Time -> Nat] /\ WeekOf \in [Time -> Nat]
  /\ \A t, u \in Time : t <= u => DayOf[t] <= DayOf[u] /\ WeekOf[t] <= WeekOf[u]

CooldownState == {"INACTIVE", "ACTIVE", "RELEASED"}

\* The multipliers follow from stage and upstream; until is 0 for None.
Protection == [day : Nat, week : Nat, daily : Nat, weekly : Nat, streak : Nat,
               raw : Stage, stage : Stage, upstream : Percent, cooldown : CooldownState,
               until : Nat, progress : Nat, count : Nat, observed : Time]

ASSUME NoProtectionIsNone == None \notin Protection

ResultEvent == [sequence : Nat, evidence : Result]

VARIABLES
  protection,         \* states[scope]
  protectionVersions, \* versions, in the order of their creation
  resultEvents,       \* events, in the order of their sequence numbers
  results,            \* outcomes
  releasedAt,         \* history: the time of the last release
  temporalBackup,     \* the recovery state kept outside the engine
  temporalTaken,      \* history: that state as it was taken
  temporalLosses      \* history: records recovery states have lost

temporalEngine == <<protection, protectionVersions, resultEvents, results, releasedAt>>
temporalOutside == <<temporalBackup, temporalTaken, temporalLosses>>
temporalVars == <<temporalEngine, temporalOutside>>

-----------------------------------------------------------------------------
(* Helpers.                                                                *)

\* _stage.
Budgeted(daily, weekly, streak) ==
  Worst({NORMAL}
        \cup {s \in {WATCH}      : streak >= StreakWatch}
        \cup {s \in {RESTRICTED} : daily >= DailyWatch \/ weekly >= WeeklyWatch}
        \cup {s \in {COOLDOWN}   : streak >= StreakCooldown}
        \cup {s \in {SUSPENDED}  : daily >= DailyBlock \/ weekly >= WeeklyBlock})

\* _publish: down at once, up after Patience outcomes.
PublishTemporal(raw, current) ==
  IF raw < current.stage /\ current.progress + 1 < Patience
  THEN [stage |-> current.stage, progress |-> current.progress + 1]
  ELSE [stage |-> raw, progress |-> 0]

\* The permission a state gives: final_permission_multiplier.
TemporalPermission(state) == Least(state.upstream, TemporalMultiplier[state.stage])

\* Mutant: a budget is carried into the next window.
SpentForEver(budget, sameWindow, o) == budget + o.units

\* What an outcome makes of a budget: nothing is carried into another window.
Spent(budget, sameWindow, o) == (IF sameWindow THEN budget ELSE 0) + o.units

-----------------------------------------------------------------------------
(* Actions.                                                                *)

FreshProtection(asOf) ==
  [day |-> DayOf[asOf], week |-> WeekOf[asOf], daily |-> 0, weekly |-> 0, streak |-> 0,
   raw |-> NORMAL, stage |-> NORMAL, upstream |-> 100, cooldown |-> "INACTIVE",
   until |-> 0, progress |-> 0, count |-> 0, observed |-> asOf]

InitializeProtection(asOf) ==
  /\ protection = None
  /\ protection' = FreshProtection(asOf)
  /\ protectionVersions' = <<protection'>>
  /\ UNCHANGED <<resultEvents, results, releasedAt, temporalOutside>>

\* The version an outcome makes of the state.
Protected(current, o, upstream) ==
  LET day       == DayOf[o.observed]
      week      == WeekOf[o.observed]
      daily     == Spent(current.daily, day = current.day, o)
      weekly    == Spent(current.weekly, week = current.week, o)
      streak    == CASE o.kind = "ADVERSE"   -> current.streak + 1
                     [] o.kind = "FAVORABLE" -> 0
                     [] o.kind = "NEUTRAL"   -> current.streak
      raw       == Budgeted(daily, weekly, streak)
      breach    == raw >= COOLDOWN
      cooldown  == IF breach THEN "ACTIVE" ELSE current.cooldown
      published == PublishTemporal(raw, current)
  IN [day |-> day, week |-> week, daily |-> daily, weekly |-> weekly, streak |-> streak,
      raw |-> raw,
      stage |-> IF cooldown = "ACTIVE" THEN Greatest(published.stage, COOLDOWN)
                ELSE published.stage,
      upstream |-> upstream, cooldown |-> cooldown,
      until |-> IF breach THEN Greatest(current.until, o.observed + CooldownTime)
                ELSE current.until,
      progress |-> published.progress, count |-> current.count + 1,
      observed |-> o.observed]

\* process, with an outcome it accepts.
ProcessResult(o, upstream, asOf) ==
  /\ protection # None
  /\ o \notin results
  /\ InTime(o, protection.observed, asOf)
  /\ o.intact
  /\ Len(resultEvents) < MaxResults
  /\ results' = results \cup {o}
  /\ protection' = Protected(protection, o, upstream)
  /\ protectionVersions' = Append(protectionVersions, protection')
  /\ resultEvents' =
       Append(resultEvents, [sequence |-> Len(resultEvents) + 1, evidence |-> o])
  /\ UNCHANGED <<releasedAt, temporalOutside>>

Release(asOf) ==
  /\ protection # None
  /\ protection.cooldown = "ACTIVE"
  /\ asOf >= protection.until
  /\ protection' = [protection EXCEPT !.cooldown = "RELEASED", !.stage = RESTRICTED,
                                      !.progress = 0]
  /\ protectionVersions' = Append(protectionVersions, protection')
  /\ releasedAt' = asOf
  /\ UNCHANGED <<resultEvents, results, temporalOutside>>

\* recovery_state, by an engine that stops there: see StopReliability.
StopTemporal ==
  /\ temporalBackup = None
  /\ temporalBackup' = [current |-> protection, versions |-> protectionVersions,
                        events |-> resultEvents, evidence |-> results]
  /\ temporalTaken' = [state |-> temporalBackup', released |-> releasedAt]
  /\ protection' = None
  /\ protectionVersions' = <<>>
  /\ resultEvents' = <<>>
  /\ results' = {}
  /\ releasedAt' = None
  /\ UNCHANGED temporalLosses

RestoreTemporal ==
  /\ temporalBackup # None
  /\ Numbered(temporalBackup)
  /\ protection' = temporalBackup.current
  /\ protectionVersions' = temporalBackup.versions
  /\ resultEvents' = temporalBackup.events
  /\ results' = temporalBackup.evidence
  /\ releasedAt' = IF protection' = None THEN None ELSE temporalTaken.released
  /\ temporalBackup' = None
  /\ temporalTaken' = None
  /\ UNCHANGED temporalLosses

\* The engine is refused the state, or works on without it.
StartTemporalAfresh ==
  /\ temporalBackup # None
  /\ temporalBackup' = None
  /\ temporalTaken' = None
  /\ UNCHANGED <<temporalEngine, temporalLosses>>

DamageTemporal ==
  /\ temporalBackup # None
  /\ temporalLosses < MaxLosses
  /\ temporalLosses' = temporalLosses + 1
  /\ temporalBackup' \in Damaged(temporalBackup)
  /\ UNCHANGED <<temporalEngine, temporalTaken>>

TemporalInit ==
  /\ protection = None
  /\ protectionVersions = <<>>
  /\ resultEvents = <<>>
  /\ results = {}
  /\ releasedAt = None
  /\ temporalBackup = None
  /\ temporalTaken = None
  /\ temporalLosses = 0

TemporalNext ==
  \/ /\ temporalBackup = None
     /\ \E asOf \in Time :
          \/ InitializeProtection(asOf)
          \/ \E o \in Results, upstream \in Upstreams : ProcessResult(o, upstream, asOf)
          \/ Release(asOf)
  \/ StopTemporal
  \/ RestoreTemporal
  \/ StartTemporalAfresh
  \/ DamageTemporal

TemporalSpec == TemporalInit /\ [][TemporalNext]_temporalVars

-----------------------------------------------------------------------------
(* Properties.                                                             *)

TemporalTypeOK ==
  /\ protection \in Protection \cup {None}
  /\ protectionVersions \in Seq(Protection)
  /\ resultEvents \in Seq(ResultEvent) /\ Len(resultEvents) <= MaxResults
  /\ results \subseteq Results
  /\ releasedAt \in Nat \cup {None}
  /\ temporalLosses \in 0..MaxLosses

\* "Daily and weekly adverse-quality accumulation with independent rollover":
\* the budgets are what the accepted outcomes of the current day and week have
\* used, and the streak the adverse ones since the last favorable one.
BudgetsExact ==
  protection # None =>
    LET used(window, current) ==
          SumOver([i \in DOMAIN resultEvents |-> resultEvents[i].evidence.units],
                  {i \in DOMAIN resultEvents :
                     window[resultEvents[i].evidence.observed] = current})
        favorable == {i \in DOMAIN resultEvents : resultEvents[i].evidence.kind = "FAVORABLE"}
    IN /\ protection.daily = used(DayOf, protection.day)
       /\ protection.weekly = used(WeekOf, protection.week)
       /\ protection.streak =
            Cardinality({i \in DOMAIN resultEvents :
                           /\ resultEvents[i].evidence.kind = "ADVERSE"
                           /\ \A j \in favorable : j < i})

\* "Cooldown creation, extension, expiry, and evidence-confirmed restricted
\* release": a breach is followed by a cooldown that gives no permission, and a
\* release comes the whole cooldown time after every breach.
CooldownServed ==
  protection # None =>
    LET breaches == {i \in DOMAIN protectionVersions : protectionVersions[i].raw >= COOLDOWN}
    IN /\ breaches # {} => protection.cooldown # "INACTIVE"
       /\ protection.cooldown = "ACTIVE" => TemporalPermission(protection) = 0
       /\ protection.cooldown = "RELEASED" =>
            \A i \in breaches :
              releasedAt >= protectionVersions[i].observed + CooldownTime
=============================================================================
