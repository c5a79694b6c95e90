------------------------------ MODULE Sessions ------------------------------
(***************************************************************************)
(* SessionEngine of src/src/amrte/market/session.py: which sessions are    *)
(* open at an instant, by wall clocks that skip and repeat hours, which    *)
(* trading day and week it belongs to, and what may be researched then.    *)
(*                                                                         *)
(* Instants are whole units of UTC; a wall time counts the units from the  *)
(* start of the wall clock's day 0.                                        *)
(***************************************************************************)
EXTENDS Evidence, FiniteSetsExt

CONSTANTS
  DayLength,              \* bound: the units of a day
  FirstWeekday,           \* the weekday of day 0, a Monday being 0
  LastInstant,            \* bound: the instants are 0..LastInstant
  Zones,                  \* [name -> [before, after, at]]: the offset of a zone changes once
  SessionsOf,             \* [instrument -> set of SessionDefinition], overrides included
  CalendarDays,           \* what the calendar knows: [days -> CalendarDayState]
  TradingZone, TradingBoundary, WeekZone, WeekStart, WeekStartWeekday,
  FridayZone, FridayCutoff,
  Rollovers,              \* the rollover windows
  ReopenDelay, ReopenObservations,
  SessionPolicy,          \* strategy_eligibility: [families -> [sessions -> SessionEligibility]]
  CalendarRequired, MaxJump

VARIABLE sessions         \* the engine: the last instant and the last snapshot

sessionVars == <<sessions>>

SessionType == {"ASIAN", "LONDON", "NEW_YORK", "CUSTOM"}
CalendarDayState == {"OPEN", "CLOSED", "SHORTENED", "DELAYED_OPEN", "UNKNOWN"}
SessionEligibility == {"ELIGIBLE", "CONDITIONAL", "RESTRICTED", "BLOCKED", "UNKNOWN"}

\* What a policy says when no session is open is kept under the name of no session.
OutOfSession == 0

Clock == 0..(DayLength - 1)
Week == 7 * DayLength
Instants == 0..LastInstant

SessionDefinition ==
  [id : Nat \ {0}, type : SessionType, zone : DOMAIN Zones, open : Clock, close : Clock,
   weekdays : SUBSET (0..6), priority : Int, enabled : BOOLEAN]

RolloverWindow ==
  [zone : DOMAIN Zones, start : Clock, end : Clock, weekdays : SUBSET (0..6), pre : Nat, post : Nat]

\* SessionConfiguration.validate; of the overrides, which it does not look at, the
\* same is assumed.
SessionConfiguration ==
  /\ {TradingZone, WeekZone, FridayZone, "reference"} \subseteq DOMAIN Zones
  /\ {TradingBoundary, WeekStart, FridayCutoff} \subseteq Clock /\ WeekStartWeekday \in 0..6
  /\ \A i \in DOMAIN SessionsOf : \A d \in SessionsOf[i] :
        /\ d \in SessionDefinition /\ d.open # d.close /\ d.weekdays # {}
        /\ \A e \in SessionsOf[i] : e.id = d.id => e = d
  /\ Rollovers \subseteq RolloverWindow
  /\ {ReopenDelay, ReopenObservations, MaxJump} \subseteq Nat /\ CalendarRequired \in BOOLEAN

ASSUME SessionAssumption ==
  /\ DayLength \in Nat \ {0} /\ FirstWeekday \in 0..6 /\ LastInstant \in Nat
  /\ \A z \in DOMAIN Zones : {Zones[z].before, Zones[z].after, Zones[z].at} \subseteq Int
  /\ \A d \in DOMAIN CalendarDays : d \in Int /\ CalendarDays[d] \in CalendarDayState
  /\ SessionConfiguration
  /\ \A f \in DOMAIN SessionPolicy : \A s \in DOMAIN SessionPolicy[f] :
        SessionPolicy[f][s] \in SessionEligibility

ASSUME NoInstantIsNone == None \notin Int

-----------------------------------------------------------------------------
\* TimeZoneService: from an instant to the wall and back.
Wall(zone, t) == t + (IF t < Zones[zone].at THEN Zones[zone].before ELSE Zones[zone].after)

DayOf(wall) == wall \div DayLength
ClockOf(wall) == wall % DayLength
Weekday(day) == (day + FirstWeekday) % 7

\* The instants at which the clock of a zone shows a wall time: none when the
\* time is skipped, two when it is repeated.
Candidates(zone, wall) == {t \in {wall - Zones[zone].before, wall - Zones[zone].after} : Wall(zone, t) = wall}

\* resolve_local: without a fold an ambiguous time is not resolved.
ResolveLocal(zone, wall, fold) ==
  LET found == Candidates(zone, wall)
  IN IF found = {} THEN [instant |-> None, health |-> "NONEXISTENT_LOCAL_TIME"]
     ELSE IF Cardinality(found) > 1 /\ fold = None THEN [instant |-> None, health |-> "AMBIGUOUS"]
     ELSE [instant |-> IF fold = 1 THEN Max(found) ELSE Min(found), health |-> "HEALTHY"]

Midnight(day) == day * DayLength

\* Mutant: a session that closes in a repeated hour closes the first time.
OpeningFirst(d, day) ==
  [open  |-> ResolveLocal(d.zone, Midnight(day) + d.open, 0).instant,
   close |-> ResolveLocal(d.zone, Midnight(IF d.open > d.close THEN day + 1 ELSE day) + d.close, 0).instant]

\* _window: a session that opens on a day, the first time its opening shows and
\* until the last time its close does; None for a boundary that is skipped.
Opening(d, day) ==
  [open  |-> ResolveLocal(d.zone, Midnight(day) + d.open, 0).instant,
   close |-> ResolveLocal(d.zone, Midnight(IF d.open > d.close THEN day + 1 ELSE day) + d.close, 1).instant]

\* The days on which a session opened that is open at an instant.
OpenedOn(d, t) ==
  LET today == DayOf(Wall(d.zone, t))
  IN {day \in (IF d.open > d.close THEN {today - 1, today} ELSE {today}) :
        /\ Weekday(day) \in d.weekdays
        /\ LET w == Opening(d, day) IN None \notin {w.open, w.close} /\ w.open <= t /\ t < w.close}

\* _active: the open sessions, of which the first has the highest priority.
ActiveSessions ==
  [i \in DOMAIN SessionsOf |-> [t \in 0..(LastInstant + Week) |->
     {d \in SessionsOf[i] : d.enabled /\ OpenedOn(d, t) # {}}]]

FirstOf(active) ==
  CHOOSE d \in active : \A e \in active :
    d.priority > e.priority \/ (d.priority = e.priority /\ d.id <= e.id)

SessionWindow(d, t) == Opening(d, Max(OpenedOn(d, t)))

\* _next_open: within a week, None after it.
NextOpen(i, t) ==
  LET opens == {n \in 1..Week : ActiveSessions[i][t + n] # {}}
  IN IF opens = {} THEN None ELSE Min(opens)

-----------------------------------------------------------------------------
\* trading_day_id and trading_week_id, by the day they start on.
TradingDay(t) ==
  LET wall == Wall(TradingZone, t)
  IN IF ClockOf(wall) >= TradingBoundary THEN DayOf(wall) ELSE DayOf(wall) - 1

TradingWeek(t) ==
  LET wall  == Wall(WeekZone, t)
      since == (Weekday(DayOf(wall)) - WeekStartWeekday) % 7
  IN DayOf(wall) - since - (IF since = 0 /\ ClockOf(wall) < WeekStart THEN 7 ELSE 0)

\* _rollover: a window's own states, by the wall clock alone.
InRollover(w, t) ==
  LET wall   == Wall(w.zone, t)
      anchor == Midnight(DayOf(wall)) + w.start
      end    == Midnight(DayOf(wall)) + w.end + (IF w.start > w.end THEN DayLength ELSE 0)
  IN CASE Weekday(DayOf(wall)) \notin w.weekdays -> "NORMAL"
       [] anchor <= wall /\ wall < end -> "ACTIVE"
       [] anchor - w.pre <= wall /\ wall < anchor -> "APPROACHING"
       [] end <= wall /\ wall < end + w.post -> "RECOVERY"
       [] OTHER -> "NORMAL"

Rollover(t) ==
  LET states == {InRollover(w, t) : w \in Rollovers} \ {"NORMAL"}
  IN IF states = {} THEN "NORMAL" ELSE CHOOSE s \in states : TRUE

Friday(t) ==
  LET wall == Wall(FridayZone, t)
  IN IF Weekday(DayOf(wall)) = 4 /\ ClockOf(wall) >= FridayCutoff THEN "NEW_ACTIVITY_RESTRICTED" ELSE "NORMAL"

Availability(t) ==
  LET day   == DayOf(Wall("reference", t))
      known == IF day \in DOMAIN CalendarDays THEN CalendarDays[day] ELSE "UNKNOWN"
  IN CASE Weekday(day) \in {5, 6} \/ known = "CLOSED" -> "EXPECTED_CLOSED"
       [] known = "UNKNOWN" -> "UNKNOWN"
       [] OTHER -> "EXPECTED_OPEN"

SinceOpen(active, t) == Min({t - SessionWindow(d, t).open : d \in active})
ToClose(active, t) == Min({SessionWindow(d, t).close - t : d \in active})

\* m is a market snapshot: its instant, whether its data are healthy and
\* synchronized, whether its spread is extreme, and the closed observations.
MondayReopening(m, active) ==
  CASE Weekday(DayOf(Wall("reference", m.at))) # 0 -> "NOT_APPLICABLE"
    [] active = {} -> "WAITING_FOR_OPEN"
    [] SinceOpen(active, m.at) < ReopenDelay -> "INITIAL_REOPEN_WINDOW"
    [] ~m.healthy -> "DATA_REVALIDATION"
    [] m.closed < ReopenObservations \/ m.extreme -> "NORMALIZATION_PENDING"
    [] OTHER -> "READY"

Primary(active) ==
  LET types == {d.type : d \in active}
  IN CASE {"LONDON", "NEW_YORK"} \subseteq types -> "LONDON_NEW_YORK_OVERLAP"
       [] active = {} -> "OUT_OF_SESSION"
       [] OTHER -> FirstOf(active).type

\* _eligibility: by the policy for the first of the open sessions.
Eligibility(active, restriction) ==
  [f \in DOMAIN SessionPolicy |->
     LET asked  == IF active = {} THEN OutOfSession ELSE FirstOf(active).id
         policy == IF asked \in DOMAIN SessionPolicy[f] THEN SessionPolicy[f][asked] ELSE "UNKNOWN"
     IN CASE restriction = "BLOCK" -> "BLOCKED"
          [] restriction = "RESTRICT" /\ policy = "ELIGIBLE" -> "RESTRICTED"
          [] OTHER -> policy]

Discontinuous(t) == sessions.last # None /\ (t < sessions.last \/ t - sessions.last > MaxJump)

SessionHealthOf(t) ==
  CASE Availability(t) = "UNKNOWN" /\ CalendarRequired -> "CALENDAR_UNAVAILABLE"
    [] Discontinuous(t) -> "RESTRICTED"
    [] OTHER -> "HEALTHY"

RestrictionOf(m, active) ==
  CASE SessionHealthOf(m.at) # "HEALTHY" \/ Availability(m.at) = "UNKNOWN" -> "BLOCK"
    [] \/ Availability(m.at) = "EXPECTED_CLOSED" \/ Friday(m.at) # "NORMAL" \/ Rollover(m.at) # "NORMAL"
       \/ MondayReopening(m, active) \notin {"NOT_APPLICABLE", "READY"} -> "RESTRICT"
    [] OTHER -> "ALLOW"

SessionSnapshot(i, m) ==
  LET active == ActiveSessions[i][m.at]
  IN [at |-> m.at, instrument |-> i, active |-> {d.id : d \in active},
      primary |-> Primary(active), day |-> TradingDay(m.at), week |-> TradingWeek(m.at),
      monday |-> MondayReopening(m, active), rollover |-> Rollover(m.at),
      since |-> IF active = {} THEN None ELSE SinceOpen(active, m.at),
      left |-> IF active = {} THEN None ELSE ToClose(active, m.at),
      next |-> IF active = {} THEN NextOpen(i, m.at) ELSE 0,
      health |-> SessionHealthOf(m.at), restriction |-> RestrictionOf(m, active),
      eligibility |-> Eligibility(active, RestrictionOf(m, active))]

\* analyze: one last instant for all instruments.
AnalyzeSessions(i, m) ==
  sessions' = [last |-> m.at, snapshot |-> SessionSnapshot(i, m)]

\* A new process: recovery_state is saved, and nothing restores it.
RestartSessions == sessions' = [last |-> None, snapshot |-> None]

SessionsInit == sessions = [last |-> None, snapshot |-> None]

SessionsNext ==
  \/ \E i \in DOMAIN SessionsOf, t \in Instants, healthy, extreme \in BOOLEAN, closed \in 0..ReopenObservations :
        AnalyzeSessions(i, [at |-> t, healthy |-> healthy, extreme |-> extreme, closed |-> closed])
  \/ RestartSessions

SessionsSpec == SessionsInit /\ [][SessionsNext]_sessionVars

-----------------------------------------------------------------------------
\* Docs/SESSION_TIME.md, windows are [open, close): whenever the wall clock of a
\* session shows a time between its opening and its close on a day on which it
\* opens, the session is active, in both passes of a repeated hour, unless the
\* clock skips its opening or its close; and it is not active for longer than
\* its length and the hour that is repeated.
OpenByTheWall ==
  LET s == sessions.snapshot
  IN s # None =>
       \A d \in SessionsOf[s.instrument] :
         LET wall    == Wall(d.zone, s.at)
             clock   == ClockOf(wall)
             night   == d.open > d.close
             day     == IF night /\ clock < d.close THEN DayOf(wall) - 1 ELSE DayOf(wall)
             within  == IF night THEN clock >= d.open \/ clock < d.close
                        ELSE clock >= d.open /\ clock < d.close
             shift   == Greatest(Zones[d.zone].before - Zones[d.zone].after, 0)
             shown(w) == \E t \in (s.at - 2 * DayLength)..(s.at + 2 * DayLength) : Wall(d.zone, t) = w
             closing == Midnight(IF night THEN day + 1 ELSE day) + d.close
         IN /\ d.enabled /\ within /\ Weekday(day) \in d.weekdays /\ shown(Midnight(day) + d.open) /\ shown(closing)
                 => d.id \in s.active
            /\ s.active = {d.id} =>
                 s.since + s.left <= ((d.close - d.open) % DayLength) + shift
=============================================================================
