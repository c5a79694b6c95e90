------------------------------ MODULE NewsRisk ------------------------------
(***************************************************************************)
(* NewsRiskEngine of src/src/amrte/market/events.py and its provider of    *)
(* scheduled events: an event has versions that were published one after   *)
(* another, an analysis as of a time sees those published by then, and     *)
(* windows around the events that matter to an instrument restrict what    *)
(* may be researched.                                                      *)
(***************************************************************************)
EXTENDS Evidence, FiniteSetsExt, Store

CONSTANTS
  EventVersions,         \* the dataset: a set of EconomicEvent
  CoverageStart, CoverageEnd,
  Dimensions,            \* instrument_dimensions: [instruments -> SUBSET dimensions]
  EventWindows,          \* windows: [1..4 -> EventWindowPolicy], by importance
  UnknownAs,             \* unknown_importance_as
  NewsPolicy,            \* strategy_policy: [families -> [news states -> eligibility]]
  MaxNewsCache, MaxNewsHistory,
  Epochs                 \* bound: the recovery epochs that callers pass

VARIABLES
  provider,              \* the health of the provider
  assessments,           \* the cache of the engine
  newsHistory,
  newsReported               \* the latest snapshot and what it was asked for

newsVars == <<provider, assessments, newsHistory, newsReported>>

NewsHealth == {"HEALTHY", "DEGRADED", "STALE", "INCOMPLETE", "UNAVAILABLE", "INVALID"}

\* EventImportance: from LOW to CRITICAL, and UNKNOWN.
Importance == 1..5

\* One version of an event; active unless its event_status is cancelled or postponed.
EconomicEvent ==
  [id : Nat, logical : STRING, scheduled : Nat, known : Time, updated : Time, revision : Nat,
   importance : Importance, active : BOOLEAN, affects : SUBSET STRING]

EventWindowPolicy == [pre : Nat, before : Nat, after : Nat, post : Nat]

NewsConfiguration ==
  /\ \A i \in 1..4 : EventWindows[i] \in EventWindowPolicy
  /\ UnknownAs \in 1..4 /\ {MaxNewsCache, MaxNewsHistory} \subseteq Nat \ {0}

ASSUME NewsAssumption ==
  /\ NewsConfiguration /\ CoverageStart \in Int /\ CoverageEnd \in Int
  /\ \A e \in EventVersions : e \in EconomicEvent
  /\ \A e, f \in EventVersions : e.id = f.id => e = f

-----------------------------------------------------------------------------
\* Mutant: a version counts from when the event was first known.
PublishedOnceKnown(e, asOf) == e.known <= asOf

\* visible_at
Published(e, asOf) == e.known <= asOf /\ e.updated <= asOf

\* The order of the versions in the provider.
Older(e, f) ==
  \/ e.updated < f.updated
  \/ e.updated = f.updated /\ e.revision < f.revision
  \/ e.updated = f.updated /\ e.revision = f.revision /\ e.id < f.id

\* events_as_of: the latest published version of each event, if it is scheduled
\* within the horizon.
EventsAsOf(asOf, from, to) ==
  {e \in EventVersions :
     /\ Published(e, asOf) /\ e.scheduled \in from..to
     /\ \A f \in EventVersions : f.logical = e.logical /\ Published(f, asOf) /\ f # e => Older(f, e)}

\* relevance
Affects(e, instrument) == e.affects \cap Dimensions[instrument] # {}

ImportanceOf(e) == IF e.importance = 5 THEN UnknownAs ELSE e.importance

WindowOf(e) == EventWindows[ImportanceOf(e)]

\* _window
Blackout(e, asOf) ==
  e.scheduled - WindowOf(e).before <= asOf /\ asOf < e.scheduled + WindowOf(e).after

Stabilizing(e, asOf) ==
  /\ e.scheduled + WindowOf(e).after <= asOf
  /\ asOf < e.scheduled + WindowOf(e).after + WindowOf(e).post

Upcoming(e, asOf) ==
  e.scheduled - WindowOf(e).pre <= asOf /\ asOf < e.scheduled - WindowOf(e).before

\* _state_for: the worst of the events that are neither cancelled nor postponed.
NewsState(events, asOf) ==
  LET near == {ImportanceOf(e) : e \in {e \in events : e.active /\ Upcoming(e, asOf)}}
  IN IF \E e \in events : e.active /\ Blackout(e, asOf) THEN "BLACKOUT"
     ELSE IF \E e \in events : e.active /\ Stabilizing(e, asOf) THEN "POST_EVENT_STABILIZATION"
     ELSE IF near = {} THEN "CLEAR"
     ELSE <<"UPCOMING_LOW", "UPCOMING_MEDIUM", "UPCOMING_HIGH", "UPCOMING_CRITICAL">>[Max(near)]

\* _clusters: events whose windows overlap, one after another.
EventClusters(events) ==
  LET start(e)  == e.scheduled - WindowOf(e).pre
      end(e)    == e.scheduled + WindowOf(e).after + WindowOf(e).post
      begins(g) == ~\E h \in events : start(h) < start(g) /\ start(g) <= end(h)
      between(e, f) == {g \in events : start(e) < start(g) /\ start(g) <= start(f)}
      together(e, f) == \A g \in between(e, f) \cup between(f, e) : ~begins(g)
  IN {{f \in events : together(e, f)} : e \in events}

\* What the state means for research, and for a family of strategies.
NewsPolicyState(state) ==
  IF state \in {"BLACKOUT", "DATA_UNAVAILABLE", "INCOMPLETE_COVERAGE"} THEN "BLOCK_NEW_RESEARCH_EXPOSURE"
  ELSE IF state \in {"CLEAR", "UPCOMING_LOW"} THEN "ALLOW_CONTEXT" ELSE "RESTRICT_CONTEXT"

NewsEligibility(state) ==
  [f \in DOMAIN NewsPolicy |->
     LET stated == IF state \in DOMAIN NewsPolicy[f] THEN NewsPolicy[f][state] ELSE "UNKNOWN"
         policy == NewsPolicyState(state)
     IN IF policy = "BLOCK_NEW_RESEARCH_EXPOSURE" THEN "BLOCKED"
        ELSE IF policy = "RESTRICT_CONTEXT" /\ stated = "ELIGIBLE" THEN "RESTRICTED"
        ELSE stated]

-----------------------------------------------------------------------------
\* analyze, without its cache: the horizon reaches as far as the widest windows.
NewsSnapshot(asOf, instrument, epoch) ==
  LET from   == asOf - Max({w.after + w.post : w \in {EventWindows[i] : i \in 1..4}})
      to     == asOf + Max({w.pre : w \in {EventWindows[i] : i \in 1..4}})
      unfit  == provider \in {"UNAVAILABLE", "INVALID"}
      events == IF unfit THEN {} ELSE EventsAsOf(asOf, from, to)
      relevant == {e \in events : Affects(e, instrument) /\ e.active}
      state  == IF unfit THEN "DATA_UNAVAILABLE"
                ELSE IF provider = "STALE" THEN "DATA_STALE"
                ELSE IF CoverageStart > from \/ CoverageEnd < to THEN "INCOMPLETE_COVERAGE"
                ELSE NewsState(relevant, asOf)
  IN [state |-> state, relevant |-> {e.id : e \in relevant}, policy |-> NewsPolicyState(state),
      eligibility |-> NewsEligibility(state), clusters |-> Cardinality(EventClusters(relevant)),
      epoch |-> epoch]

\* analyze: the key of the cache holds neither the epoch nor the identity of
\* the configuration's snapshot.
AnalyzeNews(asOf, instrument, epoch) ==
  LET key      == <<asOf, instrument, provider>>
      cached   == Held(assessments, key)
      snapshot == IF cached THEN Entry(assessments, key).snapshot ELSE NewsSnapshot(asOf, instrument, epoch)
      others   == Without(assessments, key)
  IN /\ assessments' = Evicted(Append(others, [id |-> key, snapshot |-> snapshot]), MaxNewsCache)
     /\ newsHistory' = IF cached THEN newsHistory
                       ELSE LET h == Append(newsHistory, snapshot.state)
                            IN SubSeq(h, Greatest(1, Len(h) - MaxNewsHistory + 1), Len(h))
     /\ newsReported' = [asOf |-> asOf, instrument |-> instrument, health |-> provider, snapshot |-> snapshot]
     /\ UNCHANGED provider

\* set_health
SetNewsHealth(h) == h # provider /\ provider' = h /\ UNCHANGED <<assessments, newsHistory, newsReported>>

NewsInit == provider = "HEALTHY" /\ assessments = <<>> /\ newsHistory = <<>> /\ newsReported = None

NewsNext ==
  \/ \E t \in Time, i \in DOMAIN Dimensions, e \in Epochs : AnalyzeNews(t, i, e)
  \/ \E h \in NewsHealth : SetNewsHealth(h)

NewsSpec == NewsInit /\ [][NewsNext]_newsVars

-----------------------------------------------------------------------------
\* An analysis knows what had been published by its time, and nothing else: if
\* by then the last word on some event that matters to the instrument put the
\* time into its blackout, new research is blocked, whatever was announced
\* before or would be announced later, and whichever analyses came in between;
\* and where it reports a blackout there is such an event.  A provider that says
\* that its data is stale only restricts, also within a blackout it knows of.
BlackoutKept ==
  newsReported # None =>
    LET asOf     == newsReported.asOf
        told(l)  == {e \in EventVersions : e.logical = l /\ e.known <= asOf /\ e.updated <= asOf}
        lastWord == {e \in EventVersions :
                       e \in told(e.logical) /\ \A f \in told(e.logical) : f = e \/ Older(f, e)}
        inBlackout == {e \in lastWord : /\ e.active /\ e.affects \cap Dimensions[newsReported.instrument] # {}
                                        /\ asOf \in (e.scheduled - WindowOf(e).before)
                                                      ..(e.scheduled + WindowOf(e).after - 1)}
        blocked  == /\ newsReported.snapshot.policy = "BLOCK_NEW_RESEARCH_EXPOSURE"
                    /\ \A f \in DOMAIN NewsPolicy : newsReported.snapshot.eligibility[f] = "BLOCKED"
    IN /\ inBlackout # {} => blocked \/ newsReported.health = "STALE"
       /\ newsReported.snapshot.state = "BLACKOUT" => inBlackout # {}
       /\ newsReported.snapshot.state \in {"BLACKOUT", "POST_EVENT_STABILIZATION"}
            => newsReported.snapshot.relevant # {}
=============================================================================
