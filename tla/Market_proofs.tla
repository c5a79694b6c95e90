--------------------------- MODULE Market_proofs ---------------------------
(***************************************************************************)
(* The engines that read the market and judge what was read: that news     *)
(* blackouts are kept, that regimes are confirmed, that what is remembered *)
(* of a strategy is its own, that what is answered of a time is what was   *)
(* known then, that sessions follow the wall, that experiments are         *)
(* replayed as they were run, that a holdout is spent once, and that no    *)
(* confirmed swing is taken back.                                          *)
(***************************************************************************)
EXTENDS NewsRisk, Regime, Framework, MarketData, Sessions, Robustness, Structure, TLAPS

-----------------------------------------------------------------------------
(* News: blackouts are kept, also from the cache.                          *)

\* The events that matter to an instrument whose last word, as of a time, puts
\* that time into their blackout.
InBlackout(asOf, instrument) ==
  LET told(l)  == {e \in EventVersions : e.logical = l /\ e.known <= asOf /\ e.updated <= asOf}
      lastWord == {e \in EventVersions :
                     e \in told(e.logical) /\ \A f \in told(e.logical) : f = e \/ Older(f, e)}
  IN {e \in lastWord : /\ e.active /\ e.affects \cap Dimensions[instrument] # {}
                       /\ asOf \in (e.scheduled - WindowOf(e).before)
                                     ..(e.scheduled + WindowOf(e).after - 1)}

\* New research is blocked, for every family.
BlocksResearch(snapshot) ==
  /\ snapshot.policy = "BLOCK_NEW_RESEARCH_EXPOSURE"
  /\ \A f \in DOMAIN NewsPolicy : snapshot.eligibility[f] = "BLOCKED"

\* What BlackoutKept says of an answer.
SoundNews(asOf, instrument, h, snapshot) ==
  /\ InBlackout(asOf, instrument) # {} => BlocksResearch(snapshot) \/ h = "STALE"
  /\ snapshot.state = "BLACKOUT" => InBlackout(asOf, instrument) # {}
  /\ snapshot.state \in {"BLACKOUT", "POST_EVENT_STABILIZATION"} => snapshot.relevant # {}

\* A cached answer is one to its key.
SoundAnswer(e) == SoundNews(e.id[1], e.id[2], e.id[3], e.snapshot)

\* The inductive invariant.
NewsInvariant ==
  /\ \E S : assessments \in Seq(S) /\ \A e \in S : SoundAnswer(e)
  /\ newsReported # None =>
       SoundNews(newsReported.asOf, newsReported.instrument, newsReported.health,
                 newsReported.snapshot)

\* No blackout begins earlier before its event than the window before it: an
\* analysis looks no further ahead than the widest of these windows.
HorizonReaches == \A i \in 1..4 : EventWindows[i].before <= EventWindows[i].pre

\* The window of an event is one of the four, and the horizon reaches as far.
LEMMA WindowFacts ==
  ASSUME NEW e \in EventVersions
  PROVE  /\ ImportanceOf(e) \in 1..4 /\ e.scheduled \in Nat
         /\ WindowOf(e) \in EventWindowPolicy
         /\ WindowOf(e) \in {EventWindows[i] : i \in 1..4}
<1>1. /\ e.scheduled \in Nat /\ e.importance \in 1..5 /\ UnknownAs \in 1..4
      /\ \A i \in 1..4 : EventWindows[i] \in EventWindowPolicy
  BY NewsAssumption DEF NewsConfiguration, EconomicEvent, Importance
<1>2. ImportanceOf(e) \in 1..4
  BY <1>1 DEF ImportanceOf
<1>3. QED
  BY <1>1, <1>2 DEF WindowOf

\* The greatest of some natural numbers that belong to the windows.
LEMMA WidestOf ==
  ASSUME NEW f \in [1..4 -> Nat], NEW S, S = {f[i] : i \in 1..4}
  PROVE  Max(S) \in Nat /\ \A i \in 1..4 : f[i] <= Max(S)
<1> DEFINE n == f[1] + f[2] + f[3] + f[4]
<1>1. /\ f[1] \in Nat /\ f[2] \in Nat /\ f[3] \in Nat /\ f[4] \in Nat
  OBVIOUS
<1>2. n \in Nat /\ \A i \in 1..4 : f[i] \in 0..n
  <2>1. \A i \in 1..4 : i = 1 \/ i = 2 \/ i = 3 \/ i = 4
    OBVIOUS
  <2>2. n \in Nat /\ f[1] \in 0..n /\ f[2] \in 0..n /\ f[3] \in 0..n /\ f[4] \in 0..n
    BY <1>1
  <2> HIDE DEF n
  <2>3. QED
    BY <2>1, <2>2
<1> HIDE DEF n
<1>3. S \in SUBSET (0..n) /\ S # {} /\ \A i \in 1..4 : f[i] \in S
  <2>1. 1 \in 1..4
    OBVIOUS
  <2>2. QED
    BY <1>2, <2>1
<1>4. Max(S) \in S /\ \A k \in S : k <= Max(S)
  BY <1>2, <1>3, GreatestOf
<1>5. QED
  BY <1>2, <1>3, <1>4

\* The horizon of an analysis.
LEMMA HorizonFacts ==
  ASSUME NEW b, b = Max({w.after + w.post : w \in {EventWindows[i] : i \in 1..4}}),
         NEW a, a = Max({w.pre : w \in {EventWindows[i] : i \in 1..4}})
  PROVE  /\ a \in Nat /\ b \in Nat
         /\ \A i \in 1..4 : EventWindows[i].after <= b /\ EventWindows[i].pre <= a
<1> DEFINE behind == [i \in 1..4 |-> EventWindows[i].after + EventWindows[i].post]
           ahead == [i \in 1..4 |-> EventWindows[i].pre]
<1>1. \A i \in 1..4 : /\ EventWindows[i].pre \in Nat /\ EventWindows[i].after \in Nat
                      /\ EventWindows[i].post \in Nat
  BY NewsAssumption DEF NewsConfiguration, EventWindowPolicy
<1>2. behind \in [1..4 -> Nat] /\ ahead \in [1..4 -> Nat]
  BY <1>1
<1>3. /\ {w.after + w.post : w \in {EventWindows[i] : i \in 1..4}} = {behind[i] : i \in 1..4}
      /\ {w.pre : w \in {EventWindows[i] : i \in 1..4}} = {ahead[i] : i \in 1..4}
  OBVIOUS
<1>4. /\ \A i \in 1..4 : behind[i] = EventWindows[i].after + EventWindows[i].post
      /\ \A i \in 1..4 : ahead[i] = EventWindows[i].pre
  OBVIOUS
<1> HIDE DEF behind, ahead
<1>5. b \in Nat /\ \A i \in 1..4 : behind[i] <= b
  BY <1>2, <1>3, WidestOf
<1>6. a \in Nat /\ \A i \in 1..4 : ahead[i] <= a
  BY <1>2, <1>3, WidestOf
<1>7. QED
  BY <1>1, <1>4, <1>5, <1>6

\* A blackout that is reported is one of an event that is there.
LEMMA StateFacts ==
  ASSUME NEW events \in SUBSET EventVersions, NEW asOf
  PROVE  /\ NewsState(events, asOf) = "BLACKOUT" <=> \E e \in events : e.active /\ Blackout(e, asOf)
         /\ NewsState(events, asOf) = "POST_EVENT_STABILIZATION" => events # {}
<1> DEFINE near == {ImportanceOf(e) : e \in {x \in events : x.active /\ Upcoming(x, asOf)}}
           black == \E e \in events : e.active /\ Blackout(e, asOf)
           after == \E e \in events : e.active /\ Stabilizing(e, asOf)
           upcoming == <<"UPCOMING_LOW", "UPCOMING_MEDIUM", "UPCOMING_HIGH", "UPCOMING_CRITICAL">>[Max(near)]
<1>1. near # {} => upcoming \notin {"BLACKOUT", "POST_EVENT_STABILIZATION"}
  <2>1. near \in SUBSET (0..4) /\ \A k \in near : k \in 1..4
    BY WindowFacts
  <2>2. near # {} => Max(near) \in near
    <3> HIDE DEF near
    <3>1. QED
      BY <2>1, GreatestOf
  <2>3. near # {} => Max(near) \in 1..4
    <3> HIDE DEF near
    <3>1. QED
      BY <2>1, <2>2
  <2> HIDE DEF near
  <2>4. QED
    BY <2>3
<1>2. NewsState(events, asOf) = IF black THEN "BLACKOUT" ELSE IF after THEN "POST_EVENT_STABILIZATION"
                                ELSE IF near = {} THEN "CLEAR" ELSE upcoming
  BY Zenon DEF NewsState
<1>3. after => events # {}
  OBVIOUS
<1> HIDE DEF near, after, upcoming
<1>4. NewsState(events, asOf) = "BLACKOUT" <=> black
  BY <1>1, <1>2
<1>5. NewsState(events, asOf) = "POST_EVENT_STABILIZATION" => events # {}
  BY <1>1, <1>2, <1>3
<1>6. QED
  BY <1>4, <1>5

\* Where a state blocks, every family is blocked.
LEMMA EligibilityFacts ==
  ASSUME NEW state, NewsPolicyState(state) = "BLOCK_NEW_RESEARCH_EXPOSURE"
  PROVE  \A f \in DOMAIN NewsPolicy : NewsEligibility(state)[f] = "BLOCKED"
BY DEF NewsEligibility

\* The last word on an event that is in its blackout is within the horizon.
LEMMA BlackoutSeen ==
  ASSUME NEW asOf \in Time, NEW instrument, NEW e \in EventVersions, NEW from \in Int, NEW to \in Int,
         \A i \in 1..4 : from <= asOf - EventWindows[i].after /\ asOf + EventWindows[i].before <= to
  PROVE  e \in InBlackout(asOf, instrument) <=>
           e \in EventsAsOf(asOf, from, to) /\ Affects(e, instrument) /\ e.active /\ Blackout(e, asOf)
<1>1. /\ e.scheduled \in Nat /\ asOf \in Int
      /\ WindowOf(e).after \in Nat /\ WindowOf(e).before \in Nat
      /\ \E i \in 1..4 : WindowOf(e) = EventWindows[i]
  BY WindowFacts, EvidenceAssumption DEF EventWindowPolicy, Time
<1>2. from <= asOf - WindowOf(e).after /\ asOf + WindowOf(e).before <= to
  BY <1>1
<1>3. asOf \in (e.scheduled - WindowOf(e).before)..(e.scheduled + WindowOf(e).after - 1) <=> Blackout(e, asOf)
  BY <1>1 DEF Blackout
<1>4. Blackout(e, asOf) => e.scheduled \in from..to
  BY <1>1, <1>2 DEF Blackout
<1>5. e \in InBlackout(asOf, instrument) <=>
        /\ Published(e, asOf)
        /\ \A f \in EventVersions : f.logical = e.logical /\ Published(f, asOf) => f = e \/ Older(f, e)
        /\ e.active /\ Affects(e, instrument) /\ Blackout(e, asOf)
  BY <1>3 DEF InBlackout, Published, Affects
<1>6. e \in EventsAsOf(asOf, from, to) <=>
        /\ Published(e, asOf) /\ e.scheduled \in from..to
        /\ \A f \in EventVersions : f.logical = e.logical /\ Published(f, asOf) /\ f # e => Older(f, e)
  BY DEF EventsAsOf
<1>7. QED
  BY <1>4, <1>5, <1>6

\* An analysis answers what it is asked for.
LEMMA SnapshotFacts ==
  ASSUME HorizonReaches, NEW asOf \in Time, NEW instrument, NEW epoch
  PROVE  SoundNews(asOf, instrument, provider, NewsSnapshot(asOf, instrument, epoch))
<1> DEFINE behind == Max({w.after + w.post : w \in {EventWindows[i] : i \in 1..4}})
           ahead == Max({w.pre : w \in {EventWindows[i] : i \in 1..4}})
           from == asOf - behind
           to == asOf + ahead
           unfit == provider \in {"UNAVAILABLE", "INVALID"}
           events == IF unfit THEN {} ELSE EventsAsOf(asOf, from, to)
           relevant == {e \in events : Affects(e, instrument) /\ e.active}
           state == IF unfit THEN "DATA_UNAVAILABLE"
                    ELSE IF provider = "STALE" THEN "DATA_STALE"
                    ELSE IF CoverageStart > from \/ CoverageEnd < to THEN "INCOMPLETE_COVERAGE"
                    ELSE NewsState(relevant, asOf)
           snapshot == NewsSnapshot(asOf, instrument, epoch)
           ids == {e.id : e \in relevant}
<1>1. /\ snapshot.state = state /\ snapshot.policy = NewsPolicyState(state)
      /\ snapshot.eligibility = NewsEligibility(state) /\ snapshot.relevant = ids
  BY DEF NewsSnapshot
<1>2. /\ from \in Int /\ to \in Int
      /\ \A i \in 1..4 : from <= asOf - EventWindows[i].after /\ asOf + EventWindows[i].before <= to
  <2>1. /\ ahead \in Nat /\ behind \in Nat
        /\ \A i \in 1..4 : EventWindows[i].after <= behind /\ EventWindows[i].pre <= ahead
    BY HorizonFacts
  <2>2. asOf \in Int /\ \A i \in 1..4 : /\ EventWindows[i].after \in Nat /\ EventWindows[i].pre \in Nat
                                        /\ EventWindows[i].before \in Nat
                                        /\ EventWindows[i].before <= EventWindows[i].pre
    BY NewsAssumption, EvidenceAssumption DEF NewsConfiguration, EventWindowPolicy, HorizonReaches, Time
  <2> HIDE DEF ahead, behind
  <2>3. QED
    BY <2>1, <2>2
<1> HIDE DEF behind, ahead, from, to
<1>3. \A e \in EventVersions :
        e \in InBlackout(asOf, instrument) <=>
          e \in EventsAsOf(asOf, from, to) /\ Affects(e, instrument) /\ e.active /\ Blackout(e, asOf)
  BY <1>2, BlackoutSeen
<1>4. InBlackout(asOf, instrument) \subseteq EventVersions /\ relevant \subseteq EventVersions
  BY DEF InBlackout, EventsAsOf
<1>5. ~unfit => (InBlackout(asOf, instrument) # {} <=> \E e \in relevant : e.active /\ Blackout(e, asOf))
  BY <1>3, <1>4
<1>6. /\ NewsState(relevant, asOf) = "BLACKOUT" <=> \E e \in relevant : e.active /\ Blackout(e, asOf)
      /\ NewsState(relevant, asOf) = "POST_EVENT_STABILIZATION" => relevant # {}
  BY <1>4, StateFacts
<1>7. relevant # {} => ids # {}
  OBVIOUS
<1>8. state = "BLACKOUT" => ~unfit /\ relevant # {} /\ InBlackout(asOf, instrument) # {}
  <2> HIDE DEF relevant
  <2>1. state = "BLACKOUT" => ~unfit /\ NewsState(relevant, asOf) = "BLACKOUT"
    OBVIOUS
  <2>2. QED
    BY <1>5, <1>6, <2>1
<1>9. state = "POST_EVENT_STABILIZATION" => relevant # {}
  <2> HIDE DEF relevant
  <2>1. state = "POST_EVENT_STABILIZATION" => NewsState(relevant, asOf) = "POST_EVENT_STABILIZATION"
    OBVIOUS
  <2>2. QED
    BY <1>6, <2>1
<1>10. InBlackout(asOf, instrument) # {} =>
         state \in {"BLACKOUT", "DATA_UNAVAILABLE", "INCOMPLETE_COVERAGE"} \/ provider = "STALE"
  <2> HIDE DEF relevant
  <2>1. QED
    BY <1>5, <1>6
<1> HIDE DEF state, relevant, ids, snapshot
<1>11. state \in {"BLACKOUT", "DATA_UNAVAILABLE", "INCOMPLETE_COVERAGE"} => BlocksResearch(snapshot)
  <2>1. state \in {"BLACKOUT", "DATA_UNAVAILABLE", "INCOMPLETE_COVERAGE"}
          => NewsPolicyState(state) = "BLOCK_NEW_RESEARCH_EXPOSURE"
    BY DEF NewsPolicyState
  <2>2. QED
    BY <1>1, <2>1, EligibilityFacts DEF BlocksResearch
<1>12. SoundNews(asOf, instrument, provider, snapshot)
  BY <1>1, <1>7, <1>8, <1>9, <1>10, <1>11 DEF SoundNews
<1>13. QED
  BY <1>12 DEF snapshot

\* An answer more in a cache of answers.
LEMMA AnswerCached ==
  ASSUME NEW S, NEW cache \in Seq(S), \A x \in S : SoundAnswer(x), NEW e, SoundAnswer(e),
         NEW limit \in Nat
  PROVE  \E T : Evicted(Append(cache, e), limit) \in Seq(T) /\ \A x \in T : SoundAnswer(x)
<1> DEFINE T == S \cup {e}
<1>1. \A x \in T : SoundAnswer(x)
  OBVIOUS
<1>2. Append(cache, e) \in Seq(T)
  <2>1. cache \in Seq(T) /\ e \in T
    OBVIOUS
  <2> HIDE DEF T
  <2>2. QED
    BY <2>1
<1> HIDE DEF T
<1>3. Evicted(Append(cache, e), limit) \in Seq(T)
  BY <1>2, EvictedFacts
<1>4. QED
  BY <1>1, <1>3

\* An analysis keeps the invariant.
LEMMA AnalyzeNewsKeeps ==
  ASSUME HorizonReaches, NewsInvariant, NEW asOf \in Time, NEW instrument, NEW epoch,
         AnalyzeNews(asOf, instrument, epoch)
  PROVE  NewsInvariant'
<1> DEFINE key == <<asOf, instrument, provider>>
           cached == Held(assessments, key)
           snapshot == IF cached THEN Entry(assessments, key).snapshot
                       ELSE NewsSnapshot(asOf, instrument, epoch)
           entry == [id |-> key, snapshot |-> snapshot]
<1>1. PICK S : assessments \in Seq(S) /\ \A e \in S : SoundAnswer(e)
  BY DEF NewsInvariant
<1>2. /\ assessments' = Evicted(Append(Without(assessments, key), entry), MaxNewsCache)
      /\ newsReported' = [asOf |-> asOf, instrument |-> instrument, health |-> provider,
                          snapshot |-> snapshot]
  BY DEF AnalyzeNews
<1>3. SoundNews(asOf, instrument, provider, snapshot)
  <2>1. CASE cached
    <3>1. Entry(assessments, key) \in S /\ Entry(assessments, key).id = key
      BY <1>1, <2>1, EntryFacts
    <3>2. SoundNews(asOf, instrument, provider, Entry(assessments, key).snapshot)
      BY <1>1, <3>1 DEF SoundAnswer
    <3>3. QED
      BY <2>1, <3>2
  <2>2. CASE ~cached
    BY <2>2, SnapshotFacts
  <2>3. QED
    BY <2>1, <2>2
<1> HIDE DEF snapshot
<1>4. SoundAnswer(entry)
  BY <1>3 DEF SoundAnswer
<1> HIDE DEF entry, key
<1>5. Without(assessments, key) \in Seq(S)
  BY <1>1, WithoutFacts
<1>6. MaxNewsCache \in Nat
  BY NewsAssumption DEF NewsConfiguration
<1>7. \E T : assessments' \in Seq(T) /\ \A x \in T : SoundAnswer(x)
  BY <1>1, <1>2, <1>4, <1>5, <1>6, AnswerCached
<1>8. SoundNews(newsReported'.asOf, newsReported'.instrument, newsReported'.health, newsReported'.snapshot)
  BY <1>2, <1>3
<1>9. QED
  BY <1>7, <1>8 DEF NewsInvariant, SoundAnswer, SoundNews, InBlackout, BlocksResearch

\* Every step keeps the invariant.
LEMMA NextNews ==
  ASSUME HorizonReaches, NewsInvariant, [NewsNext]_newsVars
  PROVE  NewsInvariant'
<1>1. CASE \E t \in Time, i \in DOMAIN Dimensions, e \in Epochs : AnalyzeNews(t, i, e)
  BY <1>1, AnalyzeNewsKeeps
<1>2. CASE UNCHANGED <<assessments, newsReported>>
  BY <1>2 DEF NewsInvariant
<1>3. QED
  BY <1>1, <1>2 DEF NewsNext, SetNewsHealth, newsVars

\* The invariant implies the property.
LEMMA InvariantKeepsBlackouts == NewsInvariant => BlackoutKept
BY DEF NewsInvariant, BlackoutKept, SoundNews, InBlackout, BlocksResearch

\* NewsRiskEngine: where no blackout begins before the window before its event,
\* new research is blocked in every blackout that had been published by the time
\* asked for, for every dataset of events, every set of windows and every size of
\* the cache, and no blackout is reported that there is not.
THEOREM BlackoutsAreKept ==
  ASSUME HorizonReaches
  PROVE  NewsSpec => []BlackoutKept
<1>1. NewsInit => NewsInvariant
  <2> SUFFICES ASSUME NewsInit PROVE NewsInvariant
    OBVIOUS
  <2> DEFINE S == {}
  <2>1. <<>> \in Seq(S) /\ \A e \in S : SoundAnswer(e)
    OBVIOUS
  <2> HIDE DEF S
  <2>2. QED
    BY <2>1 DEF NewsInit, NewsInvariant
<1>2. NewsInvariant /\ [NewsNext]_newsVars => NewsInvariant'
  BY NextNews
<1>3. QED
  BY <1>1, <1>2, InvariantKeepsBlackouts, PTL DEF NewsSpec

-----------------------------------------------------------------------------
(* Regimes: what is published was proposed as often as must be confirmed.  *)

Regimes == {Proposed[o].candidate : o \in RegimeInputs} \cup {"UNKNOWN", "ABNORMAL"}

\* An analysis in the history of the proofs, and an entry in that of the engine.
RegimeAnalysis ==
  [candidate : Regimes, winning : {Proposed[o].winning : o \in RegimeInputs},
   from : Regimes, to : Regimes]

RegimeEntry == [regime : Regimes, snapshot : {o.snapshot : o \in RegimeInputs}, duration : Nat]

RegimeState ==
  [stable : Regimes, candidate : Regimes, count : Nat, persistence : Nat, cooldown : Nat,
   unknown : Nat, history : Seq(RegimeEntry)]

\* What RegimeConfirmed says of the k-th analysis.
WellConfirmed(s, k) ==
  LET a     == s[k]
      again == {j \in 1..(k - 1) : s[j].candidate \in {a.from, "ABNORMAL"}}
      since == IF again = {} THEN 0 ELSE Max(again)
      proposed == {j \in (since + 1)..k : s[j].candidate = a.to}
      entered  == {j \in 1..(k - 1) : s[j].to = a.from /\ s[j].from # a.from}
  IN /\ a.candidate = "ABNORMAL" => a.to = "ABNORMAL"
     /\ a.to # a.from /\ a.to # "ABNORMAL" =>
          /\ a.candidate = a.to /\ a.winning >= EntryScore
          /\ Cardinality(proposed) >= Confirmations
          /\ a.from # "UNKNOWN" /\ entered # {} => k - Max(entered) >= MinimumPersistence

\* The proposals of a regime since another one, or an abnormal one, was proposed.
ProposedSince(s, candidate, stable) ==
  {j \in DOMAIN s : /\ s[j].candidate = candidate
                    /\ \A i \in j..Len(s) : s[i].candidate \notin {stable, "ABNORMAL"}}

\* The engine counts no more proposals, and no longer a persistence, than there were.
SoundRegime(r, s) ==
  /\ r.candidate # r.stable => r.count <= Cardinality(ProposedSince(s, r.candidate, r.stable))
  /\ \A j \in DOMAIN s : s[j].to = r.stable /\ s[j].from # r.stable => r.persistence <= Len(s) - j + 1

\* The inductive invariant, of an engine and what it analyzed.
RegimeStates ==
  {x \in [regime : RegimeState, analyzed : Seq(RegimeAnalysis)] :
     SoundRegime(x.regime, x.analyzed) /\ \A k \in DOMAIN x.analyzed : WellConfirmed(x.analyzed, k)}

RegimeInvariant == [regime |-> regime, analyzed |-> analyzed] \in RegimeStates

\* What is proposed next.
ProposalNext(r, proposed, n) ==
  \/ /\ proposed.candidate = "ABNORMAL"
     /\ n.stable = "ABNORMAL" /\ n.candidate = "ABNORMAL" /\ n.persistence = 1
  \/ /\ proposed.candidate # "ABNORMAL" /\ proposed.candidate = r.stable
     /\ n.stable = r.stable /\ n.candidate = r.stable /\ n.persistence = r.persistence + 1
  \/ /\ proposed.candidate \notin {"ABNORMAL", r.stable}
     /\ n.stable = r.stable /\ n.candidate = r.candidate /\ n.count = r.count
     /\ n.persistence \in {r.persistence, r.persistence + 1}
  \/ /\ proposed.candidate \notin {"ABNORMAL", r.stable}
     /\ n.candidate = proposed.candidate
     /\ n.count = IF proposed.candidate = r.candidate THEN r.count + 1 ELSE 1
     /\ \/ n.stable = r.stable /\ n.persistence = r.persistence
        \/ /\ n.stable = proposed.candidate /\ n.persistence = 1 /\ n.count >= Confirmations
           /\ proposed.winning >= EntryScore
           /\ r.stable # "UNKNOWN" => r.persistence >= MinimumPersistence

\* A candidate that is counted.
LEMMA CountedFacts ==
  ASSUME NEW r \in RegimeState, NEW candidate \in Regimes, NEW winning
  PROVE  LET n == Counted(r, candidate, winning)
             count == IF candidate = r.candidate THEN r.count + 1 ELSE 1
         IN /\ n \in RegimeState /\ n.history = r.history
            /\ n.candidate = candidate /\ n.count = count
            /\ \/ n.stable = r.stable /\ n.persistence = r.persistence
               \/ /\ n.stable = candidate /\ n.persistence = 1 /\ count >= Confirmations
                  /\ winning >= EntryScore
<1> DEFINE count == IF candidate = r.candidate THEN r.count + 1 ELSE 1
           n == Counted(r, candidate, winning)
<1>1. count \in Nat /\ RegimeCooldown \in Nat
  BY RegimeAssumption DEF RegimeState, RegimeConfiguration
<1>2. r = [stable |-> r.stable, candidate |-> r.candidate, count |-> r.count,
           persistence |-> r.persistence, cooldown |-> r.cooldown, unknown |-> r.unknown,
           history |-> r.history]
  BY DEF RegimeState
<1>3. CASE winning >= EntryScore /\ count >= Confirmations
  <2>1. n = [stable |-> candidate, candidate |-> candidate, count |-> count, persistence |-> 1,
             cooldown |-> RegimeCooldown, unknown |-> 0, history |-> r.history]
    BY <1>2, <1>3 DEF Counted
  <2> HIDE DEF count, n
  <2>2. n \in RegimeState
    BY <1>1, <2>1 DEF RegimeState
  <2>3. QED
    BY <1>3, <2>1, <2>2 DEF count, n
<1>4. CASE ~(winning >= EntryScore /\ count >= Confirmations)
  <2>1. n = [stable |-> r.stable, candidate |-> candidate, count |-> count,
             persistence |-> r.persistence, cooldown |-> r.cooldown, unknown |-> r.unknown,
             history |-> r.history]
    BY <1>2, <1>4 DEF Counted
  <2> HIDE DEF count, n
  <2>2. n \in RegimeState
    BY <1>1, <2>1 DEF RegimeState
  <2>3. QED
    BY <2>1, <2>2 DEF count, n
<1>5. QED
  BY <1>3, <1>4

\* What is published next.
LEMMA PublishFacts ==
  ASSUME NEW r \in RegimeState, NEW proposed, proposed.candidate \in Regimes
  PROVE  /\ Publish(r, proposed) \in RegimeState /\ Publish(r, proposed).history = r.history
         /\ ProposalNext(r, proposed, Publish(r, proposed))
<1> DEFINE candidate == proposed.candidate
           u == IF candidate = "UNKNOWN" THEN [r EXCEPT !.unknown = r.unknown + 1] ELSE r
           n == Publish(r, proposed)
           fallen == /\ ~(r.stable \in Ordinary /\ proposed.scores[r.stable] >= ExitScore)
                     /\ ~(r.stable # "UNKNOWN" /\ r.persistence < MinimumPersistence)
<1>1. /\ r = [stable |-> r.stable, candidate |-> r.candidate, count |-> r.count,
              persistence |-> r.persistence, cooldown |-> r.cooldown, unknown |-> r.unknown,
              history |-> r.history]
      /\ r.stable \in Regimes /\ r.candidate \in Regimes /\ r.count \in Nat /\ r.persistence \in Nat
      /\ r.cooldown \in Nat /\ r.unknown \in Nat /\ r.history \in Seq(RegimeEntry)
      /\ "ABNORMAL" \in Regimes /\ candidate \in Regimes /\ MinimumPersistence \in Nat
  BY RegimeAssumption DEF RegimeState, Regimes, RegimeConfiguration
<1>2. PICK v \in Nat : u = [stable |-> r.stable, candidate |-> r.candidate, count |-> r.count,
              persistence |-> r.persistence, cooldown |-> r.cooldown, unknown |-> v,
              history |-> r.history]
  <2>1. CASE candidate = "UNKNOWN"
    <3>1. /\ u = [stable |-> r.stable, candidate |-> r.candidate, count |-> r.count,
                  persistence |-> r.persistence, cooldown |-> r.cooldown, unknown |-> r.unknown + 1,
                  history |-> r.history]
          /\ r.unknown + 1 \in Nat
      BY <1>1, <2>1
    <3>2. QED
      BY <3>1
  <2>2. CASE candidate # "UNKNOWN"
    BY <1>1, <2>2
  <2>3. QED
    BY <2>1, <2>2
<1>3. u \in RegimeState
  BY <1>1, <1>2 DEF RegimeState
<1>4. CASE candidate = "ABNORMAL"
  <2>1. n = [stable |-> candidate, candidate |-> candidate, count |-> 1, persistence |-> 1,
             cooldown |-> 0, unknown |-> r.unknown, history |-> r.history]
    BY <1>1, <1>4 DEF Publish
  <2> HIDE DEF n
  <2>2. n \in RegimeState
    BY <1>1, <2>1 DEF RegimeState
  <2>3. ProposalNext(r, proposed, n)
    BY <1>4, <2>1 DEF ProposalNext
  <2>4. QED
    BY <2>1, <2>2, <2>3 DEF n
<1>5. CASE candidate # "ABNORMAL" /\ candidate = r.stable
  <2>1. n = [stable |-> r.stable, candidate |-> candidate, count |-> 0,
             persistence |-> r.persistence + 1, cooldown |-> Greatest(0, r.cooldown - 1),
             unknown |-> 0, history |-> r.history]
    BY <1>1, <1>5 DEF Publish
  <2>2. Greatest(0, r.cooldown - 1) \in Nat
    BY <1>1 DEF Greatest
  <2> HIDE DEF n
  <2>3. n \in RegimeState
    BY <1>1, <2>1, <2>2 DEF RegimeState
  <2>4. ProposalNext(r, proposed, n)
    BY <1>5, <2>1 DEF ProposalNext
  <2>5. QED
    BY <2>1, <2>3, <2>4 DEF n
<1>6. CASE candidate \notin {"ABNORMAL", r.stable}
  <2>1. \/ n = u
        \/ n = [u EXCEPT !.persistence = r.persistence + 1]
        \/ r.cooldown > 0 /\ n = [u EXCEPT !.cooldown = r.cooldown - 1]
        \/ fallen /\ n = Counted(u, candidate, proposed.winning)
    BY <1>6, Zenon DEF Publish
  <2> HIDE DEF u, n
  <2>2. CASE n = u
    <3>1. ProposalNext(r, proposed, n)
      BY <1>2, <1>6, <2>2 DEF ProposalNext
    <3>2. QED
      BY <1>2, <1>3, <2>2, <3>1 DEF n
  <2>3. CASE n = [u EXCEPT !.persistence = r.persistence + 1]
    <3>1. n = [stable |-> r.stable, candidate |-> r.candidate, count |-> r.count,
               persistence |-> r.persistence + 1, cooldown |-> r.cooldown, unknown |-> v,
               history |-> r.history]
      BY <1>2, <2>3
    <3>2. n \in RegimeState
      BY <1>1, <3>1 DEF RegimeState
    <3>3. ProposalNext(r, proposed, n)
      BY <1>6, <3>1 DEF ProposalNext
    <3>4. QED
      BY <3>1, <3>2, <3>3 DEF n
  <2>4. CASE r.cooldown > 0 /\ n = [u EXCEPT !.cooldown = r.cooldown - 1]
    <3>1. n = [stable |-> r.stable, candidate |-> r.candidate, count |-> r.count,
               persistence |-> r.persistence, cooldown |-> r.cooldown - 1, unknown |-> v,
               history |-> r.history]
      BY <1>2, <2>4
    <3>2. n \in RegimeState
      <4>1. r.cooldown - 1 \in Nat
        BY <1>1, <2>4
      <4>2. QED
        BY <1>1, <3>1, <4>1 DEF RegimeState
    <3>3. ProposalNext(r, proposed, n)
      BY <1>6, <3>1 DEF ProposalNext
    <3>4. QED
      BY <3>1, <3>2, <3>3 DEF n
  <2>5. CASE fallen /\ n = Counted(u, candidate, proposed.winning)
    <3>1. /\ u.stable = r.stable /\ u.candidate = r.candidate /\ u.count = r.count
          /\ u.persistence = r.persistence /\ u.history = r.history
      BY <1>2
    <3>2. /\ n \in RegimeState /\ n.history = r.history /\ n.candidate = candidate
          /\ n.count = IF candidate = r.candidate THEN r.count + 1 ELSE 1
          /\ \/ n.stable = r.stable /\ n.persistence = r.persistence
             \/ /\ n.stable = candidate /\ n.persistence = 1 /\ n.count >= Confirmations
                /\ proposed.winning >= EntryScore
      <4> HIDE DEF candidate
      <4>1. candidate \in Regimes
        BY <1>1
      <4>2. QED
        BY <1>3, <2>5, <3>1, <4>1, CountedFacts
    <3>3. r.stable # "UNKNOWN" => r.persistence >= MinimumPersistence
      BY <1>1, <2>5
    <3>4. ProposalNext(r, proposed, n)
      BY <1>6, <3>2, <3>3 DEF ProposalNext
    <3>5. QED
      BY <3>2, <3>4 DEF n
  <2>6. QED
    BY <2>1, <2>2, <2>3, <2>4, <2>5
<1>7. QED
  BY <1>4, <1>5, <1>6

\* What was well confirmed stays so.
LEMMA StaysConfirmed ==
  ASSUME NEW s \in Seq(RegimeAnalysis), NEW e, NEW k \in DOMAIN s, WellConfirmed(s, k)
  PROVE  WellConfirmed(Append(s, e), k)
<1> DEFINE b == Append(s, e)
           Again(x)   == {j \in 1..(k - 1) : x[j].candidate \in {x[k].from, "ABNORMAL"}}
           Since(x)   == IF Again(x) = {} THEN 0 ELSE Max(Again(x))
           Counts(x)  == {j \in (Since(x) + 1)..k : x[j].candidate = x[k].to}
           Entered(x) == {j \in 1..(k - 1) : x[j].to = x[k].from /\ x[j].from # x[k].from}
<1>1. Len(s) \in Nat /\ DOMAIN s = 1..Len(s) /\ k \in 1..Len(s) /\ \A j \in 1..k : b[j] = s[j]
  OBVIOUS
<1>2. b[k] = s[k]
  BY <1>1
<1> HIDE DEF b
<1>3. Again(b) = Again(s) /\ Entered(b) = Entered(s)
  BY <1>1, <1>2
<1>4. Since(b) = Since(s)
  BY <1>3
<1>5. Since(s) \in Nat
  <2>1. k \in Nat /\ Again(s) \in SUBSET (0..k)
    BY <1>1
  <2> HIDE DEF Again
  <2>2. Again(s) # {} => Max(Again(s)) \in Again(s)
    BY <2>1, GreatestOf
  <2>3. QED
    BY <2>1, <2>2
<1>6. Counts(b) = Counts(s)
  <2> HIDE DEF Since
  <2>1. \A j \in (Since(s) + 1)..k : b[j] = s[j]
    BY <1>1, <1>5
  <2>2. QED
    BY <1>2, <1>4, <2>1
<1>7. \A x : WellConfirmed(x, k) <=>
        /\ x[k].candidate = "ABNORMAL" => x[k].to = "ABNORMAL"
        /\ x[k].to # x[k].from /\ x[k].to # "ABNORMAL" =>
             /\ x[k].candidate = x[k].to /\ x[k].winning >= EntryScore
             /\ Cardinality(Counts(x)) >= Confirmations
             /\ x[k].from # "UNKNOWN" /\ Entered(x) # {} => k - Max(Entered(x)) >= MinimumPersistence
  BY Zenon DEF WellConfirmed
<1> HIDE DEF Again, Since, Counts, Entered
<1>8. QED
  BY <1>2, <1>3, <1>6, <1>7 DEF b

\* A proposal more, of another regime than the one that is published.
LEMMA SinceMore ==
  ASSUME NEW s \in Seq(RegimeAnalysis), NEW e \in RegimeAnalysis, NEW stable, NEW c,
         e.candidate \notin {stable, "ABNORMAL"}
  PROVE  /\ Cardinality(ProposedSince(s, c, stable)) <= Cardinality(ProposedSince(Append(s, e), c, stable))
         /\ e.candidate = c => Cardinality(ProposedSince(s, c, stable)) + 1
                                 <= Cardinality(ProposedSince(Append(s, e), c, stable))
<1> DEFINE n == Len(s)
           b == Append(s, e)
           S == ProposedSince(s, c, stable)
           T == ProposedSince(b, c, stable)
<1>1. /\ n \in Nat /\ DOMAIN s = 1..n /\ b \in Seq(RegimeAnalysis) /\ Len(b) = n + 1
      /\ DOMAIN b = 1..(n + 1) /\ b[n + 1] = e /\ \A j \in 1..n : b[j] = s[j]
  OBVIOUS
<1>2. S \subseteq 1..n /\ T \subseteq 1..(n + 1)
  BY <1>1 DEF ProposedSince
<1>3. ASSUME NEW j \in S PROVE j \in T
  <2>1. j \in 1..n /\ s[j].candidate = c /\ \A i \in j..n : s[i].candidate \notin {stable, "ABNORMAL"}
    BY <1>1, <1>3 DEF ProposedSince
  <2> HIDE DEF b
  <2>2. j \in 1..(n + 1) /\ b[j].candidate = c
    BY <1>1, <2>1
  <2>3. ASSUME NEW i \in j..(n + 1) PROVE b[i].candidate \notin {stable, "ABNORMAL"}
    <3>1. i = n + 1 \/ (i \in j..n /\ i \in 1..n)
      BY <1>1, <2>1
    <3>2. QED
      BY <1>1, <2>1, <3>1
  <2>4. QED
    BY <1>1, <2>2, <2>3 DEF ProposedSince
<1>4. IsFiniteSet(S) /\ Cardinality(S) \in Nat /\ IsFiniteSet(T) /\ Cardinality(T) \in Nat
  <2>1. n + 1 \in Nat
    BY <1>1
  <2> HIDE DEF S, T, n
  <2>2. QED
    BY <1>1, <1>2, <2>1, PositionsFinite
<1>5. Cardinality(S) <= Cardinality(T)
  <2> HIDE DEF S, T
  <2>1. S \subseteq T
    BY <1>3
  <2>2. QED
    BY <1>4, <2>1, FS_Subset
<1>6. ASSUME e.candidate = c PROVE Cardinality(S) + 1 <= Cardinality(T)
  <2>1. n + 1 \in T
    <3> HIDE DEF b
    <3>1. \A i \in (n + 1)..(n + 1) : i = n + 1
      BY <1>1
    <3>2. n + 1 \in 1..(n + 1)
      BY <1>1
    <3>3. QED
      BY <1>1, <1>6, <3>1, <3>2 DEF ProposedSince
  <2>2. n + 1 \notin S
    BY <1>1, <1>2
  <2> HIDE DEF S, T, n
  <2>3. Cardinality(S \cup {n + 1}) = Cardinality(S) + 1 /\ S \cup {n + 1} \subseteq T
    BY <1>3, <1>4, <2>1, <2>2, FS_AddElement
  <2>4. QED
    BY <1>4, <2>3, FS_Subset
<1>7. QED
  BY <1>5, <1>6

\* The proposals that RegimeConfirmed counts for the latest analysis.
LEMMA CountedSince ==
  ASSUME NEW b \in Seq(RegimeAnalysis), NEW k \in Nat \ {0}, k = Len(b),
         b[k].candidate \notin {b[k].from, "ABNORMAL"},
         NEW again, again = {j \in 1..(k - 1) : b[j].candidate \in {b[k].from, "ABNORMAL"}},
         NEW since, since = IF again = {} THEN 0 ELSE Max(again)
  PROVE  {j \in (since + 1)..k : b[j].candidate = b[k].to} = ProposedSince(b, b[k].to, b[k].from)
<1>1. DOMAIN b = 1..k
  OBVIOUS
<1>2. again # {} => since \in again /\ \A i \in again : i <= since
  <2>1. again \in SUBSET (0..k)
    OBVIOUS
  <2>2. again # {} => Max(again) \in again /\ \A i \in again : i <= Max(again)
    BY <2>1, GreatestOf
  <2>3. QED
    BY <2>2
<1>3. since \in Nat /\ since < k
  BY <1>2
<1>4. ASSUME NEW j \in 1..k
      PROVE  j \in (since + 1)..k <=> \A i \in j..k : b[i].candidate \notin {b[k].from, "ABNORMAL"}
  <2>1. ASSUME j \in (since + 1)..k, NEW i \in j..k
        PROVE  b[i].candidate \notin {b[k].from, "ABNORMAL"}
    <3>1. i = k \/ (i \in 1..(k - 1) /\ i > since)
      BY <1>3, <2>1
    <3>2. CASE i \in 1..(k - 1) /\ i > since
      <4>1. i \notin again
        BY <1>2, <1>3, <3>2
      <4>2. QED
        BY <3>2, <4>1
    <3>3. QED
      BY <3>1, <3>2
  <2>2. ASSUME j \notin (since + 1)..k
        PROVE  \E i \in j..k : b[i].candidate \in {b[k].from, "ABNORMAL"}
    <3>1. j <= since /\ again # {}
      BY <1>3, <2>2
    <3>2. since \in j..k /\ since \in again
      BY <1>2, <1>3, <3>1
    <3>3. QED
      BY <3>2
  <2>3. QED
    BY <2>1, <2>2
<1>5. ASSUME NEW j \in (since + 1)..k PROVE j \in 1..k
  BY <1>3, <1>5
<1>6. QED
  BY <1>1, <1>4, <1>5 DEF ProposedSince
\* What is published next, and the analysis it is from.
RegimeStep(r, s, proposed, q, e) ==
  /\ r \in RegimeState /\ s \in Seq(RegimeAnalysis) /\ SoundRegime(r, s)
  /\ q \in RegimeState /\ ProposalNext(r, proposed, q) /\ e \in RegimeAnalysis
  /\ e = [candidate |-> proposed.candidate, winning |-> proposed.winning,
          from |-> r.stable, to |-> q.stable]

\* The engine counts no more than there was.
LEMMA CountsSound ==
  ASSUME NEW r, NEW s, NEW proposed, NEW q, NEW e, RegimeStep(r, s, proposed, q, e)
  PROVE  q.candidate # q.stable
           => q.count <= Cardinality(ProposedSince(Append(s, e), q.candidate, q.stable))
<1>1. /\ r \in RegimeState /\ s \in Seq(RegimeAnalysis) /\ q \in RegimeState /\ e \in RegimeAnalysis
      /\ ProposalNext(r, proposed, q) /\ r.count \in Nat /\ q.count \in Nat
      /\ e.candidate = proposed.candidate
      /\ r.candidate # r.stable => r.count <= Cardinality(ProposedSince(s, r.candidate, r.stable))
  BY DEF RegimeStep, SoundRegime, RegimeState
<1> DEFINE Of(c) == Cardinality(ProposedSince(s, c, r.stable))
           Next(c) == Cardinality(ProposedSince(Append(s, e), c, r.stable))
<1>2. ASSUME q.candidate # q.stable
      PROVE  /\ proposed.candidate \notin {"ABNORMAL", r.stable} /\ q.stable = r.stable
             /\ \/ q.candidate = r.candidate /\ q.count = r.count
                \/ /\ q.candidate = proposed.candidate
                   /\ q.count = IF proposed.candidate = r.candidate THEN r.count + 1 ELSE 1
  BY <1>1, <1>2 DEF ProposalNext
<1>3. \A c : Of(c) \in Nat /\ Next(c) \in Nat
  <2>1. /\ Len(s) \in Nat /\ Len(Append(s, e)) \in Nat
        /\ DOMAIN s = 1..Len(s) /\ DOMAIN Append(s, e) = 1..Len(Append(s, e))
    BY <1>1
  <2>2. \A c : /\ ProposedSince(s, c, r.stable) \subseteq 1..Len(s)
               /\ ProposedSince(Append(s, e), c, r.stable) \subseteq 1..Len(Append(s, e))
    BY <2>1 DEF ProposedSince
  <2>3. QED
    BY <2>1, <2>2, PositionsFinite
<1>4. ASSUME proposed.candidate \notin {"ABNORMAL", r.stable}
      PROVE  \A c : Of(c) <= Next(c) /\ (proposed.candidate = c => Of(c) + 1 <= Next(c))
  BY <1>1, <1>4, SinceMore
<1> HIDE DEF Of, Next
<1>5. q.candidate # q.stable => q.count <= Next(q.candidate)
  <2> SUFFICES ASSUME q.candidate # q.stable PROVE q.count <= Next(q.candidate)
    OBVIOUS
  <2>1. proposed.candidate \notin {"ABNORMAL", r.stable}
    BY <1>2
  <2>2. CASE q.candidate = r.candidate /\ q.count = r.count
    <3>1. r.count <= Of(r.candidate)
      BY <1>1, <1>2, <2>2 DEF Of
    <3>2. QED
      BY <1>1, <1>3, <1>4, <2>1, <2>2, <3>1
  <2>3. CASE q.candidate = proposed.candidate /\ proposed.candidate = r.candidate /\ q.count = r.count + 1
    <3>1. r.count <= Of(r.candidate)
      BY <1>1, <2>1, <2>3 DEF Of
    <3>2. Of(r.candidate) + 1 <= Next(r.candidate)
      BY <1>4, <2>1, <2>3
    <3>3. QED
      BY <1>1, <1>3, <2>3, <3>1, <3>2
  <2>4. CASE q.candidate = proposed.candidate /\ q.count = 1
    <3>1. Of(q.candidate) + 1 <= Next(q.candidate)
      BY <1>4, <2>1, <2>4
    <3>2. QED
      BY <1>3, <2>4, <3>1
  <2>5. QED
    BY <1>2, <2>2, <2>3, <2>4
<1>6. q.candidate # q.stable => q.stable = r.stable
  BY <1>2
<1>7. QED
  BY <1>5, <1>6 DEF Next

\* A persistence is no longer than there was.
LEMMA PersistsSound ==
  ASSUME NEW r, NEW s, NEW proposed, NEW q, NEW e, RegimeStep(r, s, proposed, q, e),
         NEW j \in DOMAIN Append(s, e), Append(s, e)[j].to = q.stable, Append(s, e)[j].from # q.stable
  PROVE  q.persistence <= Len(Append(s, e)) - j + 1
<1> DEFINE b == Append(s, e)
           n == Len(s)
<1>1. /\ s \in Seq(RegimeAnalysis) /\ n \in Nat /\ Len(b) = n + 1 /\ DOMAIN s = 1..n
      /\ j \in 1..(n + 1) /\ b[n + 1] = e /\ \A i \in 1..n : b[i] = s[i]
  BY DEF RegimeStep
<1>2. /\ r.persistence \in Nat /\ q.persistence \in Nat /\ ProposalNext(r, proposed, q)
      /\ e.from = r.stable
      /\ \A i \in DOMAIN s : s[i].to = r.stable /\ s[i].from # r.stable => r.persistence <= n - i + 1
  BY DEF RegimeStep, SoundRegime, RegimeState
<1>3. \/ q.persistence = 1
      \/ q.stable = r.stable /\ q.persistence <= r.persistence + 1
  BY <1>2 DEF ProposalNext
<1>4. CASE q.persistence = 1
  BY <1>1, <1>4
<1>5. CASE q.stable = r.stable /\ q.persistence <= r.persistence + 1
  <2>1. j # n + 1
    BY <1>1, <1>2, <1>5
  <2>2. j \in 1..n /\ s[j].to = r.stable /\ s[j].from # r.stable
    BY <1>1, <1>5, <2>1
  <2>3. r.persistence <= n - j + 1
    BY <1>1, <1>2, <2>2
  <2>4. QED
    BY <1>1, <1>2, <1>5, <2>2, <2>3
<1>6. QED
  BY <1>3, <1>4, <1>5

\* The latest analysis is well confirmed.
LEMMA NewConfirmed ==
  ASSUME NEW r, NEW s, NEW proposed, NEW q, NEW e, RegimeStep(r, s, proposed, q, e)
  PROVE  WellConfirmed(Append(s, e), Len(s) + 1)
<1> DEFINE b == Append(s, e)
           k == Len(s) + 1
           again == {j \in 1..(k - 1) : b[j].candidate \in {b[k].from, "ABNORMAL"}}
           since == IF again = {} THEN 0 ELSE Max(again)
           counts == {j \in (since + 1)..k : b[j].candidate = b[k].to}
           entered == {j \in 1..(k - 1) : b[j].to = b[k].from /\ b[j].from # b[k].from}
<1>1. /\ s \in Seq(RegimeAnalysis) /\ Len(s) \in Nat /\ b \in Seq(RegimeAnalysis) /\ Len(b) = k
      /\ k \in Nat \ {0} /\ DOMAIN s = 1..Len(s) /\ b[k] = e /\ \A i \in 1..(k - 1) : b[i] = s[i]
  BY DEF RegimeStep
<1>2. /\ r.persistence \in Nat /\ ProposalNext(r, proposed, q)
      /\ e.candidate = proposed.candidate /\ e.winning = proposed.winning
      /\ e.from = r.stable /\ e.to = q.stable
      /\ \A i \in DOMAIN s : s[i].to = r.stable /\ s[i].from # r.stable => r.persistence <= Len(s) - i + 1
      /\ MinimumPersistence \in Nat /\ Confirmations \in Nat
  BY RegimeAssumption DEF RegimeStep, SoundRegime, RegimeState, RegimeConfiguration
<1>3. e.candidate = "ABNORMAL" => e.to = "ABNORMAL"
  BY <1>2 DEF ProposalNext
<1>4. ASSUME e.to # e.from, e.to # "ABNORMAL"
      PROVE  /\ e.candidate = e.to /\ e.candidate \notin {e.from, "ABNORMAL"} /\ e.winning >= EntryScore
             /\ q.candidate = e.to /\ q.count >= Confirmations
             /\ r.stable # "UNKNOWN" => r.persistence >= MinimumPersistence
             /\ q.count = IF proposed.candidate = r.candidate THEN r.count + 1 ELSE 1
  BY <1>2, <1>4 DEF ProposalNext
<1>5. ASSUME e.to # e.from, e.to # "ABNORMAL" PROVE Cardinality(counts) >= Confirmations
  <2> DEFINE Of == Cardinality(ProposedSince(s, e.to, r.stable))
             Next == Cardinality(ProposedSince(b, e.to, r.stable))
  <2>1. counts = ProposedSince(b, e.to, e.from)
    <3>1. b[k].candidate \notin {b[k].from, "ABNORMAL"}
      BY <1>1, <1>4, <1>5
    <3> HIDE DEF b, k
    <3>2. counts = ProposedSince(b, b[k].to, b[k].from)
      BY <1>1, <3>1, CountedSince
    <3>3. QED
      BY <1>1, <3>2
  <2>2. Of \in Nat /\ Next \in Nat
    <3>1. DOMAIN s = 1..Len(s) /\ DOMAIN b = 1..k
      BY <1>1
    <3>2. ProposedSince(s, e.to, r.stable) \subseteq 1..Len(s) /\ ProposedSince(b, e.to, r.stable) \subseteq 1..k
      BY <3>1 DEF ProposedSince
    <3> HIDE DEF b, k
    <3>3. QED
      BY <1>1, <3>2, PositionsFinite
  <2>3. Of + 1 <= Next
    <3>1. e \in RegimeAnalysis /\ e.candidate \notin {r.stable, "ABNORMAL"} /\ e.candidate = e.to
      BY <1>2, <1>4, <1>5 DEF RegimeStep
    <3>2. QED
      BY <1>1, <3>1, SinceMore
  <2>4. r.count \in Nat /\ (e.to = r.candidate => r.count <= Of)
    <3>1. e.to # r.stable
      BY <1>2, <1>5
    <3>2. QED
      BY <3>1 DEF RegimeStep, SoundRegime, RegimeState
  <2> HIDE DEF Of, Next
  <2>5. q.count <= Next
    BY <1>2, <1>4, <1>5, <2>2, <2>3, <2>4
  <2>6. Next = Cardinality(counts)
    BY <1>2, <2>1 DEF Next
  <2> HIDE DEF counts
  <2>7. QED
    BY <1>2, <1>4, <1>5, <2>2, <2>5, <2>6 DEF RegimeStep, RegimeState
<1>6. ASSUME e.to # e.from, e.to # "ABNORMAL", e.from # "UNKNOWN", entered # {}
      PROVE  k - Max(entered) >= MinimumPersistence
  <2>1. r.persistence >= MinimumPersistence
    BY <1>2, <1>4, <1>6
  <2>2. entered \in SUBSET (0..k) /\ \A j \in entered : j \in 1..Len(s) /\ r.persistence <= k - j
    <3>1. ASSUME NEW j \in entered PROVE j \in 1..Len(s) /\ r.persistence <= k - j /\ j \in 0..k
      <4>1. j \in 1..Len(s) /\ s[j].to = r.stable /\ s[j].from # r.stable
        BY <1>1, <1>2, <3>1
      <4>2. r.persistence <= Len(s) - j + 1
        BY <1>1, <1>2, <4>1
      <4>3. QED
        BY <1>1, <1>2, <4>1, <4>2
    <3>2. QED
      BY <3>1
  <2> HIDE DEF entered
  <2>3. Max(entered) \in entered
    <3>1. k \in Nat /\ entered # {} /\ entered \in SUBSET (0..k)
      BY <1>1, <1>6, <2>2
    <3> HIDE DEF k
    <3>2. QED
      BY <3>1, GreatestOf
  <2>4. Max(entered) \in Nat /\ r.persistence <= k - Max(entered)
    <3>1. PICK m \in entered : m = Max(entered)
      BY <2>3
    <3>2. m \in 1..Len(s) /\ r.persistence <= k - m
      BY <2>2
    <3>3. QED
      BY <1>1, <3>1, <3>2
  <2>5. QED
    BY <1>1, <1>2, <2>1, <2>4
<1>7. WellConfirmed(b, k) <=>
        /\ b[k].candidate = "ABNORMAL" => b[k].to = "ABNORMAL"
        /\ b[k].to # b[k].from /\ b[k].to # "ABNORMAL" =>
             /\ b[k].candidate = b[k].to /\ b[k].winning >= EntryScore
             /\ Cardinality(counts) >= Confirmations
             /\ b[k].from # "UNKNOWN" /\ entered # {} => k - Max(entered) >= MinimumPersistence
  BY Zenon DEF WellConfirmed
<1> HIDE DEF counts, entered
<1>8. b[k] = e
  BY <1>1
<1> HIDE DEF b, k
<1>9. WellConfirmed(b, k)
  BY <1>3, <1>4, <1>5, <1>6, <1>7, <1>8
<1>10. QED
  BY <1>9 DEF b, k
\* The history of the engine takes no part in what it publishes.
LEMMA RecordedFacts ==
  ASSUME NEW r \in RegimeState, NEW snapshot \in {o.snapshot : o \in RegimeInputs}
  PROVE  /\ Recorded(r, snapshot) \in RegimeState
         /\ Recorded(r, snapshot).stable = r.stable /\ Recorded(r, snapshot).candidate = r.candidate
         /\ Recorded(r, snapshot).count = r.count /\ Recorded(r, snapshot).persistence = r.persistence
<1> DEFINE last  == Last(r.history)
           entry == [regime |-> r.stable, snapshot |-> snapshot,
                     duration |-> IF r.history # <<>> /\ last.regime = r.stable THEN last.duration + 1 ELSE 1]
           h     == Append(r.history, entry)
           kept  == SubSeq(h, Greatest(1, Len(h) - MaxRegimeHistory + 1), Len(h))
<1>1. /\ r.history \in Seq(RegimeEntry) /\ r.stable \in Regimes
      /\ r = [stable |-> r.stable, candidate |-> r.candidate, count |-> r.count,
              persistence |-> r.persistence, cooldown |-> r.cooldown, unknown |-> r.unknown,
              history |-> r.history]
  BY DEF RegimeState
<1>2. entry \in RegimeEntry
  <2>1. r.history # <<>> => last \in RegimeEntry
    <3>1. r.history # <<>> => Len(r.history) \in 1..Len(r.history)
      BY <1>1
    <3>2. QED
      BY <1>1, <3>1 DEF Last
  <2>2. r.history # <<>> => last.duration \in Nat
    BY <2>1 DEF RegimeEntry
  <2> HIDE DEF last
  <2>3. (IF r.history # <<>> /\ last.regime = r.stable THEN last.duration + 1 ELSE 1) \in Nat
    BY <2>2
  <2>4. QED
    BY <1>1, <2>3 DEF RegimeEntry
<1>3. h \in Seq(RegimeEntry)
  <2> HIDE DEF entry
  <2>1. QED
    BY <1>1, <1>2
<1>4. kept \in Seq(RegimeEntry)
  <2> HIDE DEF h
  <2>1. Len(h) \in Nat /\ MaxRegimeHistory \in Nat
    BY <1>3, RegimeAssumption DEF RegimeConfiguration
  <2>2. Greatest(1, Len(h) - MaxRegimeHistory + 1) \in Nat \ {0}
    BY <2>1 DEF Greatest
  <2>3. /\ Greatest(1, Len(h) - MaxRegimeHistory + 1) \in Int /\ Len(h) \in Int
        /\ \A j \in Greatest(1, Len(h) - MaxRegimeHistory + 1)..Len(h) : h[j] \in RegimeEntry
    BY <1>3, <2>1, <2>2
  <2>4. QED
    BY <2>3, SubSeqProperties
<1>5. Recorded(r, snapshot) = r \/ Recorded(r, snapshot) = [r EXCEPT !.history = kept]
  BY Zenon DEF Recorded
<1> HIDE DEF kept
<1>6. [r EXCEPT !.history = kept] =
        [stable |-> r.stable, candidate |-> r.candidate, count |-> r.count,
         persistence |-> r.persistence, cooldown |-> r.cooldown, unknown |-> r.unknown, history |-> kept]
  BY <1>1
<1>7. [r EXCEPT !.history = kept] \in RegimeState
  BY <1>4, <1>6 DEF RegimeState
<1>8. QED
  BY <1>5, <1>6, <1>7

\* An analysis keeps the invariant.
LEMMA AnalysisKeeps ==
  ASSUME NEW x \in RegimeStates, NEW o \in RegimeInputs
  PROVE  Analysis(x, o) \in RegimeStates
<1> DEFINE r == x.regime
           s == x.analyzed
           proposed == Proposed[o]
           out == Publish(r, proposed)
           q == Recorded(out, o.snapshot)
           e == [candidate |-> proposed.candidate, winning |-> proposed.winning,
                 from |-> r.stable, to |-> out.stable]
           b == Append(s, e)
<1>1. /\ r \in RegimeState /\ s \in Seq(RegimeAnalysis) /\ SoundRegime(r, s)
      /\ \A k \in DOMAIN s : WellConfirmed(s, k)
  BY DEF RegimeStates
<1>2. proposed.candidate \in Regimes /\ proposed.winning \in {Proposed[i].winning : i \in RegimeInputs}
  BY DEF Regimes
<1> HIDE DEF r, s, proposed
<1>3. /\ out \in RegimeState /\ out.history = r.history
      /\ ProposalNext(r, proposed, out)
  BY <1>1, <1>2, PublishFacts
<1> HIDE DEF out
<1>4. /\ q \in RegimeState /\ q.stable = out.stable /\ q.candidate = out.candidate
      /\ q.count = out.count /\ q.persistence = out.persistence
  BY <1>3, RecordedFacts
<1> HIDE DEF q
<1>5. e \in RegimeAnalysis
  BY <1>1, <1>2, <1>3 DEF RegimeAnalysis, RegimeState
<1>6. RegimeStep(r, s, proposed, q, e)
  <2>1. ProposalNext(r, proposed, q)
    BY <1>3, <1>4 DEF ProposalNext
  <2>2. QED
    BY <1>1, <1>4, <1>5, <2>1 DEF RegimeStep
<1> HIDE DEF e
<1>7. b \in Seq(RegimeAnalysis) /\ Len(s) \in Nat /\ DOMAIN b = 1..(Len(s) + 1) /\ DOMAIN s = 1..Len(s)
  BY <1>1, <1>5
<1> HIDE DEF b
<1>8. SoundRegime(q, b)
  <2>1. q.candidate # q.stable => q.count <= Cardinality(ProposedSince(b, q.candidate, q.stable))
    BY <1>6, CountsSound DEF b
  <2>2. ASSUME NEW j \in DOMAIN b, b[j].to = q.stable, b[j].from # q.stable
        PROVE  q.persistence <= Len(b) - j + 1
    BY <1>6, <2>2, PersistsSound DEF b
  <2>3. QED
    BY <2>1, <2>2 DEF SoundRegime
<1>9. ASSUME NEW k \in DOMAIN b PROVE WellConfirmed(b, k)
  <2>1. CASE k \in DOMAIN s
    BY <1>1, <2>1, StaysConfirmed DEF b
  <2>2. CASE k = Len(s) + 1
    BY <1>6, <2>2, NewConfirmed DEF b
  <2>3. QED
    BY <1>7, <1>9, <2>1, <2>2
<1>10. [regime |-> q, analyzed |-> b] \in RegimeStates
  BY <1>4, <1>7, <1>8, <1>9 DEF RegimeStates
<1>11. Analysis(x, o) = [regime |-> q, analyzed |-> b]
  BY Zenon DEF Analysis, Analyzed, b, e, q, out, proposed, r, s
<1>12. QED
  BY <1>10, <1>11

\* An engine that has analyzed nothing.
LEMMA FreshFacts == [regime |-> FreshRegime, analyzed |-> <<>>] \in RegimeStates
<1>1. FreshRegime \in RegimeState /\ FreshRegime.candidate = FreshRegime.stable
  BY DEF FreshRegime, RegimeState, Regimes
<1>2. <<>> \in Seq(RegimeAnalysis) /\ DOMAIN <<>> = {}
  OBVIOUS
<1>3. SoundRegime(FreshRegime, <<>>)
  BY <1>1, <1>2 DEF SoundRegime
<1>4. QED
  BY <1>1, <1>2, <1>3 DEF RegimeStates
\* What each observation of a timeline leaves, from the beginning.
RebuiltBy(timeline) ==
  CHOOSE after : after =
    [n \in 0..Len(timeline) |->
       IF n = 0 THEN [regime |-> FreshRegime, analyzed |-> <<>>]
       ELSE IF timeline[n].lineage THEN Analysis(after[n - 1], timeline[n])
       ELSE after[n - 1]]

\* An observation of a timeline.
Replayed(x, o) == IF o.lineage THEN Analysis(x, o) ELSE x

\* What is rebuilt of a timeline satisfies the invariant.
LEMMA RebuiltFacts ==
  ASSUME NEW timeline \in Seq(RegimeInputs)
  PROVE  RebuiltBy(timeline)[Len(timeline)] \in RegimeStates
<1> DEFINE V == RegimeStates
           N == Len(timeline)
           first == [regime |-> FreshRegime, analyzed |-> <<>>]
           Is(f, m) == f[0] = first /\ \A n \in 1..m : f[n] = Replayed(f[n - 1], timeline[n])
           P == {m \in Nat : m <= N => \E f \in [0..m -> V] : Is(f, m)}
<1>1. N \in Nat /\ DOMAIN timeline = 1..N /\ \A n \in 1..N : timeline[n] \in RegimeInputs
  OBVIOUS
<1>2. first \in V
  BY FreshFacts
<1>3. ASSUME NEW x \in V, NEW n \in 1..N PROVE Replayed(x, timeline[n]) \in V
  BY <1>1, AnalysisKeeps DEF Replayed
<1> HIDE DEF first, V
<1>4. 0 \in P
  <2>1. [n \in 0..0 |-> first] \in [0..0 -> V] /\ Is([n \in 0..0 |-> first], 0)
    BY <1>2
  <2>2. QED
    BY <2>1
<1>5. ASSUME NEW m \in Nat, m \in P PROVE m + 1 \in P
  <2> HIDE DEF Is
  <2>1. SUFFICES ASSUME m + 1 <= N PROVE \E f \in [0..(m + 1) -> V] : Is(f, m + 1)
    OBVIOUS
  <2>2. PICK f \in [0..m -> V] : Is(f, m)
    BY <1>1, <1>5, <2>1
  <2> USE DEF Is
  <2> DEFINE g == [n \in 0..(m + 1) |-> IF n <= m THEN f[n] ELSE Replayed(f[m], timeline[m + 1])]
  <2>3. f[m] \in V /\ Replayed(f[m], timeline[m + 1]) \in V
    BY <1>1, <1>3, <2>1, <2>2
  <2>4. g \in [0..(m + 1) -> V]
    BY <2>2, <2>3
  <2>5. /\ g[0] = first /\ g[m + 1] = Replayed(f[m], timeline[m + 1])
        /\ \A n \in 0..m : g[n] = f[n]
    BY <2>2, <2>3
  <2> HIDE DEF g
  <2>6. Is(g, m + 1)
    <3>1. ASSUME NEW n \in 1..(m + 1) PROVE g[n] = Replayed(g[n - 1], timeline[n])
      <4>1. CASE n <= m
        BY <2>2, <2>5, <4>1
      <4>2. CASE n = m + 1
        BY <2>5, <4>2
      <4>3. QED
        BY <4>1, <4>2
    <3>2. QED
      BY <2>5, <3>1
  <2>7. QED
    BY <2>4, <2>6
<1>6. Nat \subseteq P
  <2> HIDE DEF P
  <2> QED
    BY <1>4, <1>5, InductiveSet
<1>7. PICK f \in [0..N -> V] : Is(f, N)
  <2> HIDE DEF Is
  <2> QED
    BY <1>1, <1>6
<1>8. f = [n \in 0..N |->
             IF n = 0 THEN first
             ELSE IF timeline[n].lineage THEN Analysis(f[n - 1], timeline[n])
             ELSE f[n - 1]]
  BY <1>1, <1>7 DEF Replayed
<1>9. RebuiltBy(timeline) =
        [n \in 0..N |->
           IF n = 0 THEN first
           ELSE IF timeline[n].lineage THEN Analysis(RebuiltBy(timeline)[n - 1], timeline[n])
           ELSE RebuiltBy(timeline)[n - 1]]
  BY <1>8, Zenon DEF RebuiltBy, first
<1> DEFINE Q == {m \in Nat : m <= N => RebuiltBy(timeline)[m] \in V}
<1>10. 0 \in Q
  BY <1>1, <1>2, <1>9
<1>11. ASSUME NEW m \in Nat, m \in Q PROVE m + 1 \in Q
  <2>1. SUFFICES ASSUME m + 1 <= N PROVE RebuiltBy(timeline)[m + 1] \in V
    OBVIOUS
  <2>2. m + 1 \in 1..N /\ m + 1 \in 0..N /\ (m + 1) - 1 = m /\ RebuiltBy(timeline)[m] \in V
    BY <1>1, <1>11, <2>1
  <2>3. RebuiltBy(timeline)[m + 1] = Replayed(RebuiltBy(timeline)[m], timeline[m + 1])
    BY <1>9, <2>2 DEF Replayed
  <2>4. QED
    BY <1>3, <2>2, <2>3
<1>12. Nat \subseteq Q
  <2> HIDE DEF Q
  <2> QED
    BY <1>10, <1>11, InductiveSet
<1>13. QED
  BY <1>1, <1>12 DEF V

\* Every step keeps the invariant.
LEMMA NextRegime ==
  ASSUME RegimeInvariant, [RegimeNext]_regimeVars
  PROVE  RegimeInvariant'
<1>1. CASE \E o \in RegimeInputs : AnalyzeRegime(o)
  <2>1. PICK o \in RegimeInputs : AnalyzeRegime(o)
    BY <1>1
  <2> DEFINE x == [regime |-> regime, analyzed |-> analyzed]
             y == Analysis(x, o)
  <2>2. y \in RegimeStates
    BY AnalysisKeeps DEF RegimeInvariant
  <2>3. regime' = y.regime /\ analyzed' = y.analyzed
    BY <2>1 DEF AnalyzeRegime, Become
  <2> HIDE DEF y
  <2>4. y = [regime |-> y.regime, analyzed |-> y.analyzed]
    BY <2>2 DEF RegimeStates
  <2>5. QED
    BY <2>2, <2>3, <2>4 DEF RegimeInvariant
<1>2. CASE \E timeline \in RegimeTimelines : Rebuild(timeline)
  <2>1. PICK timeline \in RegimeTimelines : Rebuild(timeline)
    BY <1>2
  <2> DEFINE y == RebuiltBy(timeline)[Len(timeline)]
  <2>2. y \in RegimeStates
    BY RegimeAssumption, RebuiltFacts
  <2>3. regime' = y.regime /\ analyzed' = y.analyzed
    BY <2>1, Zenon DEF Rebuild, Become, RebuiltBy
  <2> HIDE DEF y
  <2>4. y = [regime |-> y.regime, analyzed |-> y.analyzed]
    BY <2>2 DEF RegimeStates
  <2>5. QED
    BY <2>2, <2>3, <2>4 DEF RegimeInvariant
<1>3. CASE UNCHANGED regimeVars
  BY <1>3 DEF RegimeInvariant, regimeVars
<1>4. QED
  BY <1>1, <1>2, <1>3 DEF RegimeNext

\* The invariant implies the property.
LEMMA RegimeInvariantConfirms == RegimeInvariant => RegimeConfirmed
<1>1. RegimeInvariant => \A k \in DOMAIN analyzed : WellConfirmed(analyzed, k)
  BY DEF RegimeInvariant, RegimeStates
<1>2. QED
  BY <1>1, Zenon DEF RegimeConfirmed, WellConfirmed

\* RegimeEngine: whatever the timeframes' evidence proposes, an abnormal regime is
\* published at once and any other after its confirmations and the minimum of the
\* one it replaces, for every configuration and every timeline, also rebuilt.
THEOREM RegimesAreConfirmed == RegimeSpec => []RegimeConfirmed
<1>1. RegimeInit => RegimeInvariant
  BY FreshFacts DEF RegimeInit, RegimeInvariant
<1>2. RegimeInvariant /\ [RegimeNext]_regimeVars => RegimeInvariant'
  BY NextRegime
<1>3. QED
  BY <1>1, <1>2, RegimeInvariantConfirms, PTL DEF RegimeSpec

-----------------------------------------------------------------------------
(* Strategy framework: what is remembered of a strategy is its own.        *)

EvaluationIds ==
  [strategy : Strategies, snapshot : {i.id : i \in Intelligence}, reason : Reasons]

\* The inductive invariant: the stores are sequences, and the states isolated.
FrameworkInvariant ==
  /\ framework = [cache |-> framework.cache, history |-> framework.history,
                  states |-> framework.states]
  /\ \E S : evaluations \in Seq(S) /\ framework.cache \in Seq(S)
  /\ \E T : framework.states \in Seq(T) /\ \A s \in T : s.references \in Seq(EvaluationIds)
  /\ StatesIsolated

\* The last elements of a sequence.
LEMMA LatestFacts ==
  ASSUME NEW S, NEW s \in Seq(S)
  PROVE  /\ LatestOf(s) \in Seq(S)
         /\ Len(LatestOf(s)) = Least(MaxReferences, Len(s))
         /\ \A x \in 0..(Len(LatestOf(s)) - 1) : LatestOf(s)[Len(LatestOf(s)) - x] = s[Len(s) - x]
<1> DEFINE M == MaxReferences
           N == Len(s)
           first == Greatest(1, N - M + 1)
           l == LatestOf(s)
<1>1. M \in Nat \ {0}
  BY FrameworkAssumption DEF StrategyFrameworkConfiguration
<1>2. N \in Nat /\ \A j \in 1..N : s[j] \in S
  OBVIOUS
<1> HIDE DEF M, N
<1>3. first \in Nat \ {0} /\ (IF first <= N THEN N - first + 1 ELSE 0) = Least(M, N)
      /\ N - first + 1 = Least(M, N)
  BY <1>1, <1>2 DEF Greatest, Least
<1>4. l = SubSeq(s, first, N)
  BY DEF LatestOf, M, N
<1> HIDE DEF first, l
<1>5. /\ l \in Seq(S) /\ Len(l) = Least(M, N)
      /\ \A j \in 1..(N - first + 1) : l[j] = s[first + j - 1]
  <2>1. first \in Int /\ N \in Int /\ \A j \in first..N : s[j] \in S
    BY <1>2, <1>3
  <2>2. QED
    BY <1>3, <1>4, <2>1, SubSeqProperties
<1>6. ASSUME NEW x \in 0..(Len(l) - 1) PROVE l[Len(l) - x] = s[N - x]
  <2> DEFINE n == Len(l)
  <2>1. n = N - first + 1 /\ n \in Nat
    BY <1>3, <1>5
  <2> HIDE DEF n
  <2>2. x \in 0..(n - 1)
    BY DEF n
  <2>3. n - x \in 1..(N - first + 1) /\ first + (n - x) - 1 = N - x
    BY <1>2, <1>3, <2>1, <2>2
  <2>4. QED
    BY <1>5, <2>3 DEF n
<1>7. QED
  BY <1>5, <1>6 DEF l, M, N

\* The last place among those of one more element.
LEMMA LastPlace ==
  ASSUME NEW n \in Nat, NEW P \in SUBSET (1..n)
  PROVE  Max(P \cup {n + 1}) = n + 1
<1> DEFINE Q == P \cup {n + 1}
           x == Max(Q)
<1>1. n + 1 \in Nat /\ Q \in SUBSET (0..(n + 1)) /\ Q # {} /\ n + 1 \in Q
  OBVIOUS
<1> HIDE DEF Q
<1>2. x \in Q /\ \A k \in Q : k <= x
  BY <1>1, GreatestOf
<1> HIDE DEF x
<1>3. x = n + 1
  BY <1>1, <1>2
<1>4. QED
  BY <1>3 DEF x, Q

\* Where an evaluation that is made is placed.
EvaluationPlaced(kept, e, key, id) ==
  /\ OwnEvaluations(kept, key) \in SUBSET (1..Len(kept))
  /\ OwnSignals(kept, key) \in SUBSET (1..Len(kept))
  /\ MadeFor(kept, id) \in SUBSET (1..Len(kept))
  /\ OwnEvaluations(Append(kept, e), key) =
       OwnEvaluations(kept, key) \cup (IF StateKey(e) = key THEN {Len(kept) + 1} ELSE {})
  /\ OwnSignals(Append(kept, e), key) =
       OwnSignals(kept, key)
         \cup (IF StateKey(e) = key /\ IsSignal(e) THEN {Len(kept) + 1} ELSE {})
  /\ MadeFor(Append(kept, e), id) =
       MadeFor(kept, id) \cup (IF e.id = id THEN {Len(kept) + 1} ELSE {})

\* One more evaluation.
LEMMA EvaluationPlaces ==
  ASSUME NEW S, NEW kept \in Seq(S), NEW e, NEW key, NEW id
  PROVE  EvaluationPlaced(kept, e, key, id)
<1> DEFINE b == Append(kept, e)
           n == Len(kept)
<1>1. /\ n \in Nat /\ DOMAIN kept = 1..n /\ DOMAIN b = 1..(n + 1)
      /\ b[n + 1] = e /\ \A j \in 1..n : b[j] = kept[j]
  OBVIOUS
<1> HIDE DEF b, n
<1>2. /\ 1..(n + 1) = (1..n) \cup {n + 1} /\ n + 1 \notin 1..n
  BY <1>1
<1>3. OwnEvaluations(b, key) =
        OwnEvaluations(kept, key) \cup (IF StateKey(e) = key THEN {n + 1} ELSE {})
  BY <1>1, <1>2 DEF OwnEvaluations
<1>4. OwnSignals(b, key) =
        OwnSignals(kept, key) \cup (IF StateKey(e) = key /\ IsSignal(e) THEN {n + 1} ELSE {})
  <2>1. OwnEvaluations(kept, key) \subseteq 1..n
    BY <1>1 DEF OwnEvaluations
  <2>2. QED
    BY <1>1, <1>3, <2>1 DEF OwnSignals
<1>5. MadeFor(b, id) = MadeFor(kept, id) \cup (IF e.id = id THEN {n + 1} ELSE {})
  BY <1>1, <1>2 DEF MadeFor
<1>6. /\ OwnEvaluations(kept, key) \in SUBSET (1..n) /\ OwnSignals(kept, key) \in SUBSET (1..n)
      /\ MadeFor(kept, id) \in SUBSET (1..n)
  BY <1>1 DEF OwnEvaluations, OwnSignals, MadeFor
<1>7. QED
  BY <1>3, <1>4, <1>5, <1>6, Zenon DEF EvaluationPlaced, b, n

\* Evaluations of others leave what is remembered.
LEMMA RemembersKept ==
  ASSUME NEW S, NEW kept \in Seq(S), NEW e, NEW state, state.id # StateKey(e),
         RemembersItsOwn(state, kept)
  PROVE  RemembersItsOwn(state, Append(kept, e))
<1> DEFINE b == Append(kept, e)
           n == Len(kept)
           own == OwnEvaluations(kept, state.id)
           signals == OwnSignals(kept, state.id)
<1>1. n \in Nat /\ \A j \in 1..n : b[j] = kept[j]
  OBVIOUS
<1>2. /\ own \in SUBSET (1..n) /\ signals \in SUBSET (1..n)
      /\ OwnEvaluations(b, state.id) = own /\ OwnSignals(b, state.id) = signals
  <2>1. EvaluationPlaced(kept, e, state.id, e.id)
    BY EvaluationPlaces
  <2>2. QED
    BY <2>1 DEF EvaluationPlaced
<1>3. own # {} /\ state.snapshot = kept[Max(own)].id.snapshot /\ RefersToLast(state.references, kept, signals)
  BY DEF RemembersItsOwn
<1> HIDE DEF b, n, own, signals
<1>4. Max(own) \in 1..n
  <2>1. own \in SUBSET (0..n)
    BY <1>1, <1>2
  <2>2. Max(own) \in own
    BY <1>1, <1>3, <2>1, GreatestOf
  <2>3. QED
    BY <1>2, <2>2
<1>5. RefersToLast(state.references, b, signals)
  <2>1. \A k \in signals : b[k] = kept[k]
    BY <1>1, <1>2
  <2>2. QED
    BY <1>3, <2>1 DEF RefersToLast
<1>6. b[Max(own)] = kept[Max(own)]
  BY <1>1, <1>4
<1>7. RemembersItsOwn(state, b)
  BY <1>2, <1>3, <1>5, <1>6 DEF RemembersItsOwn
<1>8. QED
  BY <1>7 DEF b

\* A signal takes the last place among the references.
LEMMA SignalReferred ==
  ASSUME NEW S, NEW kept \in Seq(S), NEW e, e.id \in EvaluationIds,
         NEW signals \in SUBSET (1..Len(kept)), NEW references \in Seq(EvaluationIds),
         RefersToLast(references, kept, signals)
  PROVE  RefersToLast(LatestOf(Append(references, e.id)), Append(kept, e), signals \cup {Len(kept) + 1})
<1> DEFINE M == MaxReferences
           n == Len(kept)
           b == Append(kept, e)
           refs == Append(references, e.id)
           cur == LatestOf(refs)
           L == Len(references)
           sent == signals \cup {n + 1}
           later(k) == Cardinality({m \in signals : m > k})
           then(k) == Cardinality({m \in sent : m > k})
<1>1. M \in Nat \ {0}
  BY FrameworkAssumption DEF StrategyFrameworkConfiguration
<1>2. n \in Nat /\ b[n + 1] = e /\ \A j \in 1..n : b[j] = kept[j]
  OBVIOUS
<1>3. /\ L \in Nat /\ refs \in Seq(EvaluationIds) /\ Len(refs) = L + 1
      /\ refs[L + 1] = e.id /\ \A j \in 1..L : refs[j] = references[j]
  OBVIOUS
<1>4. IsFiniteSet(signals) /\ Cardinality(signals) \in Nat
  BY <1>2, PositionsFinite
<1>5. /\ L = Least(M, Cardinality(signals))
      /\ \A k \in signals : later(k) < M => references[L - later(k)] = kept[k].id
  BY DEF RefersToLast
<1> HIDE DEF M, b, L, refs
<1>6. /\ Len(cur) = Least(M, L + 1)
      /\ \A x \in 0..(Len(cur) - 1) : cur[Len(cur) - x] = refs[(L + 1) - x]
  BY <1>3, LatestFacts DEF M
<1> HIDE DEF cur
<1>7. n + 1 \notin signals /\ Cardinality(sent) = Cardinality(signals) + 1
  <2>1. n + 1 \notin signals
    BY <1>2
  <2> HIDE DEF n
  <2>2. QED
    BY <1>4, <2>1, FS_AddElement
<1>8. Len(cur) = Least(M, Cardinality(sent))
  BY <1>1, <1>3, <1>4, <1>5, <1>6, <1>7 DEF Least
<1>9. ASSUME NEW k \in sent, then(k) < M
      PROVE  cur[Len(cur) - then(k)] = b[k].id
  <2>1. CASE k = n + 1
    <3>1. {m \in sent : m > k} = {}
      <4>1. \A m \in sent : m \in 1..(n + 1) /\ ~(m > n + 1)
        BY <1>2
      <4>2. QED
        BY <2>1, <4>1
    <3>2. then(k) = 0
      BY <3>1, FS_EmptySet, Zenon
    <3>3. 0 \in 0..(Len(cur) - 1)
      BY <1>1, <1>3, <1>6 DEF Least
    <3> HIDE DEF then
    <3>4. cur[Len(cur) - 0] = refs[(L + 1) - 0]
      BY <1>6, <3>3
    <3>5. Len(cur) \in Nat
      BY <1>1, <1>3, <1>6 DEF Least
    <3>6. Len(cur) - then(k) = Len(cur) - 0 /\ (L + 1) - 0 = L + 1
      BY <1>3, <3>2, <3>5
    <3>7. QED
      BY <1>2, <1>3, <2>1, <3>4, <3>6
  <2>2. CASE k # n + 1
    <3> DEFINE after == {m \in signals : m > k}
    <3>1. k \in signals /\ k \in 1..n
      BY <2>2
    <3>2. after \in SUBSET (1..n) /\ k \notin after /\ after \cup {k} \subseteq signals
      <4>1. k \in Int /\ ~(k > k) /\ signals \subseteq 1..n
        BY <3>1
      <4>2. QED
        BY <3>1, <4>1
    <3>3. {m \in sent : m > k} = after \cup {n + 1} /\ n + 1 \notin after
      BY <1>2, <3>1
    <3> HIDE DEF n, after, sent, then
    <3>4. IsFiniteSet(after) /\ Cardinality(after) \in Nat
      BY <1>2, <3>2, PositionsFinite
    <3>5. then(k) = Cardinality(after) + 1
      BY <3>3, <3>4, FS_AddElement DEF then
    <3>6. Cardinality(after) + 1 <= Cardinality(signals)
      <4>1. Cardinality(after \cup {k}) = Cardinality(after) + 1
        BY <3>2, <3>4, FS_AddElement
      <4>2. Cardinality(after \cup {k}) <= Cardinality(signals)
        BY <1>4, <3>2, FS_Subset
      <4>3. QED
        BY <4>1, <4>2
    <3> DEFINE y == Cardinality(after)
    <3>7. y \in Nat /\ then(k) = y + 1 /\ y + 1 <= Cardinality(signals) /\ y + 1 < M
      BY <1>9, <3>4, <3>5, <3>6
    <3>8. references[L - y] = kept[k].id
      <4>1. later(k) = y
        BY DEF after
      <4> HIDE DEF y, later
      <4>2. QED
        BY <1>1, <1>5, <3>1, <3>7, <4>1
    <3> HIDE DEF y
    <3>9. y + 1 \in 0..(Len(cur) - 1) /\ (L + 1) - (y + 1) = L - y /\ L - y \in 1..L
      <4> DEFINE c == Cardinality(signals)
                 l == Len(cur)
      <4>1. /\ c \in Nat /\ L = Least(M, c) /\ l = Least(M, L + 1)
            /\ y \in Nat /\ y + 1 <= c /\ y + 1 < M
        BY <1>4, <1>5, <1>6, <3>7
      <4> HIDE DEF c, l
      <4>2. QED
        <5>1. y + 1 \in 0..(l - 1) /\ (L + 1) - (y + 1) = L - y /\ L - y \in 1..L
          BY <1>1, <1>3, <4>1 DEF Least
        <5>2. QED
          BY <5>1 DEF l
    <3>10. cur[Len(cur) - (y + 1)] = refs[L - y]
      BY <1>6, <3>9
    <3>11. QED
      BY <1>2, <1>3, <3>1, <3>7, <3>8, <3>9, <3>10
  <2>3. QED
    BY <2>1, <2>2
<1>10. RefersToLast(cur, b, sent)
  BY <1>8, <1>9 DEF RefersToLast, M
<1>11. QED
  BY <1>10 DEF cur, b, refs

\* What is remembered once its own evaluation is made.
LEMMA RemembersNew ==
  ASSUME NEW S, NEW kept \in Seq(S), NEW e, e.id \in EvaluationIds, NEW state,
         state.id = StateKey(e), state.references \in Seq(EvaluationIds),
         RefersToLast(state.references, kept, OwnSignals(kept, state.id))
  PROVE  /\ Remembered(state, e).id = StateKey(e)
         /\ Remembered(state, e).references \in Seq(EvaluationIds)
         /\ RemembersItsOwn(Remembered(state, e), Append(kept, e))
<1> DEFINE b == Append(kept, e)
           n == Len(kept)
           key == StateKey(e)
           own == OwnEvaluations(kept, key)
           signals == OwnSignals(kept, key)
           cur == IF IsSignal(e) THEN LatestOf(Append(state.references, e.id)) ELSE state.references
           r == Remembered(state, e)
<1>1. /\ r.id = key /\ r.snapshot = e.id.snapshot /\ r.references = cur
  BY DEF Remembered
<1>2. n \in Nat /\ b[n + 1] = e /\ \A j \in 1..n : b[j] = kept[j]
  OBVIOUS
<1>3. EvaluationPlaced(kept, e, key, e.id)
  BY EvaluationPlaces
<1>4. /\ own \in SUBSET (1..n) /\ signals \in SUBSET (1..n)
      /\ OwnEvaluations(b, key) = own \cup {n + 1}
      /\ OwnSignals(b, key) = IF IsSignal(e) THEN signals \cup {n + 1} ELSE signals
  BY <1>3 DEF EvaluationPlaced
<1>5. RefersToLast(state.references, kept, signals)
  OBVIOUS
<1>6. Max(OwnEvaluations(b, key)) = n + 1
  BY <1>2, <1>4, LastPlace
<1>7. cur \in Seq(EvaluationIds)
  <2>1. Append(state.references, e.id) \in Seq(EvaluationIds)
    OBVIOUS
  <2>2. QED
    BY <2>1, LatestFacts
<1>8. RefersToLast(cur, b, OwnSignals(b, key))
  <2>1. CASE IsSignal(e)
    <3>1. RefersToLast(LatestOf(Append(state.references, e.id)), b, signals \cup {n + 1})
      BY <1>4, <1>5, SignalReferred
    <3>2. QED
      BY <1>4, <2>1, <3>1
  <2>2. CASE ~IsSignal(e)
    <3>1. \A k \in signals : b[k] = kept[k]
      BY <1>2, <1>4
    <3> HIDE DEF b, signals, n
    <3>2. RefersToLast(state.references, b, signals)
      BY <1>5, <3>1 DEF RefersToLast
    <3>3. QED
      BY <1>4, <2>2, <3>2
  <2>3. QED
    BY <2>1, <2>2
<1> HIDE DEF b, n, own, signals, cur, r, key
<1>9. RemembersItsOwn(r, b)
  <2>1. OwnEvaluations(b, r.id) # {} /\ Max(OwnEvaluations(b, r.id)) = n + 1
    BY <1>1, <1>4, <1>6
  <2>2. r.snapshot = b[Max(OwnEvaluations(b, r.id))].id.snapshot
    BY <1>1, <1>2, <2>1
  <2>3. RefersToLast(r.references, b, OwnSignals(b, r.id))
    BY <1>1, <1>8
  <2>4. QED
    BY <2>1, <2>2, <2>3 DEF RemembersItsOwn
<1>10. QED
  BY <1>1, <1>7, <1>9 DEF r, b, key

\* Another evaluation leaves the last of an identity, and is the last of its own.
LEMMA LastMadeNext ==
  ASSUME NEW S, NEW kept \in Seq(S), NEW e
  PROVE  /\ LastMade(e, Append(kept, e))
         /\ \A c : c.id # e.id /\ LastMade(c, kept) => LastMade(c, Append(kept, e))
<1> DEFINE b == Append(kept, e)
           n == Len(kept)
<1>1. n \in Nat /\ b[n + 1] = e /\ \A j \in 1..n : b[j] = kept[j]
  OBVIOUS
<1>2. LastMade(e, b)
  <2> DEFINE own == MadeFor(kept, e.id)
  <2>1. EvaluationPlaced(kept, e, <<>>, e.id)
    BY EvaluationPlaces
  <2>2. own \in SUBSET (1..n) /\ MadeFor(b, e.id) = own \cup {n + 1}
    BY <2>1 DEF EvaluationPlaced
  <2> HIDE DEF own, b, n
  <2>3. Max(MadeFor(b, e.id)) = n + 1
    BY <1>1, <2>2, LastPlace
  <2>4. QED
    BY <1>1, <2>2, <2>3 DEF LastMade
<1>3. ASSUME NEW c, c.id # e.id, LastMade(c, kept) PROVE LastMade(c, b)
  <2> DEFINE own == MadeFor(kept, c.id)
  <2>1. EvaluationPlaced(kept, e, <<>>, c.id)
    BY EvaluationPlaces
  <2>2. own \in SUBSET (1..n) /\ MadeFor(b, c.id) = own
    BY <1>3, <2>1 DEF EvaluationPlaced
  <2>3. own # {} /\ kept[Max(own)] = c
    BY <1>3 DEF LastMade
  <2> HIDE DEF own, b, n
  <2>4. Max(own) \in 1..n
    <3>1. own \in SUBSET (0..n)
      BY <1>1, <2>2
    <3>2. Max(own) \in own
      BY <1>1, <2>3, <3>1, GreatestOf
    <3>3. QED
      BY <2>2, <3>2
  <2>5. QED
    BY <1>1, <2>2, <2>3, <2>4 DEF LastMade
<1>4. QED
  BY <1>2, <1>3 DEF b

\* What is made for a snapshot has an identity.
LEMMA EvaluationIdentified ==
  ASSUME NEW s \in Strategies, NEW i \in Intelligence, NEW reason \in Reasons, NEW gates
  PROVE  EvaluationOf(s, i, reason, gates).id \in EvaluationIds
BY DEF EvaluationOf, EvaluationIds

\* An evaluation that is made keeps the invariant.
LEMMA FinishedKeeps ==
  ASSUME FrameworkInvariant, NEW e, e.id \in EvaluationIds, ~Held(framework.cache, e.id),
         framework' = Finished(framework, e), evaluations' = Append(evaluations, e)
  PROVE  FrameworkInvariant'
<1> DEFINE key == StateKey(e)
           f == framework
           state == IF Held(f.states, key) THEN Entry(f.states, key) ELSE NoState(key)
           r == Remembered(state, e)
           b == Append(evaluations, e)
<1>1. framework' = [cache   |-> Evicted(Append(f.cache, e), MaxEvaluationCache),
                    history |-> LatestOf(Append(f.history, e)),
                    states  |-> Put(f.states, r)]
  BY DEF Finished
<1>2. PICK S : evaluations \in Seq(S) /\ f.cache \in Seq(S)
  BY DEF FrameworkInvariant
<1>3. PICK T : f.states \in Seq(T) /\ \A x \in T : x.references \in Seq(EvaluationIds)
  BY DEF FrameworkInvariant
<1>4. StatesIsolated
  BY DEF FrameworkInvariant
<1> DEFINE S0 == {c \in S : c.id # e.id /\ LastMade(c, evaluations)}
           T0 == {x \in T : RemembersItsOwn(x, evaluations)}
<1>5. f.cache \in Seq(S0)
  <2>1. ASSUME NEW k \in DOMAIN f.cache PROVE f.cache[k] \in S0
    <3>1. f.cache[k].id # e.id
      BY DEF Held, Holding
    <3>2. QED
      BY <1>2, <1>4, <2>1, <3>1 DEF StatesIsolated
  <2> HIDE DEF S0
  <2>2. QED
    BY <1>2, <2>1
<1>6. f.states \in Seq(T0)
  <2>1. \A k \in DOMAIN f.states : f.states[k] \in T0
    BY <1>3, <1>4 DEF StatesIsolated
  <2> HIDE DEF T0
  <2>2. QED
    BY <1>3, <2>1
<1>7. /\ state.id = key /\ state.references \in Seq(EvaluationIds)
      /\ RefersToLast(state.references, evaluations, OwnSignals(evaluations, state.id))
  <2>1. CASE Held(f.states, key)
    <3>1. state \in T0 /\ state.id = key
      <4> HIDE DEF T0
      <4> QED
        BY <1>6, <2>1, EntryFacts
    <3> HIDE DEF state
    <3>2. QED
      BY <1>3, <3>1 DEF RemembersItsOwn
  <2>2. CASE ~Held(f.states, key)
    <3>1. state = [id |-> key, snapshot |-> None, logical |-> None, references |-> <<>>]
      BY <2>2 DEF NoState
    <3>2. state.id = key /\ state.references = <<>>
      BY <3>1
    <3>3. OwnSignals(evaluations, key) = {}
      BY <1>4, <2>2 DEF StatesIsolated, OwnSignals, OwnEvaluations
    <3> HIDE DEF state, key
    <3>4. MaxReferences \in Nat
      BY FrameworkAssumption DEF StrategyFrameworkConfiguration
    <3>5. RefersToLast(<<>>, evaluations, {})
      <4>1. Cardinality({}) = 0 /\ Len(<<>>) = 0
        BY FS_EmptySet
      <4>2. Least(MaxReferences, 0) = 0
        BY <3>4 DEF Least
      <4>3. QED
        BY <4>1, <4>2 DEF RefersToLast
    <3>6. QED
      BY <3>2, <3>3, <3>5
  <2>3. QED
    BY <2>1, <2>2
<1> HIDE DEF state
<1>8. r.id = key /\ r.references \in Seq(EvaluationIds) /\ RemembersItsOwn(r, b)
  BY <1>2, <1>7, RemembersNew
<1> DEFINE T1 == {x \in T0 : x.id # r.id} \cup {r}
           S1 == S0 \cup {e}
<1>9. /\ framework'.states \in Seq(T1) /\ Held(framework'.states, key)
      /\ \A id : Held(f.states, id) => Held(framework'.states, id)
  <2> DEFINE old == f.states
             new == framework'.states
  <2>1. new = Put(old, r) /\ old \in Seq(T0)
    BY <1>1, <1>6
  <2> HIDE DEF r, T0, b, old, new
  <2>2. new \in Seq(T1) /\ Held(new, r.id) /\ \A id : Held(old, id) => Held(new, id)
    BY <2>1, PutApart
  <2>3. QED
    BY <1>8, <2>2 DEF old, new
<1>10. \A x \in T1 : RemembersItsOwn(x, b) /\ x.references \in Seq(EvaluationIds)
  <2>1. ASSUME NEW x \in T0, x.id # r.id
        PROVE  RemembersItsOwn(x, b) /\ x.references \in Seq(EvaluationIds)
    <3> HIDE DEF r
    <3>1. x.id # StateKey(e) /\ RemembersItsOwn(x, evaluations) /\ x \in T
      BY <1>8, <2>1
    <3> HIDE DEF T0
    <3>2. QED
      BY <1>2, <1>3, <3>1, RemembersKept
  <2> HIDE DEF T0, r, b
  <2>2. QED
    BY <1>8, <2>1
<1>11. framework'.cache \in Seq(S1)
  <2>1. framework'.cache = Evicted(Append(f.cache, e), MaxEvaluationCache) /\ MaxEvaluationCache \in Nat
    BY <1>1, FrameworkAssumption DEF StrategyFrameworkConfiguration
  <2> HIDE DEF S0
  <2>2. Append(f.cache, e) \in Seq(S1)
    BY <1>5
  <2> DEFINE all == Append(f.cache, e)
  <2> HIDE DEF S1, all
  <2>3. Evicted(all, MaxEvaluationCache) \in Seq(S1)
    BY <2>1, <2>2, EvictedFacts DEF all
  <2>4. QED
    BY <2>1, <2>3 DEF all
<1>12. \A c \in S1 : LastMade(c, b)
  BY <1>2, LastMadeNext
<1>13. evaluations' = b /\ b \in Seq(S \cup {e}) /\ framework'.cache \in Seq(S \cup {e})
  <2>1. S1 \subseteq S \cup {e}
    OBVIOUS
  <2> HIDE DEF S1, S0
  <2>2. evaluations \in Seq(S \cup {e})
    BY <1>2
  <2>3. QED
    BY <1>11, <2>1, <2>2
<1>14. framework' = [cache |-> framework'.cache, history |-> framework'.history,
                     states |-> framework'.states]
  BY <1>1
<1>15. StatesIsolated'
  <2> HIDE DEF T1, S1, r
  <2>1. \A k \in DOMAIN framework'.states : RemembersItsOwn(framework'.states[k], b)
    BY <1>9, <1>10
  <2>2. \A k \in DOMAIN framework'.cache : LastMade(framework'.cache[k], b)
    BY <1>11, <1>12
  <2>3. \A n \in DOMAIN b : Held(framework'.states, StateKey(b[n]))
    <3>1. ASSUME NEW n \in DOMAIN b PROVE Held(framework'.states, StateKey(b[n]))
      <4>1. CASE n \in DOMAIN evaluations
        <5>1. b[n] = evaluations[n]
          BY <1>2, <4>1
        <5> HIDE DEF b
        <5>2. QED
          BY <1>4, <1>9, <4>1, <5>1 DEF StatesIsolated
      <4>2. CASE n \notin DOMAIN evaluations
        <5>1. b[n] = e
          BY <1>2, <4>2
        <5> HIDE DEF b
        <5>2. QED
          BY <1>9, <5>1
      <4>3. QED
        BY <4>1, <4>2
    <3>2. QED
      BY <3>1
  <2> HIDE DEF b
  <2>4. QED
    BY <1>13, <2>1, <2>2, <2>3 DEF StatesIsolated
<1> HIDE DEF b, T1, S1, r
<1>16. QED
  BY <1>9, <1>10, <1>13, <1>14, <1>15 DEF FrameworkInvariant

\* An evaluation that is given again moves to the end of the cache.
LEMMA GivenAgainKeeps ==
  ASSUME FrameworkInvariant, NEW id, Held(framework.cache, id),
         framework' = [framework EXCEPT !.cache = Append(Without(framework.cache, id),
                                                         Entry(framework.cache, id))],
         evaluations' = evaluations
  PROVE  FrameworkInvariant'
<1> DEFINE f == framework
           after == Append(Without(f.cache, id), Entry(f.cache, id))
<1>1. framework' = [cache |-> after, history |-> f.history, states |-> f.states]
  BY DEF FrameworkInvariant
<1>2. PICK S : evaluations \in Seq(S) /\ f.cache \in Seq(S)
  BY DEF FrameworkInvariant
<1>3. StatesIsolated
  BY DEF FrameworkInvariant
<1> DEFINE S0 == {c \in S : LastMade(c, evaluations)}
<1>4. f.cache \in Seq(S0)
  <2>1. \A k \in DOMAIN f.cache : f.cache[k] \in S0
    BY <1>2, <1>3 DEF StatesIsolated
  <2> HIDE DEF S0
  <2>2. QED
    BY <1>2, <2>1
<1>5. after \in Seq(S0)
  <2> HIDE DEF S0
  <2>1. Without(f.cache, id) \in Seq(S0) /\ Entry(f.cache, id) \in S0
    BY <1>4, EntryFacts, WithoutFacts
  <2>2. QED
    BY <2>1
<1> HIDE DEF after
<1>6. framework'.cache = after /\ framework'.states = f.states
      /\ framework' = [cache |-> framework'.cache, history |-> framework'.history,
                        states |-> framework'.states]
  <2>1. framework'.cache = after /\ framework'.history = f.history /\ framework'.states = f.states
    BY <1>1
  <2>2. QED
    BY <1>1, <2>1
<1>7. after \in Seq(S) /\ \A k \in DOMAIN after : LastMade(after[k], evaluations)
  <2>1. S0 \subseteq S /\ \A c \in S0 : LastMade(c, evaluations)
    OBVIOUS
  <2> HIDE DEF S0
  <2>2. QED
    BY <1>5, <2>1
<1>8. StatesIsolated'
  BY <1>3, <1>6, <1>7 DEF StatesIsolated
<1>9. (\E U : evaluations \in Seq(U) /\ framework.cache \in Seq(U))'
  BY <1>2, <1>6, <1>7
<1>10. (\E T : framework.states \in Seq(T) /\ \A s \in T : s.references \in Seq(EvaluationIds))'
  BY <1>6 DEF FrameworkInvariant
<1>11. QED
  BY <1>6, <1>8, <1>9, <1>10 DEF FrameworkInvariant

\* Every step keeps the invariant.
LEMMA NextFramework ==
  ASSUME FrameworkInvariant, [FrameworkNext]_frameworkVars
  PROVE  FrameworkInvariant'
<1>1. CASE \E s \in Strategies, i \in {j \in Intelligence : ValidLineage(j)},
                reason \in Reasons, gates \in GateStatuses : EvaluateStrategy(s, i, reason, gates)
  <2>1. PICK s \in Strategies, i \in Intelligence, reason \in Reasons, gates \in GateStatuses :
             EvaluateStrategy(s, i, reason, gates)
    BY <1>1
  <2> DEFINE e == EvaluationOf(s, i, reason, gates)
  <2>2. e.id \in EvaluationIds
    BY EvaluationIdentified
  <2>3. \/ /\ Held(framework.cache, e.id)
           /\ framework' = [framework EXCEPT !.cache = Append(Without(framework.cache, e.id),
                                                              Entry(framework.cache, e.id))]
           /\ evaluations' = evaluations
        \/ /\ ~Held(framework.cache, e.id)
           /\ framework' = Finished(framework, e) /\ evaluations' = Append(evaluations, e)
    BY <2>1 DEF EvaluateStrategy
  <2> HIDE DEF e
  <2>4. QED
    BY <2>2, <2>3, FinishedKeeps, GivenAgainKeeps
<1>2. CASE UNCHANGED <<framework, evaluations>>
  BY <1>2 DEF FrameworkInvariant, StatesIsolated
<1>3. QED
  BY <1>1, <1>2 DEF FrameworkNext, TransitionCandidate, TickFramework, frameworkVars

\* StatesIsolated: through evictions and repeated calls, there is a state of
\* every strategy evaluated on an instrument, which remembers its own last signals
\* and its last snapshot, and what is cached is what was last made for its key.
THEOREM FrameworkIsolated == FrameworkSpec => []StatesIsolated
<1>1. FrameworkInit => FrameworkInvariant
  <2> SUFFICES ASSUME FrameworkInit PROVE FrameworkInvariant
    OBVIOUS
  <2>1. /\ framework = [cache |-> <<>>, history |-> <<>>, states |-> <<>>] /\ evaluations = <<>>
    BY DEF FrameworkInit
  <2>2. evaluations \in Seq({}) /\ framework.cache \in Seq({}) /\ framework.states \in Seq({})
    BY <2>1
  <2>3. StatesIsolated
    BY <2>1 DEF StatesIsolated
  <2>4. framework = [cache |-> framework.cache, history |-> framework.history,
                     states |-> framework.states]
    BY <2>1
  <2>5. \E S : evaluations \in Seq(S) /\ framework.cache \in Seq(S)
    BY <2>2
  <2>6. \E T : framework.states \in Seq(T) /\ \A s \in T : s.references \in Seq(EvaluationIds)
    <3> DEFINE T == {}
    <3>1. \A s \in T : s.references \in Seq(EvaluationIds)
      OBVIOUS
    <3>2. framework.states \in Seq(T)
      BY <2>2
    <3> HIDE DEF T
    <3>3. QED
      BY <3>1, <3>2
  <2>7. QED
    BY <2>3, <2>4, <2>5, <2>6 DEF FrameworkInvariant
<1>2. FrameworkInvariant /\ [FrameworkNext]_frameworkVars => FrameworkInvariant'
  BY NextFramework
<1>3. FrameworkInvariant => StatesIsolated
  BY DEF FrameworkInvariant
<1>4. QED
  BY <1>1, <1>2, <1>3, PTL DEF FrameworkSpec

-----------------------------------------------------------------------------
(* Market data: what is answered is what was known, also from the cache.   *)

\* The records that are validated.
Sources == Datasets \cup {ProviderBars}

\* The records of a series that were known at a time.
KnownBars(bars, series, asOf, closed) ==
  {b \in Range(bars) : /\ b.series = series /\ b.open <= asOf
                       /\ closed => b.closed /\ b.close # None /\ b.close <= asOf}

OfSeries(bars, series) == \A b \in bars : b.series = series /\ b.open \in Time

\* What is given is what was known of the records.
SoundBars(given, bars, series, asOf, closed) ==
  /\ OfSeries(given, series)
  /\ Strict /\ given # {} => given = KnownBars(bars, series, asOf, closed)

\* Records that are admitted under a fingerprint have no errors.
Fits(bars, fingerprint) == Strict /\ ~BarErrors(bars) /\ Fingerprint(bars) = fingerprint

\* An entry of the cache is right for all records with its fingerprint.
SoundCached(e) ==
  /\ OfSeries(e.bars, e.id[2])
  /\ \A d \in Sources : Fits(d, e.id[1]) => e.bars = KnownBars(d, e.id[2], e.id[3], e.id[4])

SoundCache(cache) == \E S : cache \in Seq(S) /\ \A e \in S : SoundCached(e)

FreshPart(p, asOf) == \E b \in p.bars : asOf - EndOf(b) <= Cadence[p.series] * StaleMultiplier

SoundPart(p, bars, asOf, closed) == SoundBars(p.bars, bars, p.series, asOf, closed)

\* What AsOfExact says of an answer.
SoundAsOf(a, bars) ==
  \A p \in a.parts : /\ SoundPart(p, bars, a.asOf, a.closed)
                     /\ a.kind = "snapshot" => FreshPart(p, a.asOf)

\* The inductive invariant.
MarketInvariant ==
  /\ \E a, c, n : market = [admission |-> a, cache |-> c, newest |-> n]
  /\ market.admission # None => admitted \in Sources /\ market.admission = Admission(admitted)
  /\ SoundCache(market.cache)
  /\ answer # None => SoundAsOf(answer, admitted)

\* Where there are no errors every record is accepted, or repeats one that is.
LEMMA AcceptedFacts ==
  ASSUME NEW bars \in Seq(NormalizedBar), ~BarErrors(bars)
  PROVE  {bars[i] : i \in AcceptedAt(bars)} = Range(bars)
<1>1. DOMAIN bars = 1..Len(bars) /\ Len(bars) \in Nat
  OBVIOUS
<1>2. /\ \A i \in DOMAIN bars : SoundBar(bars[i])
      /\ \A i \in DOMAIN bars \ AcceptedAt(bars) : \A j \in Repeats(bars, i) : bars[i] = bars[j]
  BY DEF BarErrors
<1>3. ASSUME NEW i \in DOMAIN bars
      PROVE  \E j \in AcceptedAt(bars) : bars[j] = bars[i]
  <2> DEFINE same == {j \in 1..i : SameBar(bars[i], bars[j])}
             j == Min(same)
  <2>1. same \in SUBSET Nat /\ i \in same
    BY <1>1, <1>3 DEF SameBar
  <2>2. j \in same /\ \A k \in same : j <= k
    <3> HIDE DEF same
    <3>1. QED
      BY <2>1, LeastOf
  <2>3. j \in 1..i /\ SameBar(bars[i], bars[j])
    BY <2>2
  <2>4. ASSUME NEW k \in 1..(j - 1), SameBar(bars[j], bars[k]) PROVE FALSE
    <3>1. k \in 1..i /\ k < j
      BY <1>1, <2>3
    <3>2. SameBar(bars[i], bars[k])
      BY <2>3, <2>4 DEF SameBar
    <3>3. QED
      BY <1>1, <2>2, <2>3, <3>1, <3>2
  <2> HIDE DEF j
  <2>5. j \in DOMAIN bars
    BY <1>1, <2>3
  <2>6. j \in AcceptedAt(bars)
    BY <1>2, <2>4, <2>5 DEF AcceptedAt
  <2>7. CASE i \in AcceptedAt(bars)
    BY <2>7
  <2>8. CASE i \notin AcceptedAt(bars)
    <3>1. j # i /\ j < i
      BY <1>1, <2>3, <2>6, <2>8
    <3>2. j \in Repeats(bars, i)
      BY <2>3, <2>6, <3>1 DEF Repeats
    <3>3. QED
      BY <1>2, <1>3, <2>6, <2>8, <3>2
  <2>9. QED
    BY <2>7, <2>8
<1>4. AcceptedAt(bars) \subseteq DOMAIN bars
  BY DEF AcceptedAt
<1>5. QED
  BY <1>3, <1>4 DEF Range

\* Records with the same fingerprint are the same.
LEMMA FingerprintFacts ==
  ASSUME NEW one, NEW other, Fingerprint(one) = Fingerprint(other)
  PROVE  Range(one) = Range(other)
<1>1. ASSUME NEW c PROVE Range(c) = {t[2] : t \in Fingerprint(c)}
  <2> DEFINE key(b) == <<b.series, b.open, b.close>>
             placed(i) == <<Cardinality({j \in 1..i : key(c[j]) = key(c[i])}), c[i]>>
  <2>1. Fingerprint(c) = {placed(i) : i \in DOMAIN c}
    BY DEF Fingerprint
  <2>2. \A i : placed(i)[2] = c[i]
    OBVIOUS
  <2> HIDE DEF placed
  <2>3. {t[2] : t \in {placed(i) : i \in DOMAIN c}} = {c[i] : i \in DOMAIN c}
    BY <2>2
  <2>4. QED
    BY <2>1, <2>3 DEF Range
<1>2. QED
  BY <1>1

\* What is selected of records that were admitted.
LEMMA SelectedFacts ==
  ASSUME NEW d \in Sources, NEW series, NEW asOf, NEW closed
  PROVE  /\ OfSeries(SelectedBars(Admission(d), series, asOf, closed), series)
         /\ Strict /\ Admission(d).status # "REJECTED" =>
              /\ ~BarErrors(d)
              /\ SelectedBars(Admission(d), series, asOf, closed) = KnownBars(d, series, asOf, closed)
<1>1. d \in Seq(NormalizedBar)
  BY MarketAssumption DEF Sources
<1>2. Admission(d).bars = {d[i] : i \in AcceptedAt(d)}
  BY DEF Admission
<1>3. \A b \in Admission(d).bars : b.open \in Time
  <2>1. \A i \in AcceptedAt(d) : d[i] \in NormalizedBar
    BY <1>1 DEF AcceptedAt
  <2>2. QED
    BY <1>2, <2>1 DEF NormalizedBar
<1>4. OfSeries(SelectedBars(Admission(d), series, asOf, closed), series)
  BY <1>3 DEF OfSeries, SelectedBars
<1>5. ASSUME Strict, Admission(d).status # "REJECTED"
      PROVE  /\ ~BarErrors(d)
             /\ SelectedBars(Admission(d), series, asOf, closed) = KnownBars(d, series, asOf, closed)
  <2>1. ~BarErrors(d)
    BY <1>5 DEF Admission
  <2>2. Admission(d).bars = Range(d)
    BY <1>1, <1>2, <2>1, AcceptedFacts
  <2>3. QED
    BY <2>1, <2>2 DEF SelectedBars, KnownBars
<1>6. QED
  BY <1>4, <1>5

\* An entry that is touched belongs to the cache, and nothing else is new in it.
LEMMA TouchedFacts ==
  ASSUME NEW cache, SoundCache(cache), NEW e, SoundCached(e)
  PROVE  SoundCache(Touched(cache, e))
<1>1. PICK S : cache \in Seq(S) /\ \A x \in S : SoundCached(x)
  BY DEF SoundCache
<1> DEFINE T == S \cup {e}
<1>2. Without(cache, e.id) \in Seq(S)
  BY <1>1, WithoutFacts
<1>3. Append(Without(cache, e.id), e) \in Seq(T)
  BY <1>2
<1>4. \A x \in T : SoundCached(x)
  BY <1>1
<1>5. MaxMarketCache \in Nat
  BY MarketAssumption DEF MarketConfiguration
<1> HIDE DEF T
<1>6. Touched(cache, e) \in Seq(T)
  BY <1>3, <1>5, EvictedFacts DEF Touched
<1>7. QED
  BY <1>4, <1>6 DEF SoundCache

\* A call answers what was known, and keeps the cache right.
LEMMA BarsFacts ==
  ASSUME NEW d \in Sources, NEW cache, SoundCache(cache),
         NEW series, NEW asOf, NEW closed, NEW required
  PROVE  LET call == BarsCall(Admission(d), cache, series, asOf, closed, required)
         IN SoundBars(call.bars, d, series, asOf, closed) /\ SoundCache(call.cache)
<1> DEFINE a == Admission(d)
           key == CacheKey(a, series, asOf, closed)
           fresh == SelectedBars(a, series, asOf, closed)
           call == BarsCall(a, cache, series, asOf, closed, required)
           old == Entry(cache, key)
           new == [id |-> key, bars |-> fresh]
<1>1. /\ OfSeries(fresh, series)
      /\ Strict /\ a.status # "REJECTED" =>
           ~BarErrors(d) /\ fresh = KnownBars(d, series, asOf, closed)
  BY SelectedFacts
<1>2. key = <<Fingerprint(d), series, asOf, closed>>
  BY DEF CacheKey, Admission
<1>3. CASE a.status = "REJECTED" \/ ~available
  <2>1. call.bars = {} /\ call.cache = cache
    BY <1>3 DEF BarsCall
  <2>2. QED
    BY <2>1 DEF SoundBars, OfSeries
<1>4. CASE ~(a.status = "REJECTED" \/ ~available) /\ Held(cache, key)
  <2>1. call.bars = old.bars /\ call.cache = Touched(cache, old)
    BY <1>4 DEF BarsCall
  <2>2. SoundCached(old) /\ old.id = key
    <3>1. PICK S : cache \in Seq(S) /\ \A x \in S : SoundCached(x)
      BY DEF SoundCache
    <3> HIDE DEF key
    <3>2. QED
      BY <1>4, <3>1, EntryFacts
  <2>3. SoundCache(call.cache)
    <3> HIDE DEF old, call
    <3>1. QED
      BY <2>1, <2>2, TouchedFacts
  <2>4. SoundBars(old.bars, d, series, asOf, closed)
    <3>1. Strict => Fits(d, old.id[1])
      <4> HIDE DEF a
      <4>1. QED
        BY <1>1, <1>2, <1>4, <2>2 DEF Fits
    <3>2. old.id[2] = series /\ old.id[3] = asOf /\ old.id[4] = closed
      <4> HIDE DEF old
      <4>1. QED
        BY <1>2, <2>2
    <3> HIDE DEF old
    <3>3. QED
      BY <2>2, <3>1, <3>2 DEF SoundBars, SoundCached
  <2>5. QED
    BY <2>1, <2>3, <2>4
<1>5. CASE /\ ~(a.status = "REJECTED" \/ ~available) /\ ~Held(cache, key)
           /\ Cardinality(fresh) < required
  <2>1. call.bars = {} /\ call.cache = cache
    BY <1>5 DEF BarsCall
  <2>2. QED
    BY <2>1 DEF SoundBars, OfSeries
<1>6. CASE /\ ~(a.status = "REJECTED" \/ ~available) /\ ~Held(cache, key)
           /\ ~(Cardinality(fresh) < required)
  <2>1. call.bars = fresh /\ call.cache = Touched(cache, new)
    BY <1>6 DEF BarsCall
  <2>2. SoundBars(fresh, d, series, asOf, closed)
    <3> HIDE DEF fresh, a
    <3>1. QED
      BY <1>1, <1>6 DEF SoundBars
  <2>3. SoundCached(new)
    <3>1. new.id = <<Fingerprint(d), series, asOf, closed>> /\ new.bars = fresh
      BY <1>2
    <3>2. ASSUME NEW c \in Sources, Fits(c, Fingerprint(d))
          PROVE  fresh = KnownBars(c, series, asOf, closed)
      <4>1. Strict /\ Range(c) = Range(d)
        BY <3>2, FingerprintFacts DEF Fits
      <4>2. fresh = KnownBars(d, series, asOf, closed)
        <5> HIDE DEF fresh, a
        <5>1. QED
          BY <1>1, <1>6, <4>1
      <4> HIDE DEF fresh
      <4>3. QED
        BY <4>1, <4>2 DEF KnownBars
    <3> HIDE DEF new, fresh
    <3>3. QED
      BY <1>1, <3>1, <3>2 DEF SoundCached
  <2>4. SoundCache(call.cache)
    <3> HIDE DEF new, call
    <3>1. QED
      BY <2>1, <2>3, TouchedFacts
  <2>5. QED
    BY <2>1, <2>2, <2>4
<1>7. QED
  BY <1>3, <1>4, <1>5, <1>6

\* The last bar of a series is one of it.
LEMMA LastBarFacts ==
  ASSUME NEW bars, bars # {}, NEW series, OfSeries(bars, series)
  PROVE  LastBar(bars) \in bars
<1> DEFINE opens == {b.open : b \in bars}
<1>1. MaxTime \in Nat /\ opens \in SUBSET (0..MaxTime) /\ opens # {}
  BY EvidenceAssumption DEF OfSeries, Time
<1>2. Max(opens) \in opens /\ \A k \in opens : k <= Max(opens)
  <2> HIDE DEF opens
  <2>1. QED
    BY <1>1, GreatestOf
<1>3. \E b \in bars : \A c \in bars : c.open <= b.open
  <2>1. PICK b \in bars : b.open = Max(opens)
    BY <1>2
  <2>2. \A c \in bars : c.open \in opens
    OBVIOUS
  <2> HIDE DEF opens
  <2>3. QED
    BY <1>2, <2>1, <2>2
<1>4. QED
  BY <1>3 DEF LastBar

\* The series of a snapshot are fresh.
LEMMA SynchronizedFacts ==
  ASSUME NEW parts, NEW asOf, Synchronization(parts, asOf) = "SYNCHRONIZED",
         NEW bars \in parts, NEW series, OfSeries(bars, series)
  PROVE  \E b \in bars : asOf - EndOf(b) <= Cadence[series] * StaleMultiplier
<1> DEFINE current(p) == asOf - EndOf(LastBar(p)) <= Cadence[LastBar(p).series] * StaleMultiplier
                           /\ Cadence[LastBar(p).series] > 0
<1>1. Synchronization(parts, asOf) =
        IF {} \in parts THEN "INSUFFICIENT_DATA"
        ELSE IF \E p \in parts : EndOf(LastBar(p)) > asOf THEN "UNSYNCHRONIZED"
        ELSE IF \A p \in parts : current(p) THEN "SYNCHRONIZED"
        ELSE IF \E p \in parts : current(p) THEN "PARTIALLY_SYNCHRONIZED" ELSE "UNSYNCHRONIZED"
  BY Zenon DEF Synchronization
<1>2. bars # {} /\ current(bars)
  <2> HIDE DEF current
  <2>1. QED
    BY <1>1
<1>3. LastBar(bars) \in bars
  BY <1>2, LastBarFacts
<1>4. LastBar(bars).series = series
  BY <1>3 DEF OfSeries
<1>5. QED
  BY <1>2, <1>3, <1>4

\* A validation.
LEMMA ValidatePreserves ==
  ASSUME MarketInvariant, NEW bars \in Sources, Validate(bars)
  PROVE  MarketInvariant'
<1>1. PICK a, c, n : market = [admission |-> a, cache |-> c, newest |-> n]
  BY DEF MarketInvariant
<1>2. /\ market' = [admission |-> Admission(bars), cache |-> c, newest |-> n]
      /\ admitted' = bars /\ answer' = None
  BY <1>1 DEF Validate
<1>3. SoundCache(market'.cache)
  BY <1>1, <1>2 DEF MarketInvariant
<1>4. market'.admission = Admission(bars)
  BY <1>2
<1>5. QED
  BY <1>2, <1>3, <1>4 DEF MarketInvariant

\* The admission a call works with is that of the records it is validated against.
LEMMA AdmissionFacts ==
  ASSUME MarketInvariant, Validated
  PROVE  admitted' \in Sources /\ AdmissionOf(market) = Admission(admitted')
BY DEF MarketInvariant, Validated, AdmissionOf, Sources

\* A call that admits, answers and leaves a sound cache.
LEMMA AnswerPreserves ==
  ASSUME MarketInvariant, Validated, NEW cache, SoundCache(cache),
         market' = [market EXCEPT !.admission = AdmissionOf(market), !.cache = cache],
         answer' # None => SoundAsOf(answer', admitted')
  PROVE  MarketInvariant'
<1>1. PICK a, c, n : market = [admission |-> a, cache |-> c, newest |-> n]
  BY DEF MarketInvariant
<1>2. market' = [admission |-> AdmissionOf(market), cache |-> cache, newest |-> n]
  BY <1>1
<1>3. admitted' \in Sources /\ AdmissionOf(market) = Admission(admitted')
  BY AdmissionFacts
<1>4. market'.admission = Admission(admitted') /\ market'.cache = cache
  BY <1>2, <1>3
<1>5. QED
  BY <1>2, <1>3, <1>4 DEF MarketInvariant

\* Bars that are asked for.
LEMMA AskPreserves ==
  ASSUME MarketInvariant, NEW series, NEW asOf, NEW closed, NEW required,
         AskBars(series, asOf, closed, required)
  PROVE  MarketInvariant'
<1> DEFINE a == AdmissionOf(market)
           call == BarsCall(a, market.cache, series, asOf, closed, required)
           part == [series |-> series, bars |-> call.bars]
<1>1. /\ market' = [market EXCEPT !.admission = a, !.cache = call.cache]
      /\ answer' = [kind |-> "bars", parts |-> {part}, asOf |-> asOf, closed |-> closed]
      /\ Validated
  BY DEF AskBars
<1>2. admitted' \in Sources /\ a = Admission(admitted')
  BY <1>1, AdmissionFacts
<1>3. SoundBars(call.bars, admitted', series, asOf, closed) /\ SoundCache(call.cache)
  BY <1>2, BarsFacts DEF MarketInvariant
<1>4. SoundAsOf(answer', admitted')
  <2>1. /\ answer'.parts = {part} /\ answer'.kind = "bars"
        /\ answer'.asOf = asOf /\ answer'.closed = closed
    BY <1>1
  <2>2. SoundPart(part, admitted', asOf, closed)
    <3>1. part.bars = call.bars /\ part.series = series
      OBVIOUS
    <3>2. QED
      BY <1>3, <3>1 DEF SoundPart
  <2> HIDE DEF part
  <2>3. QED
    BY <2>1, <2>2 DEF SoundAsOf
<1>5. QED
  <2> HIDE DEF call
  <2>1. QED
    BY <1>1, <1>3, <1>4, AnswerPreserves

\* A snapshot.
LEMMA SnapshotPreserves ==
  ASSUME MarketInvariant, NEW asOf, NEW required, CreateSnapshot(asOf, required)
  PROVE  MarketInvariant'
<1> DEFINE a == AdmissionOf(market)
           context == BarsCall(a, market.cache, Roles.context, asOf, TRUE, required)
           strategy == BarsCall(a, context.cache, Roles.strategy, asOf, TRUE, required)
           execution == BarsCall(a, strategy.cache, Roles.execution, asOf, TRUE, required)
           first == [series |-> Roles.context, bars |-> context.bars]
           second == [series |-> Roles.strategy, bars |-> strategy.bars]
           third == [series |-> Roles.execution, bars |-> execution.bars]
           parts == {first, second, third}
           all == {p.bars : p \in parts}
           taken == DataHealth(a, all, asOf) = "HEALTHY" /\ Synchronization(all, asOf) = "SYNCHRONIZED"
           given == [kind |-> "snapshot", parts |-> parts, asOf |-> asOf, closed |-> TRUE,
                     spread |-> SpreadHealth(execution.bars)]
<1>1. /\ market' = [market EXCEPT !.admission = a, !.cache = execution.cache]
      /\ answer' = IF taken THEN given ELSE None
      /\ Validated
  BY Zenon DEF CreateSnapshot
<1>2. admitted' \in Sources /\ a = Admission(admitted')
  BY <1>1, AdmissionFacts
<1>3. SoundBars(context.bars, admitted', Roles.context, asOf, TRUE) /\ SoundCache(context.cache)
  BY <1>2, BarsFacts DEF MarketInvariant
<1>4. SoundBars(strategy.bars, admitted', Roles.strategy, asOf, TRUE) /\ SoundCache(strategy.cache)
  <2> HIDE DEF context, a
  <2>1. QED
    BY <1>2, <1>3, BarsFacts
<1>5. SoundBars(execution.bars, admitted', Roles.execution, asOf, TRUE) /\ SoundCache(execution.cache)
  <2> HIDE DEF strategy, a
  <2>1. QED
    BY <1>2, <1>4, BarsFacts
<1>6. \A p \in parts : SoundPart(p, admitted', asOf, TRUE)
  <2> HIDE DEF context, strategy, execution
  <2>1. /\ first.series = Roles.context /\ first.bars = context.bars
        /\ second.series = Roles.strategy /\ second.bars = strategy.bars
        /\ third.series = Roles.execution /\ third.bars = execution.bars
    OBVIOUS
  <2> HIDE DEF first, second, third
  <2>2. QED
    BY <1>3, <1>4, <1>5, <2>1 DEF SoundPart
<1>7. SoundAsOf(given, admitted') \/ ~taken
  <2> SUFFICES ASSUME taken PROVE SoundAsOf(given, admitted')
    OBVIOUS
  <2>1. Synchronization(all, asOf) = "SYNCHRONIZED"
    OBVIOUS
  <2>2. \A p \in parts : FreshPart(p, asOf)
    <3> SUFFICES ASSUME NEW p \in parts PROVE FreshPart(p, asOf)
      OBVIOUS
    <3>1. p.bars \in all /\ OfSeries(p.bars, p.series)
      <4>1. SoundPart(p, admitted', asOf, TRUE)
        BY <1>6
      <4> HIDE DEF parts
      <4>2. QED
        BY <4>1 DEF SoundPart, SoundBars
    <3> HIDE DEF all, parts
    <3>2. QED
      BY <2>1, <3>1, SynchronizedFacts DEF FreshPart
  <2>3. given.parts = parts /\ given.asOf = asOf /\ given.closed = TRUE
    OBVIOUS
  <2> HIDE DEF given, parts
  <2>4. QED
    BY <1>6, <2>2, <2>3 DEF SoundAsOf
<1>8. answer' # None => SoundAsOf(answer', admitted')
  <2> HIDE DEF taken, given
  <2>1. QED
    BY <1>1, <1>7
<1>9. QED
  <2> HIDE DEF execution
  <2>1. QED
    BY <1>1, <1>5, <1>8, AnswerPreserves

\* The invariant holds from the start, and every call keeps it.
LEMMA MarketStep ==
  /\ MarketInit => MarketInvariant
  /\ MarketInvariant /\ [MarketNext]_marketVars => MarketInvariant'
<1>1. ASSUME MarketInit PROVE MarketInvariant
  <2>1. /\ market = [admission |-> None, cache |-> <<>>, newest |-> [s \in DOMAIN Cadence |-> None]]
        /\ answer = None
    BY <1>1 DEF MarketInit
  <2>2. SoundCache(<<>>)
    <3> DEFINE T == {}
    <3>1. <<>> \in Seq(T) /\ \A e \in T : SoundCached(e)
      OBVIOUS
    <3> HIDE DEF T
    <3>2. QED
      BY <3>1, Zenon DEF SoundCache
  <2>3. market.admission = None /\ market.cache = <<>>
    BY <2>1
  <2>4. QED
    BY <2>1, <2>2, <2>3 DEF MarketInvariant
<1>2. ASSUME MarketInvariant, [MarketNext]_marketVars PROVE MarketInvariant'
  <2>1. CASE \E bars \in Datasets \cup {ProviderBars} : Validate(bars)
    BY <1>2, <2>1, ValidatePreserves DEF Sources
  <2>2. CASE \E s \in DOMAIN Cadence, t \in AskedTimes, c \in BOOLEAN, r \in RequiredBars \cup {MinimumHistory} :
               AskBars(s, t, c, r)
    BY <1>2, <2>2, AskPreserves
  <2>3. CASE \E t \in AskedTimes, r \in RequiredBars \cup {MinimumHistory} : CreateSnapshot(t, r)
    BY <1>2, <2>3, SnapshotPreserves
  <2>4. CASE \E i \in DOMAIN ProviderBars : market.cache = <<>> /\ DetectNewBar(ProviderBars[i])
    <3>1. PICK i : DetectNewBar(ProviderBars[i])
      BY <2>4
    <3>2. PICK a, c, n : market = [admission |-> a, cache |-> c, newest |-> n]
      BY <1>2 DEF MarketInvariant
    <3>3. /\ answer' = answer /\ admitted' = admitted
          /\ \E m : market' = [admission |-> a, cache |-> c, newest |-> m]
      BY <3>1, <3>2 DEF DetectNewBar
    <3>4. market'.admission = market.admission /\ market'.cache = market.cache
      BY <3>2, <3>3
    <3>5. QED
      BY <1>2, <3>3, <3>4 DEF MarketInvariant
  <2>5. CASE ProviderTurns \/ UNCHANGED marketVars
    BY <1>2, <2>5 DEF ProviderTurns, marketVars, MarketInvariant
  <2>6. QED
    BY <1>2, <2>1, <2>2, <2>3, <2>4, <2>5 DEF MarketNext
<1>3. QED
  BY <1>1, <1>2

\* AsOfExact: what is answered, from the cache or not, is all that was known
\* of the records at the time that was asked about, and nothing that came later; and no
\* series of a snapshot is out of date.
THEOREM AnswersAsOf == MarketSpec => []AsOfExact
<1>1. MarketInvariant => AsOfExact
  <2> SUFFICES ASSUME MarketInvariant, answer # None, NEW p \in answer.parts
               PROVE  /\ Strict /\ p.bars # {} =>
                           p.bars = KnownBars(admitted, p.series, answer.asOf, answer.closed)
                      /\ answer.kind = "snapshot" => FreshPart(p, answer.asOf)
    BY DEF AsOfExact, KnownBars, FreshPart
  <2>1. QED
    BY DEF MarketInvariant, SoundAsOf, SoundPart, SoundBars
<1>2. QED
  BY <1>1, MarketStep, PTL DEF MarketSpec

-----------------------------------------------------------------------------
(* Sessions: they are open by their own wall clocks.                       *)

\* What a snapshot says of the sessions that are open at an instant.
SaysOf(s, i, t) ==
  LET active == ActiveSessions[i][t]
  IN /\ s.at = t /\ s.instrument = i /\ s.active = {d.id : d \in active}
     /\ s.since = IF active = {} THEN None ELSE SinceOpen(active, t)
     /\ s.left = IF active = {} THEN None ELSE ToClose(active, t)

\* The inductive invariant: the last snapshot is one of an instant.
SessionInvariant ==
  sessions.snapshot # None =>
    \E i \in DOMAIN SessionsOf, t \in Instants : SaysOf(sessions.snapshot, i, t)

\* Of one or two instants the last and the first are among them.
LEMMA EndsOf ==
  ASSUME NEW a \in Int, NEW b \in Int, NEW S \in SUBSET {a, b}, S # {}
  PROVE  /\ Max(S) \in S /\ \A x \in S : x <= Max(S)
         /\ Min(S) \in S /\ \A x \in S : Min(S) <= x
<1>0. (a \in S \/ b \in S) /\ \A y \in S : y = a \/ y = b
  OBVIOUS
<1>1. \E x \in S : \A y \in S : x >= y
  <2>1. CASE a \in S /\ (b \in S => b <= a)
    BY <1>0, <2>1
  <2>2. CASE b \in S /\ (a \in S => a <= b)
    BY <1>0, <2>2
  <2>3. QED
    BY <1>0, <2>1, <2>2
<1>2. \E x \in S : \A y \in S : x =< y
  <2>1. CASE a \in S /\ (b \in S => a <= b)
    BY <1>0, <2>1
  <2>2. CASE b \in S /\ (a \in S => b <= a)
    BY <1>0, <2>2
  <2>3. QED
    BY <1>0, <2>1, <2>2
<1>3. Max(S) \in S /\ \A y \in S : Max(S) >= y
  BY <1>1 DEF Max
<1>4. Min(S) \in S /\ \A y \in S : Min(S) =< y
  BY <1>2 DEF Min
<1>5. QED
  BY <1>3, <1>4

\* A boundary is resolved exactly if the clock of its zone shows it; then to the
\* first of the instants at which it does, or to the last.
LEMMA Resolved ==
  ASSUME NEW zone \in DOMAIN Zones, NEW wall \in Int, NEW fold \in {0, 1}
  PROVE  LET found == Candidates(zone, wall)
             it    == ResolveLocal(zone, wall, fold).instant
         IN /\ found = {} => it = None
            /\ found # {} =>
                 /\ it \in found /\ it \in Int /\ it # None
                 /\ \A x \in found : IF fold = 1 THEN x <= it ELSE it <= x
<1> DEFINE found == Candidates(zone, wall)
           it    == ResolveLocal(zone, wall, fold).instant
<1>1. Zones[zone].before \in Int /\ Zones[zone].after \in Int
  BY SessionAssumption
<1>2. found = {} => it = None
  BY DEF ResolveLocal
<1>3. fold # None
  BY NoInstantIsNone
<1>4. found # {} => it = IF fold = 1 THEN Max(found) ELSE Min(found)
  BY <1>3 DEF ResolveLocal
<1>5. found \in SUBSET {wall - Zones[zone].before, wall - Zones[zone].after}
  BY DEF Candidates
<1>6. found # {} => /\ Max(found) \in found /\ \A x \in found : x <= Max(found)
                    /\ Min(found) \in found /\ \A x \in found : Min(found) <= x
  <2>1. PICK b \in Int, a \in Int : b = wall - Zones[zone].before /\ a = wall - Zones[zone].after
    BY <1>1
  <2> HIDE DEF found
  <2>2. found \in SUBSET {b, a}
    BY <1>5, <2>1
  <2>3. QED
    BY <2>2, EndsOf
<1>7. found # {} => it \in found /\ (\A x \in found : IF fold = 1 THEN x <= it ELSE it <= x)
  <2> HIDE DEF found, it
  <2> QED
    BY <1>4, <1>6
<1>8. \A x \in found : x \in Int
  BY <1>1, <1>5
<1>9. found # {} => it # None
  <2> HIDE DEF found, it
  <2> QED
    BY <1>7, <1>8, NoInstantIsNone
<1>10. QED
  <2> HIDE DEF found, it
  <2>1. /\ found = {} => it = None
        /\ found # {} =>
             /\ it \in found /\ it \in Int /\ it # None
             /\ \A x \in found : IF fold = 1 THEN x <= it ELSE it <= x
    BY <1>2, <1>7, <1>8, <1>9
  <2>2. QED
    BY <2>1 DEF found, it

\* An instant at which a clock shows a time is a candidate.
LEMMA ShownIsCandidate ==
  ASSUME NEW zone \in DOMAIN Zones, NEW wall \in Int, NEW t \in Int, Wall(zone, t) = wall
  PROVE  t \in Candidates(zone, wall)
BY SessionAssumption DEF Candidates, Wall

\* Once a clock is past a time that it shows, the first instant at which it
\* showed it is over.
LEMMA OpenedByThen ==
  ASSUME NEW zone \in DOMAIN Zones, NEW wall \in Int, NEW t \in Int, wall <= Wall(zone, t),
         Candidates(zone, wall) # {}
  PROVE  ResolveLocal(zone, wall, 0).instant <= t
<1> DEFINE it == ResolveLocal(zone, wall, 0).instant
<1>1. PICK b \in Int, a \in Int, c \in Int :
        b = Zones[zone].before /\ a = Zones[zone].after /\ c = Zones[zone].at
  BY SessionAssumption
<1>2. it \in Int /\ \A x \in Candidates(zone, wall) : it <= x
  BY Resolved
<1>3. \A x \in Int : x \in Candidates(zone, wall)
                       <=> (x < c /\ x + b = wall) \/ (~(x < c) /\ x + a = wall)
  BY <1>1 DEF Candidates, Wall
<1>4. PICK x \in Int : x \in Candidates(zone, wall)
  BY <1>1 DEF Candidates
<1>5. IF t < c THEN wall <= t + b ELSE wall <= t + a
  BY <1>1 DEF Wall
<1> HIDE DEF it
<1>6. (wall - b < c => it <= wall - b) /\ (~(wall - a < c) => it <= wall - a)
  <2>1. wall - b < c => wall - b \in Candidates(zone, wall)
    BY <1>3
  <2>2. ~(wall - a < c) => wall - a \in Candidates(zone, wall)
    BY <1>3
  <2>3. QED
    BY <1>2, <2>1, <2>2
<1>7. it <= x
  BY <1>2, <1>4
<1>8. (x < c /\ x + b = wall) \/ (~(x < c) /\ x + a = wall)
  BY <1>3, <1>4
<1>9. it <= t
  BY <1>2, <1>5, <1>6, <1>7, <1>8
<1>10. QED
  BY <1>9 DEF it

\* Before a clock has come to a time that it shows, the last instant at which
\* it shows it is still to come.
LEMMA ClosesAfterThen ==
  ASSUME NEW zone \in DOMAIN Zones, NEW wall \in Int, NEW t \in Int, Wall(zone, t) < wall,
         Candidates(zone, wall) # {}
  PROVE  t < ResolveLocal(zone, wall, 1).instant
<1> DEFINE it == ResolveLocal(zone, wall, 1).instant
<1>1. PICK b \in Int, a \in Int, c \in Int :
        b = Zones[zone].before /\ a = Zones[zone].after /\ c = Zones[zone].at
  BY SessionAssumption
<1>2. it \in Int /\ \A x \in Candidates(zone, wall) : x <= it
  BY Resolved
<1>3. \A x \in Int : x \in Candidates(zone, wall)
                       <=> (x < c /\ x + b = wall) \/ (~(x < c) /\ x + a = wall)
  BY <1>1 DEF Candidates, Wall
<1>4. PICK x \in Int : x \in Candidates(zone, wall)
  BY <1>1 DEF Candidates
<1>5. IF t < c THEN t + b < wall ELSE t + a < wall
  BY <1>1 DEF Wall
<1> HIDE DEF it
<1>6. (wall - b < c => wall - b <= it) /\ (~(wall - a < c) => wall - a <= it)
  <2>1. wall - b < c => wall - b \in Candidates(zone, wall)
    BY <1>3
  <2>2. ~(wall - a < c) => wall - a \in Candidates(zone, wall)
    BY <1>3
  <2>3. QED
    BY <1>2, <2>1, <2>2
<1>7. x <= it
  BY <1>2, <1>4
<1>8. (x < c /\ x + b = wall) \/ (~(x < c) /\ x + a = wall)
  BY <1>3, <1>4
<1>9. t < it
  BY <1>2, <1>5, <1>6, <1>7, <1>8
<1>10. QED
  BY <1>9 DEF it

\* A wall time is so long after a midnight, and a day as long as a day.
LEMMA WallTimes ==
  ASSUME NEW wall \in Int
  PROVE  /\ DayOf(wall) \in Int /\ ClockOf(wall) \in Int /\ Midnight(DayOf(wall)) \in Int
         /\ wall = Midnight(DayOf(wall)) + ClockOf(wall)
         /\ 0 <= ClockOf(wall) /\ ClockOf(wall) < DayLength
<1>1. DayLength \in Nat \ {0}
  BY SessionAssumption
<1>2. /\ wall \div DayLength \in Int /\ wall % DayLength \in 0..(DayLength - 1)
      /\ wall = DayLength * (wall \div DayLength) + (wall % DayLength)
  <2>1. PICK n \in Int : n = DayLength /\ n > 0
    BY <1>1
  <2>2. wall \div n \in Int
    BY <2>1
  <2>3. wall % n \in 0..(n - 1)
    BY <2>1
  <2>4. wall = n * (wall \div n) + (wall % n)
    BY <2>1
  <2>5. QED
    BY <2>1, <2>2, <2>3, <2>4
<1>3. DayLength * (wall \div DayLength) = (wall \div DayLength) * DayLength
  BY <1>1, <1>2
<1>4. (wall \div DayLength) * DayLength \in Int
  BY <1>1, <1>2
<1>5. QED
  BY <1>1, <1>2, <1>3, <1>4 DEF DayOf, ClockOf, Midnight

LEMMA NextMidnight ==
  ASSUME NEW day \in Int
  PROVE  /\ Midnight(day) \in Int /\ Midnight(day + 1) = Midnight(day) + DayLength
<1>1. DayLength \in Nat
  BY SessionAssumption
<1>2. (day + 1) * DayLength = day * DayLength + DayLength
  BY <1>1
<1>3. QED
  BY <1>1, <1>2 DEF Midnight

\* What a definition of a session is.
LEMMA DefinitionFacts ==
  ASSUME NEW i \in DOMAIN SessionsOf, NEW d \in SessionsOf[i]
  PROVE  /\ d.zone \in DOMAIN Zones /\ d.enabled \in BOOLEAN
         /\ d.open \in Int /\ 0 <= d.open /\ d.open < DayLength
         /\ d.close \in Int /\ 0 <= d.close /\ d.close < DayLength
         /\ d.open # d.close
         /\ \A e \in SessionsOf[i] : e.id = d.id => e = d
<1>1. DayLength \in Nat \ {0}
  BY SessionAssumption
<1>2. /\ d \in SessionDefinition /\ d.open # d.close
      /\ \A e \in SessionsOf[i] : e.id = d.id => e = d
  BY SessionAssumption DEF SessionConfiguration
<1>3. d.zone \in DOMAIN Zones /\ d.enabled \in BOOLEAN /\ d.open \in Clock /\ d.close \in Clock
  BY <1>2 DEF SessionDefinition
<1>4. QED
  BY <1>1, <1>2, <1>3 DEF Clock

LEMMA WallInt ==
  ASSUME NEW zone \in DOMAIN Zones, NEW t \in Int
  PROVE  Wall(zone, t) \in Int
BY SessionAssumption DEF Wall

\* When the boundaries of a session open on a day are shown, it is open from the
\* one to the other.
LEMMA OpenBetween ==
  ASSUME NEW i \in DOMAIN SessionsOf, NEW d \in SessionsOf[i], NEW t \in Int, NEW day \in Int,
         Weekday(day) \in d.weekdays,
         day = DayOf(Wall(d.zone, t)) \/ (d.open > d.close /\ day = DayOf(Wall(d.zone, t)) - 1),
         Candidates(d.zone, Midnight(day) + d.open) # {},
         Candidates(d.zone, Midnight(IF d.open > d.close THEN day + 1 ELSE day) + d.close) # {},
         Midnight(day) + d.open <= Wall(d.zone, t),
         Wall(d.zone, t) < Midnight(IF d.open > d.close THEN day + 1 ELSE day) + d.close
  PROVE  day \in OpenedOn(d, t)
<1> DEFINE opening == Midnight(day) + d.open
           closing == Midnight(IF d.open > d.close THEN day + 1 ELSE day) + d.close
           w       == Opening(d, day)
<1>1. d.zone \in DOMAIN Zones /\ d.open \in Int /\ d.close \in Int
  BY DefinitionFacts
<1>2. opening \in Int /\ closing \in Int
  BY <1>1, NextMidnight
<1>3. w.open = ResolveLocal(d.zone, opening, 0).instant /\ w.close = ResolveLocal(d.zone, closing, 1).instant
  BY DEF Opening
<1>4. /\ Candidates(d.zone, opening) # {} /\ Candidates(d.zone, closing) # {}
      /\ opening <= Wall(d.zone, t) /\ Wall(d.zone, t) < closing
  OBVIOUS
<1>5. None \notin {w.open, w.close} /\ w.open <= t /\ t < w.close
  <2> HIDE DEF opening, closing, w
  <2>1. w.open # None /\ w.close # None
    BY <1>1, <1>2, <1>3, <1>4, Resolved
  <2>2. w.open <= t
    BY <1>1, <1>2, <1>3, <1>4, OpenedByThen
  <2>3. t < w.close
    BY <1>1, <1>2, <1>3, <1>4, ClosesAfterThen
  <2>4. QED
    BY <2>1, <2>2, <2>3
<1>6. day \in (IF d.open > d.close THEN {DayOf(Wall(d.zone, t)) - 1, DayOf(Wall(d.zone, t))}
              ELSE {DayOf(Wall(d.zone, t))})
  OBVIOUS
<1>7. QED
  BY <1>5, <1>6 DEF OpenedOn

\* The day on which a session opens that is open by the wall clock.
OpeningDay(d, t) ==
  LET wall == Wall(d.zone, t)
  IN IF d.open > d.close /\ ClockOf(wall) < d.close THEN DayOf(wall) - 1 ELSE DayOf(wall)

\* The wall clock shows a time between the opening and the close.
WithinHours(d, t) ==
  LET hour == ClockOf(Wall(d.zone, t))
  IN IF d.open > d.close THEN hour >= d.open \/ hour < d.close
     ELSE hour >= d.open /\ hour < d.close

ClosingWall(d, day) == Midnight(IF d.open > d.close THEN day + 1 ELSE day) + d.close

\* Between these hours the wall clock is between the boundaries of that day.
LEMMA HoursOfDay ==
  ASSUME NEW i \in DOMAIN SessionsOf, NEW d \in SessionsOf[i], NEW t \in Int, WithinHours(d, t)
  PROVE  /\ OpeningDay(d, t) \in Int
         /\ Midnight(OpeningDay(d, t)) + d.open <= Wall(d.zone, t)
         /\ Wall(d.zone, t) < ClosingWall(d, OpeningDay(d, t))
<1>1. /\ d.zone \in DOMAIN Zones
      /\ d.open \in Int /\ 0 <= d.open /\ d.open < DayLength
      /\ d.close \in Int /\ 0 <= d.close /\ d.close < DayLength
  BY DefinitionFacts
<1>2. PICK length \in Int : length = DayLength
  BY SessionAssumption
<1>3. PICK wall \in Int : wall = Wall(d.zone, t)
  BY <1>1, WallInt
<1>4. PICK today \in Int, hour \in Int, midnight \in Int :
        /\ today = DayOf(wall) /\ hour = ClockOf(wall) /\ midnight = Midnight(today)
        /\ wall = midnight + hour /\ 0 <= hour /\ hour < DayLength
  BY WallTimes
<1>5. Midnight(today + 1) = midnight + DayLength /\ Midnight(today - 1) = midnight - DayLength
      /\ Midnight((today - 1) + 1) = midnight
  <2>1. PICK yesterday \in Int, same \in Int :
          yesterday = today - 1 /\ same = (today - 1) + 1 /\ same = today
    OBVIOUS
  <2>2. Midnight(same) = midnight
    BY <1>4, <2>1
  <2>3. Midnight(yesterday) \in Int /\ Midnight(yesterday + 1) = Midnight(yesterday) + DayLength
    BY NextMidnight
  <2>4. yesterday + 1 = same
    BY <2>1
  <2>5. Midnight(yesterday + 1) = midnight
    BY <2>2, <2>4
  <2>6. Midnight(yesterday) = midnight - DayLength
    BY <1>2, <1>4, <2>3, <2>5
  <2>7. Midnight(today + 1) = midnight + DayLength
    BY <1>4, NextMidnight
  <2>8. QED
    BY <2>1, <2>2, <2>6, <2>7
<1>6. PICK day \in Int : day = OpeningDay(d, t)
  BY <1>3, <1>4 DEF OpeningDay
<1>7. CASE d.open > d.close /\ hour < d.close
  <2>1. day = today - 1
    BY <1>3, <1>4, <1>6, <1>7 DEF OpeningDay
  <2>2. ClosingWall(d, day) = midnight + d.close /\ Midnight(day) = midnight - DayLength
    BY <1>5, <1>7, <2>1 DEF ClosingWall
  <2>3. Midnight(day) + d.open <= wall /\ wall < ClosingWall(d, day)
    <3>1. wall = midnight + hour /\ 0 <= hour /\ hour < d.close /\ d.open < length
      BY <1>1, <1>2, <1>4, <1>7
    <3>2. ClosingWall(d, day) = midnight + d.close /\ Midnight(day) = midnight - length
      BY <1>2, <2>2
    <3>3. wall < midnight + d.close /\ (midnight - length) + d.open <= wall
      BY <1>1, <3>1
    <3>4. QED
      BY <3>2, <3>3
  <2>4. QED
    BY <1>3, <1>6, <2>3
<1>8. CASE d.open > d.close /\ ~(hour < d.close)
  <2>1. day = today /\ hour >= d.open
    BY <1>3, <1>4, <1>6, <1>8 DEF OpeningDay, WithinHours
  <2>2. ClosingWall(d, day) = midnight + DayLength + d.close /\ Midnight(day) = midnight
    BY <1>4, <1>5, <1>8, <2>1 DEF ClosingWall
  <2>3. Midnight(day) + d.open <= wall /\ wall < ClosingWall(d, day)
    BY <1>1, <1>2, <1>3, <1>4, <2>1, <2>2
  <2>4. QED
    BY <1>3, <1>6, <2>3
<1>9. CASE ~(d.open > d.close)
  <2>1. day = today /\ hour >= d.open /\ hour < d.close
    BY <1>3, <1>4, <1>6, <1>9 DEF OpeningDay, WithinHours
  <2>2. ClosingWall(d, day) = midnight + d.close /\ Midnight(day) = midnight
    BY <1>4, <1>9, <2>1 DEF ClosingWall
  <2>3. Midnight(day) + d.open <= wall /\ wall < ClosingWall(d, day)
    BY <1>1, <1>3, <1>4, <2>1, <2>2
  <2>4. QED
    BY <1>3, <1>6, <2>3
<1>10. QED
  BY <1>7, <1>8, <1>9

\* An enabled session is active at every instant at which the wall clock is
\* between its boundaries and both of them are shown.
LEMMA ActiveWithinHours ==
  ASSUME NEW i \in DOMAIN SessionsOf, NEW d \in SessionsOf[i], NEW t \in Instants,
         d.enabled, WithinHours(d, t), Weekday(OpeningDay(d, t)) \in d.weekdays,
         Candidates(d.zone, Midnight(OpeningDay(d, t)) + d.open) # {},
         Candidates(d.zone, ClosingWall(d, OpeningDay(d, t))) # {}
  PROVE  d \in ActiveSessions[i][t]
<1>1. t \in Int /\ t \in 0..(LastInstant + Week)
  <2>1. 7 * DayLength \in Nat /\ LastInstant \in Nat
    BY SessionAssumption
  <2>2. QED
    BY <2>1 DEF Instants, Week
<1>2. /\ OpeningDay(d, t) \in Int
      /\ Midnight(OpeningDay(d, t)) + d.open <= Wall(d.zone, t)
      /\ Wall(d.zone, t) < ClosingWall(d, OpeningDay(d, t))
  BY <1>1, HoursOfDay
<1>3. \/ OpeningDay(d, t) = DayOf(Wall(d.zone, t))
      \/ d.open > d.close /\ OpeningDay(d, t) = DayOf(Wall(d.zone, t)) - 1
  BY DEF OpeningDay
<1>4. OpeningDay(d, t) \in OpenedOn(d, t)
  <2>1. PICK day \in Int : day = OpeningDay(d, t)
    BY <1>2
  <2>2. /\ Weekday(day) \in d.weekdays
        /\ day = DayOf(Wall(d.zone, t)) \/ (d.open > d.close /\ day = DayOf(Wall(d.zone, t)) - 1)
        /\ Candidates(d.zone, Midnight(day) + d.open) # {}
        /\ Midnight(day) + d.open <= Wall(d.zone, t)
    BY <1>2, <1>3, <2>1
  <2>3. /\ Candidates(d.zone, Midnight(IF d.open > d.close THEN day + 1 ELSE day) + d.close) # {}
        /\ Wall(d.zone, t) < Midnight(IF d.open > d.close THEN day + 1 ELSE day) + d.close
    BY <1>2, <2>1 DEF ClosingWall
  <2>4. day \in OpenedOn(d, t)
    BY <1>1, <2>2, <2>3, OpenBetween
  <2>5. QED
    BY <2>1, <2>4
<1>5. QED
  BY <1>1, <1>4 DEF ActiveSessions

\* What is shown somewhere has a candidate.
LEMMA ShownHasCandidate ==
  ASSUME NEW zone \in DOMAIN Zones, NEW wall \in Int, NEW a \in Int, NEW b \in Int,
         \E t \in a..b : Wall(zone, t) = wall
  PROVE  Candidates(zone, wall) # {}
BY ShownIsCandidate

\* The wall time between the opening and the close of a session is its length.
LEMMA WallLength ==
  ASSUME NEW i \in DOMAIN SessionsOf, NEW d \in SessionsOf[i], NEW day \in Int
  PROVE  ClosingWall(d, day) - (Midnight(day) + d.open) = (d.close - d.open) % DayLength
<1>1. /\ d.open \in Int /\ 0 <= d.open /\ d.open < DayLength
      /\ d.close \in Int /\ 0 <= d.close /\ d.close < DayLength /\ d.open # d.close
  BY DefinitionFacts
<1>2. PICK length \in Int : length = DayLength /\ 0 < length
  BY SessionAssumption
<1>3. PICK x \in Int : x = d.close - d.open /\ -length < x /\ x < length
  BY <1>1, <1>2
<1>4. PICK midnight \in Int : midnight = Midnight(day) /\ Midnight(day + 1) = midnight + length
  BY <1>2, NextMidnight
<1>5. CASE d.open > d.close
  <2>1. x % length = x + length
    BY <1>1, <1>2, <1>3, <1>5
  <2>2. ClosingWall(d, day) = midnight + length + d.close
    BY <1>1, <1>2, <1>4, <1>5 DEF ClosingWall
  <2>3. QED
    BY <1>1, <1>2, <1>3, <1>4, <2>1, <2>2
<1>6. CASE ~(d.open > d.close)
  <2>1. x % length = x
    BY <1>1, <1>2, <1>3, <1>6
  <2>2. ClosingWall(d, day) = midnight + d.close
    BY <1>4, <1>6 DEF ClosingWall
  <2>3. QED
    BY <1>1, <1>2, <1>3, <1>4, <2>1, <2>2
<1>7. QED
  BY <1>5, <1>6

\* A boundary is an offset away from its wall time; the later offset holds for
\* the later instants.
LEMMA OffsetOf ==
  ASSUME NEW zone \in DOMAIN Zones, NEW wall \in Int, NEW x \in Candidates(zone, wall)
  PROVE  /\ x \in Int
         /\ IF x < Zones[zone].at THEN x = wall - Zones[zone].before
            ELSE x = wall - Zones[zone].after
<1>1. PICK b \in Int, a \in Int, c \in Int :
        b = Zones[zone].before /\ a = Zones[zone].after /\ c = Zones[zone].at
  BY SessionAssumption
<1>2. x \in {wall - b, wall - a} /\ Wall(zone, x) = wall
  BY <1>1 DEF Candidates
<1>3. x \in Int
  BY <1>1, <1>2
<1>4. IF x < c THEN x + b = wall ELSE x + a = wall
  BY <1>1, <1>2 DEF Wall
<1>5. QED
  BY <1>1, <1>3, <1>4

\* An active session opened on one of the days, by its window.
LEMMA OpenWindow ==
  ASSUME NEW i \in DOMAIN SessionsOf, NEW d \in SessionsOf[i], NEW t \in Int,
         OpenedOn(d, t) # {}
  PROVE  \E day \in Int : /\ SessionWindow(d, t) = Opening(d, day)
                          /\ None \notin {Opening(d, day).open, Opening(d, day).close}
                          /\ Opening(d, day).open <= t /\ t < Opening(d, day).close
<1>1. PICK today \in Int : today = DayOf(Wall(d.zone, t))
  BY DefinitionFacts, WallInt, WallTimes
<1>2. OpenedOn(d, t) \in SUBSET {today - 1, today}
  BY <1>1 DEF OpenedOn
<1>3. PICK day \in Int : day = Max(OpenedOn(d, t)) /\ day \in OpenedOn(d, t)
  <2>1. PICK yesterday \in Int : yesterday = today - 1
    BY <1>1
  <2>2. OpenedOn(d, t) \in SUBSET {yesterday, today}
    BY <1>2, <2>1
  <2>3. Max(OpenedOn(d, t)) \in OpenedOn(d, t)
    BY <2>2, EndsOf
  <2>4. QED
    BY <2>2, <2>3
<1>4. /\ None \notin {Opening(d, day).open, Opening(d, day).close}
      /\ Opening(d, day).open <= t /\ t < Opening(d, day).close
  BY <1>3 DEF OpenedOn
<1>5. SessionWindow(d, t) = Opening(d, day)
  BY <1>3 DEF SessionWindow
<1>6. QED
  BY <1>4, <1>5

\* No window is longer than the session and the time that is repeated.
LEMMA WindowLength ==
  ASSUME NEW i \in DOMAIN SessionsOf, NEW d \in SessionsOf[i], NEW t \in Int,
         OpenedOn(d, t) # {}
  PROVE  LET w == SessionWindow(d, t)
         IN /\ w.open \in Int /\ w.close \in Int
            /\ w.close - w.open <= ((d.close - d.open) % DayLength)
                                     + Greatest(Zones[d.zone].before - Zones[d.zone].after, 0)
<1>1. /\ d.zone \in DOMAIN Zones /\ d.open \in Int /\ d.close \in Int
      /\ 0 <= d.open /\ d.open < DayLength /\ 0 <= d.close /\ d.close < DayLength
  BY DefinitionFacts
<1>2. PICK b \in Int, a \in Int, c \in Int :
        b = Zones[d.zone].before /\ a = Zones[d.zone].after /\ c = Zones[d.zone].at
  BY <1>1, SessionAssumption
<1>3. PICK day \in Int : /\ SessionWindow(d, t) = Opening(d, day)
                         /\ None \notin {Opening(d, day).open, Opening(d, day).close}
                         /\ Opening(d, day).open <= t /\ t < Opening(d, day).close
  BY OpenWindow
<1>4. PICK opening \in Int, closing \in Int :
        opening = Midnight(day) + d.open /\ closing = ClosingWall(d, day)
  <2>1. Midnight(day) \in Int /\ Midnight(day + 1) \in Int
    BY NextMidnight
  <2>2. Midnight(day) + d.open \in Int
    BY <1>1, <2>1
  <2>3. ClosingWall(d, day) \in Int
    BY <1>1, <2>1 DEF ClosingWall
  <2>4. QED
    BY <2>2, <2>3
<1>5. /\ Opening(d, day).open = ResolveLocal(d.zone, opening, 0).instant
      /\ Opening(d, day).close = ResolveLocal(d.zone, closing, 1).instant
  BY <1>4 DEF Opening, ClosingWall
<1>6. PICK open \in Int : open = Opening(d, day).open /\ open \in Candidates(d.zone, opening)
  BY <1>1, <1>3, <1>5, Resolved
<1>7. PICK close \in Int : close = Opening(d, day).close /\ close \in Candidates(d.zone, closing)
  BY <1>1, <1>3, <1>5, Resolved
<1>8. /\ IF open < c THEN open = opening - b ELSE open = opening - a
      /\ IF close < c THEN close = closing - b ELSE close = closing - a
  BY <1>1, <1>2, <1>6, <1>7, OffsetOf
<1>9. open <= t /\ t < close
  BY <1>3, <1>6, <1>7
<1>10. PICK length \in Int : length = (d.close - d.open) % DayLength /\ length = closing - opening
  BY <1>4, WallLength
<1>11. PICK shift \in Int :
         shift = Greatest(Zones[d.zone].before - Zones[d.zone].after, 0) /\ b - a <= shift /\ 0 <= shift
  BY <1>2 DEF Greatest
<1>12. close - open <= length + shift
  BY <1>8, <1>9, <1>10, <1>11
<1>13. QED
  BY <1>3, <1>6, <1>7, <1>10, <1>11, <1>12

\* When a session alone is active, what has passed of it and what is left is its window.
LEMMA AloneFor ==
  ASSUME NEW i \in DOMAIN SessionsOf, NEW d \in SessionsOf[i], NEW at \in Instants,
         NEW s, SaysOf(s, i, at), s.active = {d.id}
  PROVE  s.since + s.left
           <= ((d.close - d.open) % DayLength) + Greatest(Zones[d.zone].before - Zones[d.zone].after, 0)
<1> DEFINE active == ActiveSessions[i][at]
<1>1. at \in Int /\ at \in 0..(LastInstant + Week)
  <2>1. 7 * DayLength \in Nat /\ LastInstant \in Nat /\ at \in 0..LastInstant
    BY SessionAssumption DEF Instants
  <2>2. QED
    BY <2>1 DEF Week
<1>2. active = {e \in SessionsOf[i] : e.enabled /\ OpenedOn(e, at) # {}}
  BY <1>1 DEF ActiveSessions
<1>3. /\ s.active = {e.id : e \in active}
      /\ s.since = IF active = {} THEN None ELSE SinceOpen(active, at)
      /\ s.left = IF active = {} THEN None ELSE ToClose(active, at)
  BY DEF SaysOf
<1>4. \A e \in active : e.id = d.id
  BY <1>3
<1>5. active # {}
  BY <1>3
<1>6. \A e \in SessionsOf[i] : e.id = d.id => e = d
  BY DefinitionFacts
<1>7. active = {d} /\ OpenedOn(d, at) # {}
  <2>1. \A e \in active : e \in SessionsOf[i] /\ e = d /\ OpenedOn(e, at) # {}
    BY <1>2, <1>4, <1>6
  <2> HIDE DEF active
  <2>2. QED
    BY <1>5, <2>1
<1>8. PICK open \in Int, close \in Int :
        open = SessionWindow(d, at).open /\ close = SessionWindow(d, at).close
  BY <1>1, <1>7, WindowLength
<1>9. s.since = at - open
  <2>1. {at - SessionWindow(e, at).open : e \in {d}} = {at - open}
    BY <1>8
  <2>2. PICK x \in Int : x = at - open
    BY <1>1, <1>8
  <2>3. Min({x}) = x
    <3>1. {x} \in SUBSET {x, x} /\ {x} # {}
      OBVIOUS
    <3>2. Min({x}) \in {x}
      BY <3>1, EndsOf
    <3>3. QED
      BY <3>2
  <2>4. SinceOpen({d}, at) = x
    BY <2>1, <2>2, <2>3 DEF SinceOpen
  <2> HIDE DEF active
  <2>5. QED
    BY <1>3, <1>7, <2>2, <2>4
<1>10. s.left = close - at
  <2>1. {SessionWindow(e, at).close - at : e \in {d}} = {close - at}
    BY <1>8
  <2>2. PICK x \in Int : x = close - at
    BY <1>1, <1>8
  <2>3. Min({x}) = x
    <3>1. {x} \in SUBSET {x, x} /\ {x} # {}
      OBVIOUS
    <3>2. Min({x}) \in {x}
      BY <3>1, EndsOf
    <3>3. QED
      BY <3>2
  <2>4. ToClose({d}, at) = x
    BY <2>1, <2>2, <2>3 DEF ToClose
  <2> HIDE DEF active
  <2>5. QED
    BY <1>3, <1>7, <2>2, <2>4
<1>11. close - open <= ((d.close - d.open) % DayLength)
                         + Greatest(Zones[d.zone].before - Zones[d.zone].after, 0)
  BY <1>1, <1>7, <1>8, WindowLength
<1>12. (at - open) + (close - at) = close - open
  BY <1>1, <1>8
<1>13. s.since + s.left = close - open
  BY <1>9, <1>10, <1>12
<1>14. QED
  BY <1>11, <1>13

\* A snapshot is as the wall clocks say.
LEMMA SnapshotByTheWall == SessionInvariant => OpenByTheWall
<1> SUFFICES ASSUME SessionInvariant, sessions.snapshot # None,
                    NEW d \in SessionsOf[sessions.snapshot.instrument]
             PROVE  LET s       == sessions.snapshot
                        wall    == Wall(d.zone, s.at)
                        hour    == ClockOf(wall)
                        night   == d.open > d.close
                        day     == IF night /\ hour < d.close THEN DayOf(wall) - 1 ELSE DayOf(wall)
                        within  == IF night THEN hour >= d.open \/ hour < d.close
                                   ELSE hour >= d.open /\ hour < d.close
                        shift   == Greatest(Zones[d.zone].before - Zones[d.zone].after, 0)
                        shown(w) == \E t \in (s.at - 2 * DayLength)..(s.at + 2 * DayLength) :
                                      Wall(d.zone, t) = w
                        closing == Midnight(IF night THEN day + 1 ELSE day) + d.close
                    IN /\ d.enabled /\ within /\ Weekday(day) \in d.weekdays
                             /\ shown(Midnight(day) + d.open) /\ shown(closing)
                             => d.id \in s.active
                       /\ s.active = {d.id} =>
                            s.since + s.left <= ((d.close - d.open) % DayLength) + shift
  BY DEF OpenByTheWall
<1> DEFINE s        == sessions.snapshot
           shown(w) == \E t \in (s.at - 2 * DayLength)..(s.at + 2 * DayLength) : Wall(d.zone, t) = w
<1>1. PICK i \in DOMAIN SessionsOf, at \in Instants : SaysOf(s, i, at)
  BY DEF SessionInvariant
<1>2. /\ s.at = at /\ s.instrument = i /\ s.active = {e.id : e \in ActiveSessions[i][at]}
  BY <1>1 DEF SaysOf
<1>3. d \in SessionsOf[i] /\ at \in Int
  BY <1>2 DEF Instants
<1>4. ASSUME d.enabled, WithinHours(d, s.at), Weekday(OpeningDay(d, s.at)) \in d.weekdays,
             shown(Midnight(OpeningDay(d, s.at)) + d.open),
             shown(ClosingWall(d, OpeningDay(d, s.at)))
      PROVE  d.id \in s.active
  <2>1. PICK first \in Int, last \in Int :
          first = s.at - 2 * DayLength /\ last = s.at + 2 * DayLength
    <3>1. 2 * DayLength \in Int
      BY SessionAssumption
    <3>2. QED
      BY <1>2, <1>3, <3>1
  <2>2. PICK day \in Int : day = OpeningDay(d, at)
    BY <1>2, <1>3, <1>4, HoursOfDay
  <2>3. /\ d.zone \in DOMAIN Zones /\ d.open \in Int /\ d.close \in Int
    BY <1>3, DefinitionFacts
  <2>4. Midnight(day) + d.open \in Int /\ ClosingWall(d, day) \in Int
    <3>1. Midnight(day) \in Int /\ Midnight(day + 1) \in Int
      BY NextMidnight
    <3>2. QED
      BY <2>3, <3>1 DEF ClosingWall
  <2>5. /\ \E t \in first..last : Wall(d.zone, t) = Midnight(day) + d.open
        /\ \E t \in first..last : Wall(d.zone, t) = ClosingWall(d, day)
    BY <1>2, <1>4, <2>1, <2>2
  <2>6. Candidates(d.zone, Midnight(day) + d.open) # {} /\ Candidates(d.zone, ClosingWall(d, day)) # {}
    BY <2>1, <2>3, <2>4, <2>5, ShownHasCandidate
  <2>7. d \in ActiveSessions[i][at]
    BY <1>2, <1>3, <1>4, <2>2, <2>6, ActiveWithinHours
  <2>8. QED
    BY <1>2, <2>7
<1>5. s.active = {d.id} =>
        s.since + s.left <= ((d.close - d.open) % DayLength)
                              + Greatest(Zones[d.zone].before - Zones[d.zone].after, 0)
  BY <1>1, <1>3, AloneFor
<1> DEFINE wall    == Wall(d.zone, s.at)
           hour    == ClockOf(wall)
           night   == d.open > d.close
           day     == IF night /\ hour < d.close THEN DayOf(wall) - 1 ELSE DayOf(wall)
           within  == IF night THEN hour >= d.open \/ hour < d.close
                      ELSE hour >= d.open /\ hour < d.close
           closing == Midnight(IF night THEN day + 1 ELSE day) + d.close
<1>6. day = OpeningDay(d, s.at)
  BY DEF OpeningDay
<1>7. within = WithinHours(d, s.at)
  BY DEF WithinHours
<1>8. closing = ClosingWall(d, OpeningDay(d, s.at))
  <2> HIDE DEF day
  <2>1. QED
    BY <1>6 DEF ClosingWall
<1>9. d.enabled /\ within /\ Weekday(day) \in d.weekdays /\ shown(Midnight(day) + d.open) /\ shown(closing)
        => d.id \in s.active
  <2> HIDE DEF day, within, closing, shown
  <2>1. QED
    BY <1>4, <1>6, <1>7, <1>8
<1>10. QED
  BY <1>5, <1>9

\* Every step keeps the invariant.
LEMMA SessionStep == SessionInvariant /\ [SessionsNext]_sessionVars => SessionInvariant'
<1> SUFFICES ASSUME SessionInvariant, [SessionsNext]_sessionVars
             PROVE  SessionInvariant'
  OBVIOUS
<1>1. ASSUME NEW i \in DOMAIN SessionsOf, NEW m, m.at \in Instants, AnalyzeSessions(i, m)
      PROVE  SessionInvariant'
  <2>1. sessions'.snapshot = SessionSnapshot(i, m)
    BY <1>1 DEF AnalyzeSessions
  <2>2. SaysOf(SessionSnapshot(i, m), i, m.at)
    BY DEF SessionSnapshot, SaysOf
  <2>3. SaysOf(sessions'.snapshot, i, m.at)
    BY <2>1, <2>2
  <2>4. \E j \in DOMAIN SessionsOf, t \in Instants : SaysOf(sessions'.snapshot, j, t)
    BY <1>1, <2>3
  <2>5. QED
    BY <2>4 DEF SessionInvariant, SaysOf
<1>2. CASE RestartSessions
  BY <1>2 DEF RestartSessions, SessionInvariant
<1>3. CASE UNCHANGED sessionVars
  BY <1>3 DEF sessionVars, SessionInvariant, SaysOf
<1>4. ASSUME NEW i \in DOMAIN SessionsOf, NEW t \in Instants, NEW healthy \in BOOLEAN,
             NEW extreme \in BOOLEAN, NEW closed \in 0..ReopenObservations,
             AnalyzeSessions(i, [at |-> t, healthy |-> healthy, extreme |-> extreme, closed |-> closed])
      PROVE  SessionInvariant'
  <2> DEFINE m == [at |-> t, healthy |-> healthy, extreme |-> extreme, closed |-> closed]
  <2>1. m.at \in Instants /\ AnalyzeSessions(i, m)
    BY <1>4
  <2> HIDE DEF m
  <2>2. QED
    BY <1>1, <2>1
<1>5. QED
  BY <1>2, <1>3, <1>4 DEF SessionsNext

\* Whatever the offsets of the zones, before and after they change, and whatever
\* the sessions: one is active whenever its wall clock is within its hours, in
\* both passes of a repeated hour, and no longer than its length and the hour
\* that is repeated.
THEOREM SessionsFollowTheWall == SessionsSpec => []OpenByTheWall
<1>1. SessionsInit => SessionInvariant
  BY DEF SessionsInit, SessionInvariant
<1>2. QED
  BY <1>1, SessionStep, SnapshotByTheWall, PTL DEF SessionsSpec

-----------------------------------------------------------------------------
(* Experiments: what a manifest says is found again.                       *)

EngineFields(e) ==
  e = [definitions |-> e.definitions, observations |-> e.observations, runs |-> e.runs,
       trials |-> e.trials, checkpoints |-> e.checkpoints, manifests |-> e.manifests,
       restricted |-> e.restricted, superseded |-> e.superseded]

\* A run of an experiment that is defined, which counts each trial once.
SoundRun(e, id) ==
  LET r == e.runs[id]
  IN /\ r = [id |-> id, state |-> r.state, trials |-> r.trials, completed |-> r.completed,
             failed |-> r.failed, cancelled |-> r.cancelled, card |-> r.card]
     /\ r.state \in ExperimentState
     /\ \E d \in e.definitions : d.id = id[1] /\ d.trials = r.trials
     /\ r.completed \cup r.failed \cup r.cancelled \subseteq 1..r.trials
     /\ r.completed \cap r.failed = {}
     /\ r.state = "COMPLETED" => r.completed \cup r.failed = 1..r.trials
     /\ \A k \in 1..r.trials : <<id[1], k>> \in DOMAIN e.trials

Trial == [state : TrialState, quality : ValidationQuality, eligible : SUBSET Nat]

\* No other run is of the same experiment.
Alone(e, id) == \A other \in DOMAIN e.runs : other[1] = id[1] => other = id

\* A run that is alone finds its trials as it left them.
SoundTrials(e, id) ==
  Alone(e, id) => \A k \in e.runs[id].completed : e.trials[<<id[1], k>>].state = "COMPLETED"

\* So does a manifest, until its experiment is planned again.
SoundManifest(e, m) ==
  /\ m.run \in DOMAIN e.runs
  /\ m \notin e.superseded /\ Alone(e, m.run) =>
       /\ ReplayFingerprint(e.runs[m.run], e.trials) = m.fingerprint
       /\ e.runs[m.run].state = "COMPLETED"

SoundDefinitions(e) ==
  /\ e.definitions \subseteq ExperimentDefinition /\ e.observations \subseteq NeutralObservation
  /\ \A c, d \in e.definitions : c.id = d.id => c = d

SoundExperiments(e) ==
  /\ EngineFields(e) /\ SoundDefinitions(e)
  /\ IsFiniteSet(DOMAIN e.runs) /\ \A t \in DOMAIN e.trials : e.trials[t] \in Trial
  /\ \A id \in DOMAIN e.runs : SoundRun(e, id) /\ SoundTrials(e, id)
  /\ \A m \in e.manifests : SoundManifest(e, m)

\* The inductive invariant.
ExperimentInvariant ==
  SoundExperiments(exp) /\ (savedExp # None => SoundExperiments(savedExp.state))

\* An experiment is registered.
LEMMA RegisterPreserves ==
  ASSUME SoundExperiments(exp), NEW d \in Definitions, NEW offered \in Offered,
         RegisterExperiment(d, offered)
  PROVE  SoundExperiments(exp')
<1>1. /\ exp' = [exp EXCEPT !.definitions = exp.definitions \cup {d},
                            !.observations = exp.observations \cup offered]
      /\ \A e \in exp.definitions : e.id # d.id
  BY DEF RegisterExperiment
<1>2. /\ exp'.definitions = exp.definitions \cup {d} /\ exp'.observations = exp.observations \cup offered
      /\ exp'.runs = exp.runs /\ exp'.trials = exp.trials /\ exp'.manifests = exp.manifests
      /\ exp'.superseded = exp.superseded /\ EngineFields(exp')
  BY <1>1 DEF SoundExperiments, EngineFields
<1>3. SoundDefinitions(exp')
  <2>1. d \in ExperimentDefinition /\ offered \subseteq NeutralObservation
    BY ExperimentAssumption
  <2>2. QED
    BY <1>1, <1>2, <2>1 DEF SoundExperiments, SoundDefinitions
<1>4. \A id \in DOMAIN exp.runs : SoundRun(exp', id) /\ SoundTrials(exp', id)
  <2>1. \A id \in DOMAIN exp.runs : SoundRun(exp', id)
    BY <1>2 DEF SoundExperiments, SoundRun
  <2>2. \A id \in DOMAIN exp.runs : SoundTrials(exp', id)
    BY <1>2 DEF SoundExperiments, SoundTrials, Alone
  <2>3. QED
    BY <2>1, <2>2
<1>5. \A m \in exp.manifests : SoundManifest(exp', m)
  BY <1>2 DEF SoundExperiments, SoundManifest, Alone
<1>6. QED
  BY <1>2, <1>3, <1>4, <1>5 DEF SoundExperiments

\* An experiment is planned, for the first time or again.
LEMMA PlanPreserves ==
  ASSUME SoundExperiments(exp), NEW d \in exp.definitions, NEW epoch, PlanExperiment(d, epoch)
  PROVE  SoundExperiments(exp')
<1> DEFINE trial == [state |-> "PENDING", quality |-> "UNKNOWN",
                     eligible |-> {o.id : o \in EligibleObservations(d)}]
           x == <<d.id, epoch>>
           run == [id |-> x, state |-> "VALIDATED", trials |-> d.trials,
                   completed |-> {}, failed |-> {}, cancelled |-> {}, card |-> None]
           laid == {<<d.id, k>> : k \in 1..d.trials}
           gone == {m \in exp.manifests : m.run[1] = d.id}
<1>1. exp' = [exp EXCEPT !.runs = Assigned(exp.runs, {x}, run),
                         !.trials = Assigned(exp.trials, laid, trial),
                         !.superseded = exp.superseded \cup gone]
  BY DEF PlanExperiment
<1>2. /\ exp'.definitions = exp.definitions /\ exp'.observations = exp.observations
      /\ exp'.runs = Assigned(exp.runs, {x}, run) /\ exp'.trials = Assigned(exp.trials, laid, trial)
      /\ exp'.manifests = exp.manifests /\ exp'.superseded = exp.superseded \cup gone
      /\ EngineFields(exp')
  <2> HIDE DEF x, run, laid, trial, gone
  <2>1. QED
    BY <1>1 DEF SoundExperiments, EngineFields
<1>3. trial \in Trial
  <2>1. \A o \in EligibleObservations(d) : o.id \in Nat
    BY DEF EligibleObservations, SoundExperiments, SoundDefinitions, NeutralObservation
  <2>2. QED
    BY <2>1 DEF Trial, TrialState, ValidationQuality
<1>4. /\ DOMAIN exp'.runs = DOMAIN exp.runs \cup {x} /\ exp'.runs[x] = run
      /\ \A id \in DOMAIN exp.runs : id # x => exp'.runs[id] = exp.runs[id]
  <2> HIDE DEF x, run
  <2> DEFINE runs == Assigned(exp.runs, {x}, run)
  <2>1. /\ DOMAIN runs = DOMAIN exp.runs \cup {x} /\ \A id \in {x} : runs[id] = run
        /\ \A id \in DOMAIN exp.runs : id \notin {x} => runs[id] = exp.runs[id]
    BY DEF Assigned
  <2>2. exp'.runs = runs
    BY <1>2
  <2> HIDE DEF runs
  <2>3. QED
    BY <2>1, <2>2
<1>5. /\ DOMAIN exp'.trials = DOMAIN exp.trials \cup laid
      /\ \A t \in laid : exp'.trials[t] = trial
      /\ \A t \in DOMAIN exp.trials : t \notin laid => exp'.trials[t] = exp.trials[t]
  <2> HIDE DEF laid, trial
  <2> DEFINE trials == Assigned(exp.trials, laid, trial)
  <2>1. /\ DOMAIN trials = DOMAIN exp.trials \cup laid /\ \A t \in laid : trials[t] = trial
        /\ \A t \in DOMAIN exp.trials : t \notin laid => trials[t] = exp.trials[t]
    BY DEF Assigned
  <2>2. exp'.trials = trials
    BY <1>2
  <2> HIDE DEF trials
  <2>3. QED
    BY <2>1, <2>2
<1>6. \A t \in DOMAIN exp'.trials : exp'.trials[t] \in Trial
  <2> HIDE DEF laid, trial
  <2>1. QED
    BY <1>3, <1>5 DEF SoundExperiments
<1>7. IsFiniteSet(DOMAIN exp'.runs)
  <2> HIDE DEF x
  <2>1. QED
    BY <1>4, FS_AddElement DEF SoundExperiments
<1>8. SoundRun(exp', x)
  <2>1. /\ run.state \in ExperimentState /\ run.state # "COMPLETED" /\ run.trials = d.trials
        /\ run.completed = {} /\ run.failed = {} /\ run.cancelled = {} /\ x[1] = d.id /\ run.card = None
        /\ run.id = x
    BY DEF ExperimentState
  <2>2. run = [id |-> x, state |-> run.state, trials |-> run.trials, completed |-> run.completed,
               failed |-> run.failed, cancelled |-> run.cancelled, card |-> run.card]
    OBVIOUS
  <2>3. \A k \in 1..run.trials : <<x[1], k>> \in DOMAIN exp'.trials
    BY <1>5
  <2> HIDE DEF run, x
  <2>4. QED
    BY <1>2, <1>4, <2>1, <2>2, <2>3 DEF SoundRun
<1>9. \A id \in DOMAIN exp.runs : id # x => SoundRun(exp', id)
  <2> SUFFICES ASSUME NEW id \in DOMAIN exp.runs, id # x PROVE SoundRun(exp', id)
    OBVIOUS
  <2>1. SoundRun(exp, id) /\ exp'.runs[id] = exp.runs[id] /\ DOMAIN exp.trials \subseteq DOMAIN exp'.trials
    <3> HIDE DEF x, laid
    <3>1. QED
      BY <1>4, <1>5 DEF SoundExperiments
  <2> HIDE DEF x
  <2>2. QED
    BY <1>2, <2>1 DEF SoundRun
<1>10. \A id \in DOMAIN exp.runs : Alone(exp', id) => id[1] # d.id \/ id = x
  BY <1>4 DEF Alone
<1>11. \A id \in DOMAIN exp.runs : Alone(exp', id) => Alone(exp, id)
  <2> HIDE DEF x
  <2>1. QED
    BY <1>4 DEF Alone
<1>12. ASSUME NEW id \in DOMAIN exp.runs, id[1] # d.id, NEW k \in 1..exp.runs[id].trials
       PROVE  exp'.trials[<<id[1], k>>] = exp.trials[<<id[1], k>>]
  <2>1. <<id[1], k>> \in DOMAIN exp.trials
    BY DEF SoundExperiments, SoundRun
  <2>2. <<id[1], k>> \notin laid
    BY <1>12
  <2> HIDE DEF laid
  <2>3. QED
    BY <1>5, <2>1, <2>2
<1>13. \A id \in DOMAIN exp'.runs : SoundTrials(exp', id)
  <2> SUFFICES ASSUME NEW id \in DOMAIN exp'.runs, Alone(exp', id), NEW k \in exp'.runs[id].completed
               PROVE  exp'.trials[<<id[1], k>>].state = "COMPLETED"
    BY DEF SoundTrials
  <2>1. id # x
    BY <1>4
  <2>2. id \in DOMAIN exp.runs /\ exp'.runs[id] = exp.runs[id]
    <3> HIDE DEF x
    <3>1. QED
      BY <1>4, <2>1
  <2>3. Alone(exp, id) /\ id[1] # d.id
    BY <1>10, <1>11, <2>1, <2>2
  <2>4. k \in exp.runs[id].completed /\ k \in 1..exp.runs[id].trials
    BY <2>2 DEF SoundExperiments, SoundRun
  <2>5. exp.trials[<<id[1], k>>].state = "COMPLETED"
    BY <2>2, <2>3, <2>4 DEF SoundExperiments, SoundTrials
  <2>6. QED
    BY <1>12, <2>2, <2>3, <2>4, <2>5
<1>14. \A m \in exp.manifests : SoundManifest(exp', m)
  <2> SUFFICES ASSUME NEW m \in exp.manifests PROVE SoundManifest(exp', m)
    OBVIOUS
  <2>1. SoundManifest(exp, m) /\ m.run \in DOMAIN exp.runs
    BY DEF SoundExperiments, SoundManifest
  <2>2. SUFFICES ASSUME m \notin exp'.superseded, Alone(exp', m.run)
                 PROVE  /\ ReplayFingerprint(exp'.runs[m.run], exp'.trials) = m.fingerprint
                        /\ exp'.runs[m.run].state = "COMPLETED"
    BY <1>4, <2>1 DEF SoundManifest
  <2>3. m.run[1] # d.id /\ m \notin exp.superseded
    BY <1>2, <2>2
  <2>4. Alone(exp, m.run) /\ m.run # x
    BY <1>11, <2>1, <2>2, <2>3
  <2>5. exp'.runs[m.run] = exp.runs[m.run] /\ exp.runs[m.run].id = m.run
    <3>1. SoundRun(exp, m.run)
      BY <2>1 DEF SoundExperiments
    <3>2. exp.runs[m.run].id = m.run
      BY <3>1 DEF SoundRun
    <3> HIDE DEF x
    <3>3. QED
      BY <1>4, <2>1, <2>4, <3>2
  <2>6. \A k \in 1..exp.runs[m.run].trials : exp'.trials[<<m.run[1], k>>] = exp.trials[<<m.run[1], k>>]
    BY <1>12, <2>1, <2>3
  <2>7. ReplayFingerprint(exp.runs[m.run], exp'.trials) = ReplayFingerprint(exp.runs[m.run], exp.trials)
    BY <2>5, <2>6 DEF ReplayFingerprint
  <2>8. QED
    BY <2>1, <2>3, <2>4, <2>5, <2>7 DEF SoundManifest
<1>15. QED
  <2>1. \A id \in DOMAIN exp'.runs : SoundRun(exp', id)
    <3> HIDE DEF x
    <3>1. QED
      BY <1>4, <1>8, <1>9
  <2>2. SoundDefinitions(exp')
    BY <1>2 DEF SoundExperiments, SoundDefinitions
  <2>3. QED
    BY <1>2, <1>6, <1>7, <1>13, <1>14, <2>1, <2>2 DEF SoundExperiments

\* What a call does to one run of an experiment, its trials and the manifests.
Advances(run, updated, trials, made) ==
  /\ exp' = [exp EXCEPT !.trials = trials, !.runs = Assigned(exp.runs, {run.id}, updated),
                        !.checkpoints = exp'.checkpoints, !.manifests = exp.manifests \cup made]
  /\ updated = [id |-> run.id, state |-> updated.state, trials |-> run.trials,
                completed |-> updated.completed, failed |-> updated.failed,
                cancelled |-> updated.cancelled, card |-> updated.card]
  /\ updated.state \in ExperimentState
  /\ updated.completed \cup updated.failed \cup updated.cancelled \subseteq 1..run.trials
  /\ updated.completed \cap updated.failed = {}
  /\ updated.state = "COMPLETED" => updated.completed \cup updated.failed = 1..run.trials
  /\ DOMAIN trials = DOMAIN exp.trials /\ \A t \in DOMAIN trials : trials[t] \in Trial
  /\ \A t \in DOMAIN trials : t[1] # run.id[1] => trials[t] = exp.trials[t]
  /\ \A k \in updated.completed :
       \/ trials[<<run.id[1], k>>].state = "COMPLETED"
       \/ k \in run.completed /\ trials[<<run.id[1], k>>] = exp.trials[<<run.id[1], k>>]
  /\ \A m \in made : /\ m.run = run.id /\ updated.state = "COMPLETED"
                      /\ m.fingerprint = ReplayFingerprint(updated, trials)

\* A run that is not over advances without touching what others say.
LEMMA AdvanceFacts ==
  ASSUME SoundExperiments(exp), NEW x \in DOMAIN exp.runs, NEW run, run = exp.runs[x],
         run.state # "COMPLETED", NEW updated, NEW trials, NEW made,
         Advances(run, updated, trials, made)
  PROVE  SoundExperiments(exp')
<1>1. SoundRun(exp, x) /\ SoundTrials(exp, x) /\ run.id = x
  BY DEF SoundExperiments, SoundRun
<1>2. /\ exp'.definitions = exp.definitions /\ exp'.observations = exp.observations
      /\ exp'.runs = Assigned(exp.runs, {x}, updated) /\ exp'.trials = trials
      /\ exp'.manifests = exp.manifests \cup made /\ exp'.superseded = exp.superseded
      /\ EngineFields(exp')
  <2> DEFINE runs == Assigned(exp.runs, {run.id}, updated)
             manifests == exp.manifests \cup made
  <2>1. exp' = [exp EXCEPT !.trials = trials, !.runs = runs, !.checkpoints = exp'.checkpoints,
                           !.manifests = manifests]
    BY DEF Advances
  <2>2. EngineFields(exp) /\ run.id = x
    BY <1>1 DEF SoundExperiments
  <2> HIDE DEF runs, manifests
  <2>3. /\ exp'.definitions = exp.definitions /\ exp'.observations = exp.observations
        /\ exp'.runs = runs /\ exp'.trials = trials
        /\ exp'.manifests = manifests /\ exp'.superseded = exp.superseded
        /\ EngineFields(exp')
    BY <2>1, <2>2 DEF EngineFields
  <2>4. QED
    BY <2>2, <2>3 DEF runs, manifests
<1>3. /\ DOMAIN exp'.runs = DOMAIN exp.runs /\ exp'.runs[x] = updated
      /\ \A id \in DOMAIN exp.runs : id # x => exp'.runs[id] = exp.runs[id]
  <2> DEFINE runs == Assigned(exp.runs, {x}, updated)
  <2>1. /\ DOMAIN runs = DOMAIN exp.runs \cup {x} /\ \A id \in {x} : runs[id] = updated
        /\ \A id \in DOMAIN exp.runs : id \notin {x} => runs[id] = exp.runs[id]
    BY DEF Assigned
  <2>2. exp'.runs = runs
    BY <1>2
  <2> HIDE DEF runs
  <2>3. QED
    BY <2>1, <2>2
<1>4. \A id \in DOMAIN exp.runs : Alone(exp', id) <=> Alone(exp, id)
  BY <1>3 DEF Alone
<1>5. SoundRun(exp', x) /\ SoundTrials(exp', x)
  <2>1. updated.id = x /\ updated.trials = run.trials
    BY <1>1 DEF Advances
  <2>2. SoundRun(exp', x)
    BY <1>1, <1>2, <1>3, <2>1 DEF SoundRun, Advances
  <2>3. SoundTrials(exp', x)
    BY <1>1, <1>2, <1>3, <1>4 DEF SoundTrials, Advances
  <2>4. QED
    BY <2>2, <2>3
<1>6. ASSUME NEW id \in DOMAIN exp.runs, id # x
      PROVE  SoundRun(exp', id) /\ SoundTrials(exp', id)
  <2>1. SoundRun(exp, id) /\ SoundTrials(exp, id) /\ exp'.runs[id] = exp.runs[id]
    BY <1>3, <1>6 DEF SoundExperiments
  <2>2. SoundRun(exp', id)
    BY <1>2, <2>1 DEF SoundRun, Advances
  <2>3. SUFFICES ASSUME Alone(exp', id), NEW k \in exp.runs[id].completed
                 PROVE  exp'.trials[<<id[1], k>>].state = "COMPLETED"
    BY <2>1, <2>2 DEF SoundTrials
  <2>4. Alone(exp, id) /\ id[1] # x[1]
    BY <1>4, <1>6, <2>3 DEF Alone
  <2>5. exp.trials[<<id[1], k>>].state = "COMPLETED" /\ <<id[1], k>> \in DOMAIN exp.trials
    BY <2>1, <2>4 DEF SoundTrials, SoundRun
  <2>6. QED
    BY <1>1, <1>2, <2>4, <2>5 DEF Advances
<1>7. ASSUME NEW m \in exp.manifests PROVE SoundManifest(exp', m)
  <2>1. SoundManifest(exp, m) /\ m.run \in DOMAIN exp.runs
    BY DEF SoundExperiments, SoundManifest
  <2>2. SUFFICES ASSUME m \notin exp.superseded, Alone(exp, m.run)
                 PROVE  /\ ReplayFingerprint(exp'.runs[m.run], exp'.trials) = m.fingerprint
                        /\ exp'.runs[m.run].state = "COMPLETED"
    BY <1>2, <1>3, <1>4, <2>1 DEF SoundManifest
  <2>3. m.run # x /\ m.run[1] # x[1]
    BY <2>1, <2>2 DEF SoundManifest, Alone
  <2>4. exp'.runs[m.run] = exp.runs[m.run] /\ exp.runs[m.run].id = m.run
    <3>1. SoundRun(exp, m.run)
      BY <2>1 DEF SoundExperiments
    <3>2. QED
      BY <1>3, <2>1, <2>3, <3>1 DEF SoundRun
  <2>5. \A k \in 1..exp.runs[m.run].trials : trials[<<m.run[1], k>>] = exp.trials[<<m.run[1], k>>]
    <3>1. SoundRun(exp, m.run)
      BY <2>1 DEF SoundExperiments
    <3>2. QED
      BY <1>1, <2>3, <3>1 DEF SoundRun, Advances
  <2>6. ReplayFingerprint(exp.runs[m.run], trials) = ReplayFingerprint(exp.runs[m.run], exp.trials)
    BY <2>4, <2>5 DEF ReplayFingerprint
  <2>7. QED
    BY <1>2, <2>1, <2>2, <2>4, <2>6 DEF SoundManifest
<1>8. ASSUME NEW m \in made PROVE SoundManifest(exp', m)
  <2>1. /\ m.run = x /\ updated.state = "COMPLETED"
        /\ m.fingerprint = ReplayFingerprint(updated, trials)
    BY <1>1 DEF Advances
  <2>2. QED
    BY <1>2, <1>3, <2>1 DEF SoundManifest
<1>9. QED
  <2>1. SoundDefinitions(exp') /\ IsFiniteSet(DOMAIN exp'.runs)
    BY <1>2, <1>3 DEF SoundExperiments, SoundDefinitions
  <2>2. \A t \in DOMAIN exp'.trials : exp'.trials[t] \in Trial
    BY <1>2 DEF Advances
  <2>3. \A id \in DOMAIN exp'.runs : SoundRun(exp', id) /\ SoundTrials(exp', id)
    BY <1>3, <1>5, <1>6
  <2>4. \A m \in exp'.manifests : SoundManifest(exp', m)
    BY <1>2, <1>7, <1>8
  <2>5. QED
    BY <1>2, <2>1, <2>2, <2>3, <2>4 DEF SoundExperiments

\* A run is executed.
LEMMA ExecutePreserves ==
  ASSUME SoundExperiments(exp), NEW x \in DOMAIN exp.runs, NEW maximum, NEW fails,
         ExecuteRun(exp.runs[x], maximum, fails)
  PROVE  SoundExperiments(exp')
<1> DEFINE run == exp.runs[x]
           limit == IF maximum = None \/ maximum = 0 THEN run.trials ELSE maximum
           left == (1..run.trials) \ (run.completed \cup run.failed)
           asked == {k \in left : Cardinality({j \in left : j < k})
                                    < limit - Cardinality(run.completed \cup run.failed)}
           TrialAfter(id, trial) ==
             IF id[1] # run.id[1] \/ id[2] \notin asked THEN trial
             ELSE IF id[2] \in fails THEN [trial EXCEPT !.state = "FAILED"]
             ELSE [trial EXCEPT !.state = "COMPLETED", !.quality = SampleQuality(Cardinality(trial.eligible))]
           trials == [id \in DOMAIN exp.trials |-> TrialAfter(id, exp.trials[id])]
           terminal == asked = left
           counted == [run EXCEPT !.completed = run.completed \cup (asked \ fails),
                                  !.failed = run.failed \cup (asked \cap fails),
                                  !.state = IF terminal THEN "COMPLETED" ELSE "PARTIAL"]
           card == Scorecard(counted, trials)
           updated == [counted EXCEPT !.card = card]
           manifest == [run |-> run.id, card |-> updated.card, fingerprint |-> ReplayFingerprint(updated, trials)]
           made == IF terminal THEN {manifest} ELSE {}
<1>1. /\ run.state \notin Over
      /\ exp' = [exp EXCEPT !.trials = trials, !.runs = Assigned(exp.runs, {run.id}, updated),
                            !.checkpoints = Checkpointed(exp.checkpoints, updated),
                            !.manifests = IF terminal THEN exp.manifests \cup {manifest} ELSE exp.manifests]
  BY DEF ExecuteRun
<1>2. SoundRun(exp, x) /\ run.id = x
  BY DEF SoundExperiments, SoundRun
<1>3. asked \subseteq left
  OBVIOUS
<1>4. /\ updated = [id |-> run.id, state |-> IF terminal THEN "COMPLETED" ELSE "PARTIAL",
                    trials |-> run.trials, completed |-> run.completed \cup (asked \ fails),
                    failed |-> run.failed \cup (asked \cap fails), cancelled |-> run.cancelled,
                    card |-> card]
  <2> DEFINE done == run.completed \cup (asked \ fails)
             lost == run.failed \cup (asked \cap fails)
             state == IF terminal THEN "COMPLETED" ELSE "PARTIAL"
  <2>1. run = [id |-> run.id, state |-> run.state, trials |-> run.trials, completed |-> run.completed,
               failed |-> run.failed, cancelled |-> run.cancelled, card |-> run.card]
    BY <1>2 DEF SoundRun
  <2>2. counted = [run EXCEPT !.completed = done, !.failed = lost, !.state = state]
    OBVIOUS
  <2>3. updated = [counted EXCEPT !.card = card]
    OBVIOUS
  <2> HIDE DEF run, done, lost, state, card, counted, updated
  <2>4. counted = [id |-> run.id, state |-> state, trials |-> run.trials, completed |-> done,
                   failed |-> lost, cancelled |-> run.cancelled, card |-> run.card]
    BY <2>1, <2>2
  <2>5. updated = [id |-> run.id, state |-> state, trials |-> run.trials, completed |-> done,
                   failed |-> lost, cancelled |-> run.cancelled, card |-> card]
    BY <2>3, <2>4
  <2>6. QED
    BY <2>5 DEF done, lost, state
<1>5. /\ updated.state = (IF terminal THEN "COMPLETED" ELSE "PARTIAL")
      /\ updated.completed = run.completed \cup (asked \ fails)
      /\ updated.failed = run.failed \cup (asked \cap fails) /\ updated.cancelled = run.cancelled
      /\ updated = [id |-> run.id, state |-> updated.state, trials |-> run.trials,
                    completed |-> updated.completed, failed |-> updated.failed,
                    cancelled |-> updated.cancelled, card |-> updated.card]
  <2> HIDE DEF asked, terminal, card, updated, run
  <2>1. QED
    BY <1>4
<1>6. /\ updated.completed \cup updated.failed \cup updated.cancelled \subseteq 1..run.trials
      /\ updated.completed \cap updated.failed = {}
      /\ terminal => updated.completed \cup updated.failed = 1..run.trials
  <2> HIDE DEF asked, updated
  <2>1. QED
    BY <1>2, <1>3, <1>5 DEF SoundRun
<1>7. /\ DOMAIN trials = DOMAIN exp.trials
      /\ \A t \in DOMAIN exp.trials : trials[t] = TrialAfter(t, exp.trials[t])
  OBVIOUS
<1>8. \A t \in DOMAIN trials : trials[t] \in Trial
  <2> SUFFICES ASSUME NEW t \in DOMAIN exp.trials PROVE TrialAfter(t, exp.trials[t]) \in Trial
    BY <1>7
  <2>1. exp.trials[t] \in Trial
    BY DEF SoundExperiments
  <2>2. \A n : SampleQuality(n) \in ValidationQuality
    BY DEF SampleQuality, ValidationQuality
  <2> HIDE DEF asked, run
  <2>3. QED
    BY <2>1, <2>2 DEF Trial, TrialState
<1>9. \A t \in DOMAIN trials : t[1] # run.id[1] => trials[t] = exp.trials[t]
  <2> HIDE DEF asked, run
  <2>1. QED
    BY <1>7
<1>10. ASSUME NEW k \in updated.completed
       PROVE  \/ trials[<<run.id[1], k>>].state = "COMPLETED"
              \/ k \in run.completed /\ trials[<<run.id[1], k>>] = exp.trials[<<run.id[1], k>>]
  <2> DEFINE t == <<run.id[1], k>>
  <2>1. k \in 1..run.trials /\ t \in DOMAIN exp.trials /\ exp.trials[t] \in Trial
    BY <1>2, <1>6, <1>10 DEF SoundRun, SoundExperiments
  <2>2. t[1] = run.id[1] /\ t[2] = k
    OBVIOUS
  <2>3. trials[t] = TrialAfter(t, exp.trials[t])
    BY <1>7, <2>1
  <2> HIDE DEF t, trials
  <2>4. CASE k \in asked \ fails
    <3>1. trials[t] = [exp.trials[t] EXCEPT !.state = "COMPLETED",
                                            !.quality = SampleQuality(Cardinality(exp.trials[t].eligible))]
      <4> HIDE DEF asked, run
      <4>1. QED
        BY <2>2, <2>3, <2>4
    <3>2. trials[t].state = "COMPLETED"
      BY <2>1, <3>1 DEF Trial
    <3>3. QED
      BY <3>2 DEF t
  <2>5. CASE k \in run.completed
    <3>1. k \notin asked
      BY <2>5
    <3>2. trials[t] = exp.trials[t]
      <4> HIDE DEF asked, run
      <4>1. QED
        BY <2>2, <2>3, <3>1
    <3>3. QED
      BY <2>5, <3>2 DEF t
  <2>6. QED
    <3> HIDE DEF asked, run, updated
    <3>1. QED
      BY <1>5, <1>10, <2>4, <2>5
<1>11. \A m \in made : /\ m.run = run.id /\ updated.state = "COMPLETED"
                        /\ m.fingerprint = ReplayFingerprint(updated, trials)
  <2> HIDE DEF updated, trials, run, terminal
  <2>1. QED
    BY <1>5
<1>12. Advances(run, updated, trials, made)
  <2>1. exp' = [exp EXCEPT !.trials = trials, !.runs = Assigned(exp.runs, {run.id}, updated),
                           !.checkpoints = exp'.checkpoints, !.manifests = exp.manifests \cup made]
    <3> HIDE DEF trials, updated, run, terminal, manifest
    <3>1. exp'.checkpoints = Checkpointed(exp.checkpoints, updated)
      BY <1>1 DEF SoundExperiments, EngineFields
    <3>2. (IF terminal THEN exp.manifests \cup {manifest} ELSE exp.manifests) = exp.manifests \cup made
      OBVIOUS
    <3> HIDE DEF made
    <3>3. QED
      BY <1>1, <3>1, <3>2
  <2>2. updated.state \in ExperimentState /\ (updated.state = "COMPLETED" => terminal)
    <3> HIDE DEF updated, terminal
    <3>1. QED
      BY <1>5 DEF ExperimentState
  <2> HIDE DEF trials, updated, run, terminal, made
  <2>3. QED
    BY <1>5, <1>6, <1>7, <1>8, <1>9, <1>10, <1>11, <2>1, <2>2 DEF Advances
<1>13. run.state # "COMPLETED"
  BY <1>1 DEF Over
<1>14. QED
  <2> HIDE DEF trials, updated, terminal, made
  <2>1. QED
    BY <1>12, <1>13, AdvanceFacts

\* A run is cancelled.
LEMMA CancelPreserves ==
  ASSUME SoundExperiments(exp), NEW x \in DOMAIN exp.runs, CancelRun(exp.runs[x])
  PROVE  SoundExperiments(exp')
<1> DEFINE run == exp.runs[x]
           left == (1..run.trials) \ (run.completed \cup run.failed)
           updated == [run EXCEPT !.state = "CANCELLED", !.cancelled = left]
           trials == [id \in DOMAIN exp.trials |->
                        IF id[1] = run.id[1] /\ id[2] \in left
                        THEN [exp.trials[id] EXCEPT !.state = "CANCELLED"] ELSE exp.trials[id]]
<1>1. /\ run.state \notin Over
      /\ exp' = [exp EXCEPT !.trials = trials, !.runs = Assigned(exp.runs, {run.id}, updated),
                            !.checkpoints = Checkpointed(exp.checkpoints, updated)]
  BY DEF CancelRun
<1>2. SoundRun(exp, x) /\ run.id = x
  BY DEF SoundExperiments, SoundRun
<1>3. updated = [id |-> run.id, state |-> "CANCELLED", trials |-> run.trials, completed |-> run.completed,
                 failed |-> run.failed, cancelled |-> left, card |-> run.card]
  <2>1. run = [id |-> run.id, state |-> run.state, trials |-> run.trials, completed |-> run.completed,
               failed |-> run.failed, cancelled |-> run.cancelled, card |-> run.card]
    BY <1>2 DEF SoundRun
  <2>2. updated = [run EXCEPT !.state = "CANCELLED", !.cancelled = left]
    OBVIOUS
  <2> HIDE DEF run, left, updated
  <2>3. QED
    BY <2>1, <2>2
<1>4. /\ updated.state = "CANCELLED" /\ updated.completed = run.completed
      /\ updated.failed = run.failed /\ updated.cancelled = left
      /\ updated = [id |-> run.id, state |-> updated.state, trials |-> run.trials,
                    completed |-> updated.completed, failed |-> updated.failed,
                    cancelled |-> updated.cancelled, card |-> updated.card]
  <2> HIDE DEF run, left, updated
  <2>1. QED
    BY <1>3
<1>5. /\ updated.completed \cup updated.failed \cup updated.cancelled \subseteq 1..run.trials
      /\ updated.completed \cap updated.failed = {}
  <2> HIDE DEF updated
  <2>1. QED
    BY <1>2, <1>4 DEF SoundRun
<1>6. /\ DOMAIN trials = DOMAIN exp.trials /\ \A t \in DOMAIN trials : trials[t] \in Trial
      /\ \A t \in DOMAIN trials : t[1] # run.id[1] => trials[t] = exp.trials[t]
  BY DEF SoundExperiments, Trial, TrialState
<1>7. ASSUME NEW k \in updated.completed
      PROVE  k \in run.completed /\ trials[<<run.id[1], k>>] = exp.trials[<<run.id[1], k>>]
  <2> DEFINE t == <<run.id[1], k>>
  <2>1. k \in run.completed
    <3> HIDE DEF updated
    <3>1. QED
      BY <1>4, <1>7
  <2>2. t \in DOMAIN exp.trials /\ t[2] = k /\ k \notin left
    BY <1>2, <2>1 DEF SoundRun
  <2>3. trials[t] = exp.trials[t]
    <3> HIDE DEF left, t
    <3>1. QED
      BY <2>2
  <2>4. QED
    BY <2>1, <2>3
<1>8. exp' = [exp EXCEPT !.trials = trials, !.runs = Assigned(exp.runs, {run.id}, updated),
                         !.checkpoints = exp'.checkpoints, !.manifests = exp.manifests \cup {}]
  <2> HIDE DEF trials, updated, run
  <2>1. exp'.checkpoints = Checkpointed(exp.checkpoints, updated)
    BY <1>1 DEF SoundExperiments, EngineFields
  <2>2. exp.manifests \cup {} = exp.manifests
    OBVIOUS
  <2>3. [exp EXCEPT !.manifests = exp.manifests] = exp
    BY DEF SoundExperiments, EngineFields
  <2>4. QED
    BY <1>1, <2>1, <2>2 DEF SoundExperiments, EngineFields
<1>9. Advances(run, updated, trials, {})
  <2>1. updated.state \in ExperimentState /\ updated.state # "COMPLETED"
    <3> HIDE DEF updated
    <3>1. QED
      BY <1>4 DEF ExperimentState
  <2> HIDE DEF trials, updated, run
  <2>2. QED
    BY <1>4, <1>5, <1>6, <1>7, <1>8, <2>1 DEF Advances
<1>10. run.state # "COMPLETED"
  BY <1>1 DEF Over
<1>11. QED
  <2> HIDE DEF trials, updated
  <2>1. QED
    BY <1>9, <1>10, AdvanceFacts

\* What is said of a state does not depend on whether it is restricted.
LEMMA RestrictedFacts ==
  ASSUME NEW e, SoundExperiments(e), NEW r
  PROVE  SoundExperiments([e EXCEPT !.restricted = r])
<1> DEFINE f == [e EXCEPT !.restricted = r]
<1>1. /\ EngineFields(f) /\ f.definitions = e.definitions /\ f.observations = e.observations
      /\ f.runs = e.runs /\ f.trials = e.trials /\ f.manifests = e.manifests
      /\ f.superseded = e.superseded
  BY DEF SoundExperiments, EngineFields
<1> HIDE DEF f
<1>2. \A id : (SoundRun(f, id) <=> SoundRun(e, id)) /\ (Alone(f, id) <=> Alone(e, id))
  BY <1>1 DEF SoundRun, Alone
<1>3. \A id : SoundTrials(f, id) <=> SoundTrials(e, id)
  BY <1>1, <1>2 DEF SoundTrials
<1>4. \A m : SoundManifest(f, m) <=> SoundManifest(e, m)
  BY <1>1, <1>2 DEF SoundManifest
<1>5. SoundExperiments(f)
  BY <1>1, <1>2, <1>3, <1>4 DEF SoundExperiments, SoundDefinitions
<1>6. QED
  BY <1>5 DEF f

\* A recovery state is restored, or refused.
LEMMA RestoreExperimentsPreserves ==
  ASSUME ExperimentInvariant, NEW epoch, RestoreExperiments(epoch)
  PROVE  ExperimentInvariant'
<1>1. savedExp # None /\ savedExp' = savedExp
  BY DEF RestoreExperiments
<1>2. SoundExperiments(exp')
  <2>1. CASE savedExp.epoch # epoch
    <3>1. exp' = [exp EXCEPT !.restricted = TRUE]
      BY <2>1 DEF RestoreExperiments
    <3>2. QED
      BY <3>1, RestrictedFacts DEF ExperimentInvariant
  <2>2. CASE savedExp.epoch = epoch
    <3> DEFINE r == \E id \in DOMAIN savedExp.state.runs : ~RunReconciles(savedExp.state, savedExp.state.runs[id])
    <3>1. exp' = [savedExp.state EXCEPT !.restricted = r]
      BY <2>2 DEF RestoreExperiments
    <3> HIDE DEF r
    <3>2. QED
      BY <1>1, <3>1, RestrictedFacts DEF ExperimentInvariant
  <2>3. QED
    BY <2>1, <2>2
<1>3. QED
  BY <1>1, <1>2 DEF ExperimentInvariant

\* The invariant holds from the start, and every call keeps it.
LEMMA ExperimentStep ==
  /\ ExperimentInit => ExperimentInvariant
  /\ ExperimentInvariant /\ [ExperimentNext]_experimentVars => ExperimentInvariant'
<1>1. ASSUME ExperimentInit PROVE ExperimentInvariant
  <2>1. /\ exp.definitions = {} /\ exp.observations = {} /\ exp.manifests = {} /\ EngineFields(exp)
        /\ DOMAIN exp.runs = {} /\ DOMAIN exp.trials = {} /\ savedExp = None
    BY <1>1 DEF ExperimentInit, FreshExperiments, EngineFields
  <2>2. QED
    BY <2>1, FS_EmptySet DEF ExperimentInvariant, SoundExperiments, SoundDefinitions
<1>2. ASSUME ExperimentInvariant, [ExperimentNext]_experimentVars PROVE ExperimentInvariant'
  <2>1. SoundExperiments(exp)
    BY <1>2 DEF ExperimentInvariant
  <2>2. ASSUME NEW d \in Definitions, NEW offered \in Offered, RegisterExperiment(d, offered)
        PROVE  ExperimentInvariant'
    <3>1. savedExp' = savedExp
      BY <2>2 DEF RegisterExperiment
    <3>2. QED
      BY <1>2, <2>1, <2>2, <3>1, RegisterPreserves DEF ExperimentInvariant
  <2>3. ASSUME NEW d \in exp.definitions, NEW epoch \in RunEpochs, PlanExperiment(d, epoch)
        PROVE  ExperimentInvariant'
    <3>1. savedExp' = savedExp
      BY <2>3 DEF PlanExperiment
    <3>2. QED
      BY <1>2, <2>1, <2>3, <3>1, PlanPreserves DEF ExperimentInvariant
  <2>4. ASSUME NEW id \in DOMAIN exp.runs, NEW maximum, NEW fails,
               ExecuteRun(exp.runs[id], maximum, fails)
        PROVE  ExperimentInvariant'
    <3>1. savedExp' = savedExp
      BY <2>4 DEF ExecuteRun
    <3>2. QED
      BY <1>2, <2>1, <2>4, <3>1, ExecutePreserves DEF ExperimentInvariant
  <2>5. ASSUME NEW id \in DOMAIN exp.runs, CancelRun(exp.runs[id])
        PROVE  ExperimentInvariant'
    <3>1. savedExp' = savedExp
      BY <2>5 DEF CancelRun
    <3>2. QED
      BY <1>2, <2>1, <2>5, <3>1, CancelPreserves DEF ExperimentInvariant
  <2>6. ASSUME NEW epoch \in RunEpochs, SaveExperiments(epoch)
        PROVE  ExperimentInvariant'
    <3>1. exp' = exp /\ savedExp'.state = exp
      BY <2>6 DEF SaveExperiments
    <3>2. QED
      BY <2>1, <3>1 DEF ExperimentInvariant
  <2>7. ASSUME NEW epoch \in RunEpochs, RestoreExperiments(epoch)
        PROVE  ExperimentInvariant'
    BY <1>2, <2>7, RestoreExperimentsPreserves
  <2>8. CASE UNCHANGED experimentVars
    BY <1>2, <2>8 DEF experimentVars, ExperimentInvariant
  <2>9. QED
    BY <1>2, <2>2, <2>3, <2>4, <2>5, <2>6, <2>7, <2>8 DEF ExperimentNext
<1>3. QED
  BY <1>1, <1>2

\* What is sound is found again.
LEMMA ReplaySound == ExperimentInvariant => ReplayHolds
<1> SUFFICES ASSUME ExperimentInvariant PROVE ReplayHolds
  OBVIOUS
<1>1. SoundExperiments(exp)
  BY DEF ExperimentInvariant
<1>2. ExperimentTypeOK
  BY <1>1 DEF ExperimentTypeOK, SoundExperiments, SoundDefinitions, SoundRun, Trial
<1>3. ASSUME NEW m \in exp.manifests \ exp.superseded,
             Cardinality({id \in DOMAIN exp.runs : id[1] = m.run[1]}) = 1
      PROVE  LET run == exp.runs[m.run]
             IN /\ ReplayFingerprint(run, exp.trials) = m.fingerprint
                /\ RunReconciles(exp, run)
                /\ run.completed \cup run.failed = 1..run.trials /\ run.completed \cap run.failed = {}
  <2> DEFINE same == {id \in DOMAIN exp.runs : id[1] = m.run[1]}
             run == exp.runs[m.run]
  <2>1. SoundManifest(exp, m) /\ m.run \in same /\ SoundRun(exp, m.run) /\ SoundTrials(exp, m.run)
    BY <1>1 DEF SoundExperiments, SoundManifest
  <2>2. Alone(exp, m.run)
    <3>1. IsFiniteSet(same)
      BY <1>1, FS_Subset DEF SoundExperiments
    <3>2. \E id : same = {id}
      <4> HIDE DEF same
      <4>1. QED
        BY <1>3, <3>1, FS_Singleton DEF same
    <3>3. QED
      BY <2>1, <3>2 DEF Alone
  <2>3. ReplayFingerprint(run, exp.trials) = m.fingerprint /\ run.state = "COMPLETED" /\ run.id = m.run
    BY <1>3, <2>1, <2>2 DEF SoundManifest, SoundRun
  <2>4. \A k \in run.completed : exp.trials[<<m.run[1], k>>].state = "COMPLETED"
    BY <2>1, <2>2 DEF SoundTrials
  <2>5. QED
    BY <2>1, <2>3, <2>4 DEF SoundRun, RunReconciles
<1>4. QED
  BY <1>2, <1>3 DEF ReplayHolds

-----------------------------------------------------------------------------
(* Robustness: holdouts are spent once.                                    *)

\* Seals are never withdrawn: the later ones begin with the earlier ones.
Continues(later, earlier) ==
  /\ Len(earlier) <= Len(later)
  /\ \A i \in 1..Len(earlier) : later[i] = earlier[i]

\* The seals of a plan.
SealsOf(seals, plan) == {s.id : s \in {t \in Range(seals) : t.id.plan = plan}}

\* What Contamination says, of any seals of which some were used.
SealingIn(p, w, seals) ==
  {i \in DOMAIN seals : /\ seals[i].id.plan = p.id
                        /\ seals[i].id.start <= w.validated[1] /\ seals[i].id.end >= w.validated[2]}

WindowVerdict(p, w, seals, used) ==
  LET seal == seals[Min(SealingIn(p, w, seals))].id
  IN IF SealingIn(p, w, seals) = {} THEN "UNKNOWN"
     ELSE IF seal.sealed > w.validated[1] THEN "CONTAMINATED"
     ELSE IF seal \in used THEN "POTENTIALLY_CONTAMINATED"
     ELSE "CLEAN"

WindowVerdicts(p, windows, seals, used) == {WindowVerdict(p, w, seals, used) : w \in windows} \cup {"CLEAN"}

\* The worst of some verdicts.
IsWorst(s, states) ==
  s \in states /\ \A t \in states : ContaminationRank[t] <= ContaminationRank[s]

\* A judgement follows from the seals and from those of them that had been used.
SoundJudgement(a, used, registered) ==
  \E p \in registered :
    /\ a.profile.plan = p.id /\ a.windows = Range(Windows[p])
    /\ IsWorst(a.profile.contamination, WindowVerdicts(p, a.windows, a.seals, used))
    /\ a.profile.classification = "CONTAMINATED" <=> a.profile.contamination = "CONTAMINATED"
    /\ a.seals \in Seq([id : HoldoutSeal])

\* Later judgements know of the seals of earlier ones, and that they are used.
SoundJudgements(used) ==
  /\ used \in Seq(SUBSET HoldoutSeal) /\ Len(used) = Len(judged)
  /\ \A i \in 1..Len(judged) :
       LET known == used[i] \cup SealsOf(judged[i].seals, judged[i].profile.plan)
       IN /\ SoundJudgement(judged[i], used[i], robust.plans)
          /\ known \subseteq robust.used /\ Continues(robust.seals, judged[i].seals)
          /\ \A j \in 1..Len(judged) :
               i < j => known \subseteq used[j] /\ Continues(judged[j].seals, judged[i].seals)

\* A result belongs to a profile and to results of windows, and its evidence is its plan's.
SoundResult(e, r) ==
  /\ r.id.profile \in e.profiles /\ r.id.results \subseteq e.windowResults
  /\ \A x \in r.evidence : x.plan = r.id.profile.plan

RobustFields(e) ==
  e = [plans |-> e.plans, observations |-> e.observations, seals |-> e.seals,
       windowResults |-> e.windowResults, evidence |-> e.evidence, profiles |-> e.profiles,
       results |-> e.results, used |-> e.used]

SoundPlans(e) ==
  /\ e.plans \subseteq RobustnessPlans /\ e.observations \subseteq MeasuredObservation
  /\ \A p, q \in e.plans : p.id = q.id => p = q
  /\ \A p \in e.plans : p.embargo >= 0

SoundRobust(e) ==
  /\ RobustFields(e) /\ SoundPlans(e)
  /\ e.seals \in Seq([id : HoldoutSeal])
  /\ \A profile \in e.profiles :
       profile.contamination \in ContaminationState /\ profile.classification \in RobustnessClassification
  /\ \E S : e.results \in Seq(S) /\ \A r \in S : SoundResult(e, r)

\* The inductive invariant.
RobustnessInvariant ==
  /\ SoundRobust(robust) /\ robust.used \subseteq HoldoutSeal
  /\ savedRobust # None => SoundRobust(savedRobust)
  /\ \E J : judged \in Seq(J)
  /\ \E used : SoundJudgements(used)

\* Verdicts are states.
LEMMA VerdictsAreStates ==
  \A p, windows, s, u : WindowVerdicts(p, windows, s, u) \subseteq ContaminationState
<1>1. \A p, w, s, u : WindowVerdict(p, w, s, u) \in ContaminationState
  BY DEF WindowVerdict, ContaminationState
<1>2. "CLEAN" \in ContaminationState
  BY DEF ContaminationState
<1>3. QED
  BY <1>1, <1>2 DEF WindowVerdicts

\* The verdict of now is the engine's.
LEMMA VerdictFacts ==
  ASSUME NEW p, NEW windows
  PROVE  /\ \A w : Contamination(p, w) = WindowVerdict(p, w, robust.seals, robust.used)
         /\ \A w, s, u : WindowVerdict(p, w, s, u) \in ContaminationState
         /\ IsWorst(Contaminated(p, windows), WindowVerdicts(p, windows, robust.seals, robust.used))
<1>1. \A w : Contamination(p, w) = WindowVerdict(p, w, robust.seals, robust.used)
  <2> SUFFICES ASSUME NEW w PROVE Contamination(p, w) = WindowVerdict(p, w, robust.seals, robust.used)
    OBVIOUS
  <2>1. Sealing(p, w) = SealingIn(p, w, robust.seals)
    BY DEF Sealing, SealingIn
  <2>2. QED
    BY <2>1 DEF Contamination, WindowVerdict
<1>2. \A w, s, u : WindowVerdict(p, w, s, u) \in ContaminationState
  BY DEF WindowVerdict, ContaminationState
<1>3. IsWorst(Contaminated(p, windows), WindowVerdicts(p, windows, robust.seals, robust.used))
  <2> DEFINE states == WindowVerdicts(p, windows, robust.seals, robust.used)
             worst == CHOOSE s \in states : \A t \in states : ContaminationRank[t] <= ContaminationRank[s]
  <2>1. {Contamination(p, w) : w \in windows} \cup {"CLEAN"} = states
    BY <1>1 DEF WindowVerdicts
  <2>2. Contaminated(p, windows) = worst
    <3> HIDE DEF states
    <3>1. QED
      BY <2>1 DEF Contaminated
  <2>3. states \subseteq ContaminationState /\ "CLEAN" \in states
    BY <1>2 DEF WindowVerdicts, ContaminationState
  <2>4. \E s \in states : \A t \in states : ContaminationRank[t] <= ContaminationRank[s]
    <3> HIDE DEF states
    <3>1. /\ ContaminationRank["CLEAN"] = 0 /\ ContaminationRank["UNKNOWN"] = 1
          /\ ContaminationRank["POTENTIALLY_CONTAMINATED"] = 2 /\ ContaminationRank["CONTAMINATED"] = 3
      BY DEF ContaminationRank
    <3>2. CASE "CONTAMINATED" \in states
      BY <2>3, <3>1, <3>2 DEF ContaminationState
    <3>3. CASE "CONTAMINATED" \notin states /\ "POTENTIALLY_CONTAMINATED" \in states
      BY <2>3, <3>1, <3>3 DEF ContaminationState
    <3>4. CASE /\ "CONTAMINATED" \notin states /\ "POTENTIALLY_CONTAMINATED" \notin states
               /\ "UNKNOWN" \in states
      BY <2>3, <3>1, <3>4 DEF ContaminationState
    <3>5. CASE states \subseteq {"CLEAN"}
      BY <2>3, <3>1, <3>5
    <3>6. QED
      BY <2>3, <3>2, <3>3, <3>4, <3>5 DEF ContaminationState
  <2> HIDE DEF states
  <2>5. worst \in states /\ \A t \in states : ContaminationRank[t] <= ContaminationRank[worst]
    BY <2>4
  <2> HIDE DEF worst
  <2>6. IsWorst(worst, states)
    BY <2>5 DEF IsWorst
  <2>7. QED
    BY <2>2, <2>6 DEF states
<1>4. QED
  BY <1>1, <1>2, <1>3

\* The first seal that holds a window stays the first.
LEMMA FirstSealStays ==
  ASSUME NEW p, NEW w, NEW s \in Seq([id : HoldoutSeal]), NEW t \in Seq([id : HoldoutSeal]),
         Continues(t, s), SealingIn(p, w, s) # {}
  PROVE  /\ SealingIn(p, w, t) # {} /\ Min(SealingIn(p, w, t)) = Min(SealingIn(p, w, s))
         /\ t[Min(SealingIn(p, w, t))] = s[Min(SealingIn(p, w, s))]
         /\ s[Min(SealingIn(p, w, s))].id \in SealsOf(s, p.id)
<1> DEFINE A == SealingIn(p, w, s)
           B == SealingIn(p, w, t)
<1>1. /\ DOMAIN s = 1..Len(s) /\ DOMAIN t = 1..Len(t) /\ Len(s) \in Nat /\ Len(t) \in Nat
      /\ Len(s) <= Len(t) /\ \A i \in 1..Len(s) : t[i] = s[i]
  BY DEF Continues
<1>2. \A i \in 1..Len(s) : i \in A <=> i \in B
  BY <1>1 DEF SealingIn
<1>3. A \in SUBSET Nat /\ B \in SUBSET Nat /\ A \subseteq 1..Len(s) /\ B \subseteq 1..Len(t)
  BY <1>1 DEF SealingIn
<1>4. A # {} /\ B # {}
  BY <1>2, <1>3
<1> DEFINE a == Min(A)
           b == Min(B)
<1>5. a \in A /\ \A i \in A : a <= i
  <2> HIDE DEF A
  <2>1. QED
    BY <1>3, <1>4, LeastOf
<1>6. b \in B /\ \A i \in B : b <= i
  <2> HIDE DEF B
  <2>1. QED
    BY <1>3, <1>4, LeastOf
<1>7. a = b /\ a \in 1..Len(s)
  <2> HIDE DEF a, b, A, B
  <2>1. a \in 1..Len(s) /\ a \in B /\ b <= a
    <3>1. a \in 1..Len(s)
      BY <1>3, <1>5
    <3>2. a \in B
      BY <1>2, <1>5, <3>1
    <3>3. b <= a
      BY ONLY <1>6, <3>2
    <3>4. QED
      BY <3>1, <3>2, <3>3
  <2>2. b \in 1..Len(s)
    <3>1. b \in 1..Len(t) /\ b <= a /\ a \in 1..Len(s) /\ Len(s) \in Nat /\ Len(t) \in Nat
      BY <1>1, <1>3, <1>6, <2>1
    <3>2. QED
      BY ONLY <3>1
  <2>3. b \in A /\ a <= b
    BY <1>2, <1>5, <1>6, <2>2
  <2>4. QED
    BY <1>3, <1>5, <1>6, <2>1, <2>3
<1>8. s[a].id \in SealsOf(s, p.id)
  <2>1. s[a] \in Range(s) /\ s[a].id.plan = p.id
    <3>1. a \in DOMAIN s
      BY <1>1, <1>7
    <3>2. \A i \in A : s[i].id.plan = p.id
      BY DEF SealingIn
    <3> HIDE DEF a, A
    <3>3. QED
      BY <1>5, <3>1, <3>2 DEF Range
  <2>2. QED
    BY <2>1 DEF SealsOf
<1>9. QED
  BY <1>1, <1>4, <1>7, <1>8

\* How a verdict changes while seals are added and used.
LEMMA VerdictGrows ==
  ASSUME NEW p, NEW w, NEW s \in Seq([id : HoldoutSeal]), NEW t \in Seq([id : HoldoutSeal]),
         Continues(t, s), NEW u, NEW v, u \cup SealsOf(s, p.id) \subseteq v
  PROVE  /\ WindowVerdict(p, w, s, u) = "CLEAN" =>
              WindowVerdict(p, w, t, v) \in {"POTENTIALLY_CONTAMINATED", "CONTAMINATED"}
         /\ WindowVerdict(p, w, s, u) = "CONTAMINATED" => WindowVerdict(p, w, t, v) = "CONTAMINATED"
         /\ s = t =>
              ContaminationRank[WindowVerdict(p, w, s, u)] <= ContaminationRank[WindowVerdict(p, w, t, v)]
<1> DEFINE first == s[Min(SealingIn(p, w, s))].id
<1>1. /\ ContaminationRank["CLEAN"] = 0 /\ ContaminationRank["UNKNOWN"] = 1
      /\ ContaminationRank["POTENTIALLY_CONTAMINATED"] = 2 /\ ContaminationRank["CONTAMINATED"] = 3
  BY DEF ContaminationRank
<1>2. CASE SealingIn(p, w, s) = {}
  <2>1. WindowVerdict(p, w, s, u) = "UNKNOWN" /\ (s = t => WindowVerdict(p, w, t, v) = "UNKNOWN")
    BY <1>2 DEF WindowVerdict
  <2>2. QED
    BY <1>1, <2>1
<1>3. CASE SealingIn(p, w, s) # {}
  <2>1. /\ SealingIn(p, w, t) # {} /\ t[Min(SealingIn(p, w, t))].id = first
        /\ first \in SealsOf(s, p.id)
    BY <1>3, FirstSealStays
  <2>2. first \in v /\ (first \in u => first \in v)
    BY <2>1
  <2>3. /\ WindowVerdict(p, w, s, u) = IF first.sealed > w.validated[1] THEN "CONTAMINATED"
                                 ELSE IF first \in u THEN "POTENTIALLY_CONTAMINATED" ELSE "CLEAN"
        /\ WindowVerdict(p, w, t, v) = IF first.sealed > w.validated[1] THEN "CONTAMINATED"
                                 ELSE "POTENTIALLY_CONTAMINATED"
    BY <1>3, <2>1, <2>2 DEF WindowVerdict
  <2> HIDE DEF first
  <2>4. QED
    BY <1>1, <2>3
<1>4. QED
  BY <1>2, <1>3

\* Of two judgements of a plan the later one is no better.
LEMMA JudgedTwice ==
  ASSUME RobustnessInvariant, NEW i \in DOMAIN judged, NEW j \in DOMAIN judged, i < j,
         judged[i].profile.plan = judged[j].profile.plan
  PROVE  LET a == judged[i]
             b == judged[j]
         IN /\ a.windows # {} => "CLEAN" \notin {a.profile.contamination} \cap {b.profile.contamination}
            /\ a.profile.classification = "CONTAMINATED" => b.profile.classification = "CONTAMINATED"
            /\ a.seals = b.seals =>
                 ContaminationRank[a.profile.contamination] <= ContaminationRank[b.profile.contamination]
<1> DEFINE a == judged[i]
           b == judged[j]
<1>1. PICK used : SoundJudgements(used)
  BY DEF RobustnessInvariant
<1>2. i \in 1..Len(judged) /\ j \in 1..Len(judged)
  BY DEF RobustnessInvariant
<1>3. /\ SoundJudgement(a, used[i], robust.plans) /\ SoundJudgement(b, used[j], robust.plans)
      /\ used[i] \cup SealsOf(a.seals, a.profile.plan) \subseteq used[j] /\ Continues(b.seals, a.seals)
  BY <1>1, <1>2 DEF SoundJudgements
<1> DEFINE u == used[i]
           v == used[j]
<1> HIDE DEF a, b, u, v
<1>4. PICK p \in robust.plans :
        /\ a.profile.plan = p.id /\ a.windows = Range(Windows[p])
        /\ IsWorst(a.profile.contamination, WindowVerdicts(p, a.windows, a.seals, u))
        /\ a.profile.classification = "CONTAMINATED" <=> a.profile.contamination = "CONTAMINATED"
        /\ a.seals \in Seq([id : HoldoutSeal])
  BY <1>3 DEF SoundJudgement, u
<1>5. PICK q \in robust.plans :
        /\ b.profile.plan = q.id /\ b.windows = Range(Windows[q])
        /\ IsWorst(b.profile.contamination, WindowVerdicts(q, b.windows, b.seals, v))
        /\ b.profile.classification = "CONTAMINATED" <=> b.profile.contamination = "CONTAMINATED"
        /\ b.seals \in Seq([id : HoldoutSeal])
  BY <1>3 DEF SoundJudgement, v
<1>6. p = q /\ a.windows = b.windows
  <2>1. p = q
    BY <1>4, <1>5 DEF RobustnessInvariant, SoundRobust, SoundPlans, a, b
  <2>2. QED
    BY <1>4, <1>5, <2>1
<1> DEFINE x(w) == WindowVerdict(p, w, a.seals, u)
           y(w) == WindowVerdict(p, w, b.seals, v)
           rank == ContaminationRank
           c == a.profile.contamination
           d == b.profile.contamination
<1>7. \A w : /\ x(w) = "CLEAN" => y(w) \in {"POTENTIALLY_CONTAMINATED", "CONTAMINATED"}
             /\ x(w) = "CONTAMINATED" => y(w) = "CONTAMINATED"
             /\ a.seals = b.seals => rank[x(w)] <= rank[y(w)]
  <2>1. u \cup SealsOf(a.seals, p.id) \subseteq v
    BY <1>3, <1>4 DEF u, v
  <2>2. Continues(b.seals, a.seals)
    BY <1>3
  <2>3. QED
    BY <1>4, <1>5, <2>1, <2>2, VerdictGrows
<1>8. /\ c \in {x(w) : w \in a.windows} \cup {"CLEAN"} /\ \A w \in a.windows : rank[x(w)] <= rank[c]
      /\ d \in {y(w) : w \in a.windows} \cup {"CLEAN"} /\ \A w \in a.windows : rank[y(w)] <= rank[d]
  BY <1>4, <1>5, <1>6 DEF IsWorst, WindowVerdicts
<1>9. /\ \A w : x(w) \in ContaminationState /\ y(w) \in ContaminationState
      /\ c \in ContaminationState /\ d \in ContaminationState
  <2>1. \A w : x(w) \in ContaminationState /\ y(w) \in ContaminationState
    BY VerdictFacts
  <2> HIDE DEF x, y, c, d
  <2>2. QED
    BY <1>8, <2>1 DEF ContaminationState
<1>10. /\ rank["CLEAN"] = 0 /\ rank["UNKNOWN"] = 1
       /\ rank["POTENTIALLY_CONTAMINATED"] = 2 /\ rank["CONTAMINATED"] = 3
  BY DEF ContaminationRank
<1> HIDE DEF x, y, rank, c, d
<1>11. a.windows # {} => ~(c = "CLEAN" /\ d = "CLEAN")
  <2> SUFFICES ASSUME NEW w \in a.windows, c = "CLEAN", d = "CLEAN" PROVE FALSE
    OBVIOUS
  <2>1. rank[x(w)] <= 0 /\ rank[y(w)] <= 0
    BY <1>8, <1>10
  <2>2. x(w) = "CLEAN" /\ y(w) = "CLEAN"
    BY <1>9, <1>10, <2>1 DEF ContaminationState
  <2>3. QED
    BY <1>7, <2>2
<1>12. c = "CONTAMINATED" => d = "CONTAMINATED"
  <2> SUFFICES ASSUME c = "CONTAMINATED" PROVE d = "CONTAMINATED"
    OBVIOUS
  <2>1. PICK w \in a.windows : x(w) = "CONTAMINATED"
    BY <1>8
  <2>2. 3 <= rank[d]
    BY <1>7, <1>8, <1>10, <2>1
  <2>3. QED
    BY <1>9, <1>10, <2>2 DEF ContaminationState
<1>13. a.seals = b.seals => rank[c] <= rank[d]
  <2> SUFFICES ASSUME a.seals = b.seals PROVE rank[c] <= rank[d]
    OBVIOUS
  <2>1. rank[d] \in 0..3
    BY <1>9, <1>10 DEF ContaminationState
  <2>2. CASE c = "CLEAN"
    BY <1>10, <2>1, <2>2
  <2>3. CASE c # "CLEAN"
    <3>1. PICK w \in a.windows : c = x(w)
      BY <1>8, <2>3
    <3>2. rank[x(w)] <= rank[y(w)] /\ rank[y(w)] <= rank[d]
      BY <1>7, <1>8
    <3>3. rank[x(w)] \in 0..3 /\ rank[y(w)] \in 0..3
      BY <1>9, <1>10 DEF ContaminationState
    <3>4. QED
      BY <2>1, <3>1, <3>2, <3>3
  <2>4. QED
    BY <2>2, <2>3
<1>14. QED
  BY <1>4, <1>5, <1>11, <1>12, <1>13 DEF a, b, c, d, rank
\* Judgements stay sound while plans, seals and uses are added.
LEMMA JudgementsKept ==
  ASSUME RobustnessInvariant, UNCHANGED judged,
         robust.plans \subseteq robust'.plans, robust.used \subseteq robust'.used,
         Continues(robust'.seals, robust.seals), robust'.seals \in Seq([id : HoldoutSeal])
  PROVE  \E used : SoundJudgements(used)'
<1>1. PICK used : SoundJudgements(used)
  BY DEF RobustnessInvariant
<1>2. /\ used \in Seq(SUBSET HoldoutSeal) /\ Len(used) = Len(judged) /\ judged' = judged
      /\ robust.seals \in Seq([id : HoldoutSeal])
  BY <1>1 DEF SoundJudgements, RobustnessInvariant, SoundRobust
<1>3. ASSUME NEW i \in 1..Len(judged)
      PROVE  LET known == used[i] \cup SealsOf(judged[i].seals, judged[i].profile.plan)
             IN /\ SoundJudgement(judged[i], used[i], robust'.plans)
                /\ known \subseteq robust'.used /\ Continues(robust'.seals, judged[i].seals)
                /\ \A j \in 1..Len(judged) :
                     i < j => known \subseteq used[j] /\ Continues(judged[j].seals, judged[i].seals)
  <2> DEFINE known == used[i] \cup SealsOf(judged[i].seals, judged[i].profile.plan)
  <2>1. /\ SoundJudgement(judged[i], used[i], robust.plans)
        /\ known \subseteq robust.used /\ Continues(robust.seals, judged[i].seals)
        /\ \A j \in 1..Len(judged) :
             i < j => known \subseteq used[j] /\ Continues(judged[j].seals, judged[i].seals)
    BY <1>1 DEF SoundJudgements
  <2>2. SoundJudgement(judged[i], used[i], robust'.plans) /\ judged[i].seals \in Seq([id : HoldoutSeal])
    BY <1>2, <2>1 DEF SoundJudgement
  <2>3. Continues(robust'.seals, judged[i].seals)
    <3>1. Len(judged[i].seals) \in Nat /\ Len(robust.seals) \in Nat /\ Len(robust'.seals) \in Nat
      BY <1>2, <2>2
    <3>2. QED
      BY <2>1, <3>1 DEF Continues
  <2>4. QED
    BY <2>1, <2>2, <2>3
<1>4. SoundJudgements(used)'
  BY <1>2, <1>3 DEF SoundJudgements
<1>5. QED
  BY <1>4

\* A plan is registered.
LEMMA RegisterPlanPreserves ==
  ASSUME RobustnessInvariant, NEW p \in RobustnessPlans, NEW offered \in Measured,
         RegisterPlan(p, offered)
  PROVE  RobustnessInvariant'
<1>1. /\ robust' = [robust EXCEPT !.plans = robust.plans \cup {p},
                                  !.observations = robust.observations \cup offered]
      /\ savedRobust' = savedRobust /\ judged' = judged
      /\ \A q \in robust.plans : q.id # p.id
      /\ p.embargo >= 0 /\ offered \subseteq MeasuredObservation
  BY RobustnessAssumption DEF RegisterPlan, ValidPlan
<1>2. SoundRobust(robust)
  BY DEF RobustnessInvariant
<1>3. /\ robust'.plans = robust.plans \cup {p} /\ robust'.observations = robust.observations \cup offered
      /\ robust'.seals = robust.seals /\ robust'.profiles = robust.profiles
      /\ robust'.windowResults = robust.windowResults /\ robust'.results = robust.results
      /\ robust'.used = robust.used /\ RobustFields(robust')
  BY <1>1, <1>2 DEF SoundRobust, RobustFields
<1>4. SoundPlans(robust')
  BY <1>1, <1>2, <1>3 DEF SoundRobust, SoundPlans
<1>5. SoundRobust(robust')
  <2>1. \E S : robust'.results \in Seq(S) /\ \A r \in S : SoundResult(robust', r)
    BY <1>2, <1>3 DEF SoundRobust, SoundResult
  <2>2. QED
    BY <1>2, <1>3, <1>4, <2>1 DEF SoundRobust
<1>6. \E used : SoundJudgements(used)'
  <2>1. robust.seals \in Seq([id : HoldoutSeal])
    BY <1>2 DEF SoundRobust
  <2>2. Continues(robust'.seals, robust.seals)
    BY <1>3, <2>1 DEF Continues
  <2>3. QED
    BY <1>1, <1>3, <2>1, <2>2, JudgementsKept
<1>7. QED
  BY <1>1, <1>3, <1>5, <1>6 DEF RobustnessInvariant

\* Seals of a plan are seals.
LEMMA SealsOfFacts ==
  ASSUME NEW s \in Seq([id : HoldoutSeal]), NEW plan
  PROVE  SealsOf(s, plan) \subseteq HoldoutSeal
<1>1. \A i \in 1..Len(s) : s[i] \in [id : HoldoutSeal]
  BY ElementOfSeq
<1>2. DOMAIN s = 1..Len(s)
  OBVIOUS
<1>3. QED
  BY <1>1, <1>2 DEF SealsOf, Range

\* A seal is added, or is there already.
LEMMA SealFacts ==
  ASSUME NEW s \in Seq([id : HoldoutSeal]), NEW seal \in HoldoutSeal
  PROVE  Put(s, [id |-> seal]) \in Seq([id : HoldoutSeal]) /\ Continues(Put(s, [id |-> seal]), s)
<1> DEFINE entry == [id |-> seal]
<1>1. entry \in [id : HoldoutSeal] /\ entry.id = seal
  OBVIOUS
<1>2. \A i \in 1..Len(s) : s[i] \in [id : HoldoutSeal] /\ s[i] = [id |-> s[i].id]
  <2>1. \A r \in [id : HoldoutSeal] : r = [id |-> r.id]
    OBVIOUS
  <2>2. \A i \in 1..Len(s) : s[i] \in [id : HoldoutSeal]
    BY ElementOfSeq
  <2>3. QED
    BY ONLY <2>1, <2>2
<1> HIDE DEF entry
<1>3. Put(s, entry) \in Seq([id : HoldoutSeal])
  BY <1>1, PutFacts
<1>4. CASE Held(s, seal)
  <2>1. Put(s, entry) = [i \in DOMAIN s |-> IF s[i].id = seal THEN entry ELSE s[i]]
    BY <1>1, <1>4 DEF Put
  <2>2. \A i \in 1..Len(s) : Put(s, entry)[i] = s[i]
    BY <1>2, <2>1 DEF entry
  <2>3. Len(Put(s, entry)) = Len(s)
    BY <1>1, <1>4, PutFacts
  <2>4. QED
    BY <1>3, <2>2, <2>3 DEF Continues, entry
<1>5. CASE ~Held(s, seal)
  <2>1. Put(s, entry) = Append(s, entry)
    BY <1>1, <1>5 DEF Put
  <2>2. Continues(Append(s, entry), s)
    BY DEF Continues
  <2>3. QED
    BY <1>3, <2>1, <2>2 DEF entry
<1>6. QED
  BY <1>4, <1>5

\* A holdout is sealed.
LEMMA SealPreserves ==
  ASSUME RobustnessInvariant, NEW p \in robust.plans, NEW period \in HoldoutPeriods, NEW at \in SealTimes,
         SealHoldout(p, period, at)
  PROVE  RobustnessInvariant'
<1> DEFINE seal == [plan |-> p.id, start |-> period[1], end |-> period[2], sealed |-> at]
           seals == Put(robust.seals, [id |-> seal])
<1>1. /\ robust' = [robust EXCEPT !.seals = seals] /\ savedRobust' = savedRobust /\ judged' = judged
  BY DEF SealHoldout
<1>2. SoundRobust(robust)
  BY DEF RobustnessInvariant
<1>3. seal \in HoldoutSeal
  <2>1. p.id \in STRING /\ period[1] \in Time /\ period[2] \in Time /\ at \in Time
    BY <1>2, RobustnessAssumption DEF SoundRobust, SoundPlans, RobustnessValidationPlan
  <2>2. QED
    BY <2>1 DEF HoldoutSeal
<1> HIDE DEF seal
<1>4. seals \in Seq([id : HoldoutSeal]) /\ Continues(seals, robust.seals)
  BY <1>2, <1>3, SealFacts DEF SoundRobust
<1> HIDE DEF seals
<1>5. /\ robust'.plans = robust.plans /\ robust'.observations = robust.observations
      /\ robust'.seals = seals /\ robust'.profiles = robust.profiles
      /\ robust'.windowResults = robust.windowResults /\ robust'.results = robust.results
      /\ robust'.used = robust.used /\ RobustFields(robust')
  BY <1>1, <1>2 DEF SoundRobust, RobustFields
<1>6. SoundRobust(robust')
  <2>1. \E S : robust'.results \in Seq(S) /\ \A r \in S : SoundResult(robust', r)
    BY <1>2, <1>5 DEF SoundRobust, SoundResult
  <2>2. QED
    BY <1>2, <1>4, <1>5, <2>1 DEF SoundRobust, SoundPlans
<1>7. \E used : SoundJudgements(used)'
  BY <1>1, <1>4, <1>5, JudgementsKept
<1>8. QED
  BY <1>1, <1>5, <1>6, <1>7 DEF RobustnessInvariant

\* What is said of an engine does not depend on the seals it has used.
LEMMA UsedFacts ==
  ASSUME NEW e, SoundRobust(e), NEW u
  PROVE  LET f == [e EXCEPT !.used = u]
         IN SoundRobust(f) /\ f.used = u
<1> DEFINE f == [e EXCEPT !.used = u]
<1>1. /\ f.plans = e.plans /\ f.observations = e.observations /\ f.seals = e.seals
      /\ f.profiles = e.profiles /\ f.windowResults = e.windowResults /\ f.results = e.results
      /\ f.used = u /\ RobustFields(f)
  BY DEF SoundRobust, RobustFields
<1> HIDE DEF f
<1>2. \E S : f.results \in Seq(S) /\ \A r \in S : SoundResult(f, r)
  BY <1>1 DEF SoundRobust, SoundResult
<1>3. SoundRobust(f)
  BY <1>1, <1>2 DEF SoundRobust, SoundPlans
<1>4. QED
  BY <1>1, <1>3 DEF f
\* What a judgement leaves behind.
Judges(p, final, profile, results) ==
  /\ robust' = [robust EXCEPT
                  !.windowResults = robust.windowResults \cup results, !.evidence = robust'.evidence,
                  !.profiles = robust.profiles \cup {profile},
                  !.results = PutNew(robust.results, final),
                  !.used = robust.used \cup SealsOf(robust.seals, p.id)]
  /\ judged' = Append(judged, [profile |-> profile, windows |-> Range(Windows[p]), seals |-> robust.seals])
  /\ savedRobust' = savedRobust
  /\ final.id.profile = profile /\ final.id.results = results
  /\ \A x \in final.evidence : x.plan = p.id
  /\ profile.plan = p.id /\ profile.contamination = Contaminated(p, Range(Windows[p]))
  /\ profile.classification \in RobustnessClassification
  /\ profile.classification = "CONTAMINATED" <=> profile.contamination = "CONTAMINATED"

LEMMA ClassificationFacts ==
  \A results, parameter, c :
    LET class == Classification(results, parameter, c)
    IN class \in RobustnessClassification /\ (class = "CONTAMINATED" <=> c = "CONTAMINATED")
BY DEF Classification, RobustnessClassification

LEMMA JudgeFacts ==
  ASSUME SoundRobust(robust), NEW p \in robust.plans, NEW at, JudgePlan(p, at)
  PROVE  \E final, profile, results : Judges(p, final, profile, results)
<1> DEFINE windows       == Range(Windows[p])
           results       == {WindowResult(p, w) : w \in windows} \ {None}
           validations   == {<<r.window.sequence, ValuesIn(p, r.window.validated)>> : r \in results}
           values        == UNION {v[2] : v \in validations}
           sampled       == MapThenSumSet(LAMBDA v : Cardinality(v[2]), validations)
           contamination == Contaminated(p, windows)
           parameter     == ParameterRobustness(p, values)
           stresses      == SetToSeq({Record(p, "NEUTRAL", [stress |-> d]) : d \in p.stresses})
           walk          == <<Cardinality({r \in results : IsStable(r)}), Cardinality(results)>>
           distribution  == IF sampled < MinimumResample THEN None ELSE validations
           class         == Classification(results, parameter, contamination)
           profile == [plan |-> p.id, walk |-> walk, distribution |-> distribution,
                       stress |-> StressStability(p, values), parameter |-> parameter.range,
                       contamination |-> contamination, classification |-> class]
           evidence == EvidenceKept(robust.evidence,
                                [n \in DOMAIN Windows[p] |-> WindowEvidence(p, Windows[p][n])]
                                  \o (IF values = {} THEN <<>> ELSE stresses))
           own   == {r.id : r \in {e \in Range(evidence) : e.id.plan = p.id}}
           final == [id |-> [profile |-> profile, results |-> results], at |-> at, evidence |-> own]
<1>1. /\ robust' = [robust EXCEPT
                      !.windowResults = @ \cup results, !.evidence = evidence, !.profiles = @ \cup {profile},
                      !.results = PutNew(@, final),
                      !.used = @ \cup {s.id : s \in {t \in Range(robust.seals) : t.id.plan = p.id}}]
      /\ judged' = Append(judged, [profile |-> profile, windows |-> windows, seals |-> robust.seals])
      /\ savedRobust' = savedRobust
  BY DEF JudgePlan
<1>2. \A x \in own : x.plan = p.id
  <2> HIDE DEF evidence
  <2>1. QED
    OBVIOUS
<1>3. class \in RobustnessClassification /\ (class = "CONTAMINATED" <=> contamination = "CONTAMINATED")
  <2> HIDE DEF results, parameter, contamination
  <2>1. QED
    BY ClassificationFacts
<1> HIDE DEF walk, distribution, class, parameter, evidence, own, contamination
<1>4. /\ profile.plan = p.id /\ profile.contamination = contamination /\ profile.classification = class
      /\ final.id.profile = profile /\ final.id.results = results /\ final.evidence = own
  OBVIOUS
<1> HIDE DEF results, values, profile, final
<1>5. robust' = [robust EXCEPT
                   !.windowResults = robust.windowResults \cup results, !.evidence = evidence,
                   !.profiles = robust.profiles \cup {profile}, !.results = PutNew(robust.results, final),
                   !.used = robust.used \cup SealsOf(robust.seals, p.id)]
  BY <1>1 DEF SealsOf
<1>6. robust'.evidence = evidence
  BY <1>5 DEF SoundRobust, RobustFields
<1>7. Judges(p, final, profile, results)
  BY <1>1, <1>2, <1>3, <1>4, <1>5, <1>6 DEF Judges, contamination
<1>8. QED
  BY <1>7

\* A plan is judged: its seals are used from now on.
LEMMA JudgePreserves ==
  ASSUME RobustnessInvariant, NEW p \in robust.plans, NEW at, JudgePlan(p, at)
  PROVE  RobustnessInvariant'
<1>1. SoundRobust(robust)
  BY DEF RobustnessInvariant
<1>2. PICK final, profile, results : Judges(p, final, profile, results)
  BY <1>1, JudgeFacts
<1> DEFINE windows == Range(Windows[p])
           a       == [profile |-> profile, windows |-> windows, seals |-> robust.seals]
           own     == SealsOf(robust.seals, p.id)
<1>3. /\ robust'.plans = robust.plans /\ robust'.observations = robust.observations
      /\ robust'.seals = robust.seals /\ robust'.profiles = robust.profiles \cup {profile}
      /\ robust'.windowResults = robust.windowResults \cup results
      /\ robust'.results = PutNew(robust.results, final)
      /\ robust'.used = robust.used \cup own /\ RobustFields(robust')
  BY <1>1, <1>2 DEF SoundRobust, RobustFields, Judges
<1>4. /\ profile.plan = p.id /\ profile.contamination \in ContaminationState
      /\ profile.classification \in RobustnessClassification
      /\ profile.classification = "CONTAMINATED" <=> profile.contamination = "CONTAMINATED"
      /\ IsWorst(profile.contamination, WindowVerdicts(p, windows, robust.seals, robust.used))
  <2>1. IsWorst(profile.contamination, WindowVerdicts(p, windows, robust.seals, robust.used))
    BY <1>2, VerdictFacts DEF Judges
  <2>2. WindowVerdicts(p, windows, robust.seals, robust.used) \subseteq ContaminationState
    BY VerdictsAreStates
  <2>3. QED
    BY <1>2, <2>1, <2>2 DEF Judges, IsWorst
<1>5. SoundRobust(robust')
  <2>1. PICK S : robust.results \in Seq(S) /\ \A r \in S : SoundResult(robust, r)
    BY <1>1 DEF SoundRobust
  <2>2. \A r \in S \cup {final} : SoundResult(robust', r)
    <3>1. \A r \in S : SoundResult(robust', r)
      BY <1>3, <2>1 DEF SoundResult
    <3>2. SoundResult(robust', final)
      BY <1>2, <1>3 DEF SoundResult, Judges
    <3>3. QED
      BY <3>1, <3>2
  <2>3. robust'.results \in Seq(S \cup {final})
    <3>1. robust.results \in Seq(S \cup {final})
      BY <2>1
    <3>2. QED
      BY <1>3, <3>1 DEF PutNew
  <2>4. QED
    BY <1>1, <1>3, <1>4, <2>2, <2>3 DEF SoundRobust, SoundPlans
<1>6. own \subseteq HoldoutSeal
  BY <1>1, SealsOfFacts DEF SoundRobust
<1>7. \E used : SoundJudgements(used)'
  <2>1. PICK used : SoundJudgements(used)
    BY DEF RobustnessInvariant
  <2>0. PICK next : next = Append(used, robust.used)
    OBVIOUS
  <2> DEFINE n    == Len(judged)
             Known(i) == used[i] \cup SealsOf(judged[i].seals, judged[i].profile.plan)
  <2>2. /\ used \in Seq(SUBSET HoldoutSeal) /\ Len(used) = n /\ n \in Nat
        /\ next \in Seq(SUBSET HoldoutSeal) /\ Len(next) = n + 1 /\ next[n + 1] = robust.used
        /\ \A i \in 1..n : next[i] = used[i]
    BY <2>0, <2>1 DEF SoundJudgements, RobustnessInvariant
  <2>3. /\ judged' = Append(judged, a) /\ Len(judged') = n + 1 /\ judged'[n + 1] = a
        /\ \A i \in 1..n : judged'[i] = judged[i]
    BY <1>2 DEF Judges, RobustnessInvariant
  <2>4. \A i \in 1..n :
          /\ SoundJudgement(judged[i], used[i], robust.plans)
          /\ Known(i) \subseteq robust.used /\ Continues(robust.seals, judged[i].seals)
          /\ \A j \in 1..n : i < j => Known(i) \subseteq used[j] /\ Continues(judged[j].seals, judged[i].seals)
    BY <2>1 DEF SoundJudgements
  <2>5. SoundJudgement(a, robust.used, robust.plans)
    <3>1. a.profile = profile /\ a.windows = windows /\ a.seals = robust.seals
      OBVIOUS
    <3> HIDE DEF a, windows
    <3>2. QED
      BY <1>1, <1>4, <3>1 DEF SoundJudgement, SoundRobust, windows
  <2>6. a.seals = robust.seals /\ a.profile = profile
    OBVIOUS
  <2> HIDE DEF a, Known
  <2>8. ASSUME NEW i \in 1..(n + 1)
        PROVE  LET known == next[i] \cup SealsOf(judged'[i].seals, judged'[i].profile.plan)
               IN /\ SoundJudgement(judged'[i], next[i], robust.plans)
                  /\ known \subseteq robust.used \cup own /\ Continues(robust.seals, judged'[i].seals)
                  /\ \A j \in 1..(n + 1) :
                       i < j => known \subseteq next[j] /\ Continues(judged'[j].seals, judged'[i].seals)
    <3>1. CASE i = n + 1
      <4>1. Continues(robust.seals, robust.seals)
        BY <1>1 DEF SoundRobust, Continues
      <4>2. \A j \in 1..(n + 1) : ~(i < j)
        BY <2>2, <3>1
      <4>3. SealsOf(judged'[i].seals, judged'[i].profile.plan) = own
        BY <1>4, <2>3, <2>6, <3>1
      <4>4. QED
        BY <2>2, <2>3, <2>5, <2>6, <3>1, <4>1, <4>2, <4>3
    <3>2. CASE i \in 1..n
      <4>1. /\ next[i] = used[i] /\ judged'[i] = judged[i]
            /\ next[i] \cup SealsOf(judged'[i].seals, judged'[i].profile.plan) = Known(i)
        BY <2>2, <2>3, <3>2 DEF Known
      <4>2. \A j \in 1..(n + 1) :
              i < j => Known(i) \subseteq next[j] /\ Continues(judged'[j].seals, judged[i].seals)
        <5>1. \A j \in 1..(n + 1) : j \in 1..n \/ j = n + 1
          BY <2>2
        <5>2. QED
          BY <2>2, <2>3, <2>4, <2>6, <3>2, <5>1
      <4>3. QED
        BY <2>4, <3>2, <4>1, <4>2
    <3>3. QED
      BY <2>2, <3>1, <3>2
  <2>9. SoundJudgements(next)'
    <3>1. robust'.plans = robust.plans /\ robust'.seals = robust.seals /\ robust'.used = robust.used \cup own
      BY <1>3
    <3> HIDE DEF own
    <3>2. QED
      BY <2>2, <2>3, <2>8, <3>1 DEF SoundJudgements
  <2>10. QED
    BY <2>9
<1>8. \E J : judged' \in Seq(J)
  <2>1. PICK J : judged \in Seq(J)
    BY DEF RobustnessInvariant
  <2>2. PICK x : judged' = Append(judged, x)
    BY <1>2 DEF Judges
  <2>3. judged' \in Seq(J \cup {x})
    BY <2>1, <2>2
  <2>4. QED
    BY <2>3
<1>9. robust'.used \subseteq HoldoutSeal /\ savedRobust' = savedRobust
  <2> HIDE DEF own
  <2>1. QED
    BY <1>2, <1>3, <1>6 DEF RobustnessInvariant, Judges
<1>10. QED
  BY <1>5, <1>7, <1>8, <1>9 DEF RobustnessInvariant
\* The recovery state is saved.
LEMMA SaveRobustnessPreserves ==
  ASSUME RobustnessInvariant, SaveRobustness
  PROVE  RobustnessInvariant'
<1>1. savedRobust' = [robust EXCEPT !.used = {}] /\ robust' = robust /\ judged' = judged
  BY DEF SaveRobustness
<1>2. SoundRobust(savedRobust')
  BY <1>1, UsedFacts DEF RobustnessInvariant
<1>3. \E used : SoundJudgements(used)'
  <2>1. robust.seals \in Seq([id : HoldoutSeal])
    BY DEF RobustnessInvariant, SoundRobust
  <2>2. Continues(robust'.seals, robust.seals)
    BY <1>1, <2>1 DEF Continues
  <2>3. QED
    BY <1>1, <2>1, <2>2, JudgementsKept
<1>4. QED
  BY <1>1, <1>2, <1>3 DEF RobustnessInvariant

\* It is restored, in this process or in a new one.
LEMMA RestoreRobustnessPreserves ==
  ASSUME RobustnessInvariant, NEW renewed \in BOOLEAN, RestoreRobustness(renewed)
  PROVE  RobustnessInvariant'
<1> DEFINE u == IF renewed THEN {} ELSE robust.used
<1>1. /\ robust' = [savedRobust EXCEPT !.used = u] /\ judged' = <<>> /\ savedRobust' = savedRobust
      /\ savedRobust # None
  BY DEF RestoreRobustness
<1>2. u \subseteq HoldoutSeal
  BY DEF RobustnessInvariant
<1> HIDE DEF u
<1>3. SoundRobust(robust') /\ robust'.used = u
  BY <1>1, UsedFacts DEF RobustnessInvariant
<1>4. judged' \in Seq({}) /\ Len(judged') = 0
  BY <1>1
<1>5. SoundJudgements(<<>>)'
  <2>1. << >> \in Seq(SUBSET HoldoutSeal) /\ Len(<< >>) = 0
    OBVIOUS
  <2>2. 1..0 = {}
    OBVIOUS
  <2>3. QED
    BY <1>4, <2>1, <2>2 DEF SoundJudgements
<1>6. (\E J : judged' \in Seq(J)) /\ \E used : SoundJudgements(used)'
  BY <1>4, <1>5
<1>7. QED
  BY <1>1, <1>2, <1>3, <1>6 DEF RobustnessInvariant

\* The invariant holds from the start, and every call keeps it.
LEMMA RobustnessStep ==
  /\ RobustnessInit => RobustnessInvariant
  /\ RobustnessInvariant /\ [RobustnessNext]_robustnessVars => RobustnessInvariant'
<1>1. ASSUME RobustnessInit PROVE RobustnessInvariant
  <2>1. /\ robust.plans = {} /\ robust.observations = {} /\ robust.seals = <<>> /\ robust.profiles = {}
        /\ robust.results = <<>> /\ robust.used = {} /\ RobustFields(robust)
        /\ savedRobust = None /\ judged = <<>>
    BY <1>1 DEF RobustnessInit, FreshRobustness, RobustFields
  <2>2. SoundRobust(robust)
    <3>1. robust.seals \in Seq([id : HoldoutSeal]) /\ robust.results \in Seq({})
      BY <2>1
    <3>2. \E S : robust.results \in Seq(S) /\ \A r \in S : SoundResult(robust, r)
      BY <3>1
    <3>3. QED
      BY <2>1, <3>1, <3>2 DEF SoundRobust, SoundPlans
  <2>3. judged \in Seq({}) /\ Len(judged) = 0
    BY <2>1
  <2>4. SoundJudgements(<<>>)
    <3>1. << >> \in Seq(SUBSET HoldoutSeal) /\ Len(<< >>) = 0
      OBVIOUS
    <3>2. 1..0 = {}
      OBVIOUS
    <3>3. QED
      BY <2>3, <3>1, <3>2 DEF SoundJudgements
  <2>5. (\E J : judged \in Seq(J)) /\ \E used : SoundJudgements(used)
    BY <2>3, <2>4
  <2>6. QED
    BY <2>1, <2>2, <2>5 DEF RobustnessInvariant
<1>2. ASSUME RobustnessInvariant, [RobustnessNext]_robustnessVars PROVE RobustnessInvariant'
  <2>1. ASSUME NEW p \in RobustnessPlans, NEW offered \in Measured, RegisterPlan(p, offered)
        PROVE  RobustnessInvariant'
    BY <1>2, <2>1, RegisterPlanPreserves
  <2>2. ASSUME NEW p \in robust.plans, NEW period \in HoldoutPeriods, NEW at \in SealTimes,
               SealHoldout(p, period, at)
        PROVE  RobustnessInvariant'
    BY <1>2, <2>2, SealPreserves
  <2>3. ASSUME NEW p \in robust.plans, NEW at \in JudgingTimes, JudgePlan(p, at)
        PROVE  RobustnessInvariant'
    BY <1>2, <2>3, JudgePreserves
  <2>4. CASE SaveRobustness
    BY <1>2, <2>4, SaveRobustnessPreserves
  <2>5. ASSUME NEW renewed \in BOOLEAN, RestoreRobustness(renewed)
        PROVE  RobustnessInvariant'
    BY <1>2, <2>5, RestoreRobustnessPreserves
  <2>6. CASE UNCHANGED robustnessVars
    BY <1>2, <2>6 DEF robustnessVars, RobustnessInvariant, SoundJudgements
  <2>7. QED
    BY <1>2, <2>1, <2>2, <2>3, <2>4, <2>5, <2>6 DEF RobustnessNext
<1>3. QED
  BY <1>1, <1>2

\* A window is validated after it was developed, whatever the plan.
LEMMA DevelopedFirst ==
  ASSUME NEW p \in RobustnessPlans, p.embargo >= 0, NEW n \in DOMAIN Windows[p]
  PROVE  Windows[p][n].developed[2] <= Windows[p][n].validated[1]
<1> DEFINE cursor == p.start + (n - 1) * p.step
<1>1. Windows[p][n] = ValidationWindow(p, n) /\ n \in Int
  BY DEF Windows
<1>2. /\ ValidationWindow(p, n).developed[2] = cursor + p.development
      /\ ValidationWindow(p, n).validated[1] = cursor + p.development + p.embargo
  BY DEF ValidationWindow
<1>3. p.start \in Int /\ p.step \in Int /\ p.development \in Int /\ p.embargo \in Int
  BY RobustnessAssumption, EvidenceAssumption DEF RobustnessValidationPlan, Time
<1>4. cursor \in Int
  BY <1>1, <1>3
<1> HIDE DEF cursor
<1>5. QED
  BY <1>1, <1>2, <1>3, <1>4

\* Holdouts are spent once.
LEMMA HoldoutsSound == RobustnessInvariant => HoldoutsSpentOnce
<1> SUFFICES ASSUME RobustnessInvariant PROVE HoldoutsSpentOnce
  OBVIOUS
<1>1. SoundRobust(robust)
  BY DEF RobustnessInvariant
<1>2. RobustnessTypeOK
  <2>1. \A i \in DOMAIN robust.seals : robust.seals[i].id \in HoldoutSeal
    <3>1. robust.seals \in Seq([id : HoldoutSeal])
      BY <1>1 DEF SoundRobust
    <3>2. \A i \in 1..Len(robust.seals) : robust.seals[i] \in [id : HoldoutSeal]
      BY <3>1, ElementOfSeq
    <3>3. DOMAIN robust.seals = 1..Len(robust.seals)
      BY <3>1
    <3>4. QED
      BY <3>2, <3>3
  <2>2. QED
    BY <1>1, <2>1 DEF RobustnessTypeOK, SoundRobust, SoundPlans
<1>3. ASSUME NEW i \in DOMAIN judged, NEW j \in DOMAIN judged, i < j,
             judged[i].profile.plan = judged[j].profile.plan, judged[i].windows # {}
      PROVE  LET a == judged[i]
                 b == judged[j]
             IN /\ "CLEAN" \notin {a.profile.contamination} \cap {b.profile.contamination}
                /\ a.profile.classification = "CONTAMINATED" => b.profile.classification = "CONTAMINATED"
                /\ a.seals = b.seals =>
                     ContaminationRank[a.profile.contamination] <= ContaminationRank[b.profile.contamination]
  BY <1>3, JudgedTwice
<1>4. \A i \in DOMAIN robust.results : SoundResult(robust, robust.results[i])
  BY <1>1 DEF SoundRobust
<1>5. ASSUME NEW p \in robust.plans PROVE PlanReconciles(robust, p)
  <2>1. \A n \in DOMAIN Windows[p] : Windows[p][n].developed[2] <= Windows[p][n].validated[1]
    BY <1>1, DevelopedFirst DEF SoundRobust, SoundPlans
  <2>2. QED
    BY <1>4, <2>1 DEF PlanReconciles, SoundResult
<1>6. QED
  BY <1>2, <1>3, <1>4, <1>5 DEF HoldoutsSpentOnce, SoundResult

\* Validation as a whole, of the two engines side by side: what a manifest of an
\* experiment says is found again, a plan is never judged clean twice, and no later
\* judgement is better than an earlier one of the same seals.
THEOREM ValidationIsSound == ExperimentSpec /\ RobustnessSpec => []ValidationHolds
<1>1. ExperimentSpec => []ExperimentInvariant
  BY ExperimentStep, PTL DEF ExperimentSpec
<1>2. RobustnessSpec => []RobustnessInvariant
  BY RobustnessStep, PTL DEF RobustnessSpec
<1>3. ExperimentInvariant /\ RobustnessInvariant => ValidationHolds
  BY ReplaySound, HoldoutsSound DEF ValidationHolds
<1>4. QED
  BY <1>1, <1>2, <1>3, PTL

-----------------------------------------------------------------------------
(* Structure: what was confirmed is not taken back.                        *)

\* A series that continues another.
Prolongs(bars, more) ==
  /\ bars \in Seq(StructuralBar) /\ more \in Seq(StructuralBar) /\ Len(bars) <= Len(more)
  /\ \A i \in 1..Len(bars) : more[i] = bars[i]

\* All bars to the right of a swing have closed.
Closed(bars, s) == s.bar + RightBars <= Len(bars)

\* The swings that FIRST and CLUSTER leave of what is found.
KeptOf(found) ==
  {s \in found : TiePolicy = "FIRST" => ~\E t \in found : OnePlateau(found, t, s)}

\* A swing is one at its bar.
LEMMA SwingFacts ==
  ASSUME NEW bars \in Seq(StructuralBar), NEW k \in 1..Len(bars), NEW s \in SwingsAt(bars, k)
  PROVE  /\ s.bar = k /\ s.type \in {"HIGH", "LOW"} /\ s.confirmed = ConfirmedAt(bars, k)
         /\ s = [bar |-> k, type |-> s.type, price |-> s.price, confirmed |-> s.confirmed]
<1> DEFINE swing(type, price) ==
             [bar |-> k, type |-> type, price |-> price, confirmed |-> ConfirmedAt(bars, k)]
<1>1. s \in {swing("HIGH", bars[k].high), swing("LOW", bars[k].low)}
  BY DEF SwingsAt
<1>2. QED
  BY <1>1

LEMMA FoundFacts ==
  ASSUME NEW bars \in Seq(StructuralBar), NEW s
  PROVE  s \in SwingsFound(bars) <=> s.bar \in 1..Len(bars) /\ s \in SwingsAt(bars, s.bar)
<1>1. DOMAIN bars = 1..Len(bars)
  OBVIOUS
<1>2. ASSUME s \in SwingsFound(bars)
      PROVE  s.bar \in 1..Len(bars) /\ s \in SwingsAt(bars, s.bar)
  <2>1. PICK k \in 1..Len(bars) : s \in SwingsAt(bars, k)
    BY <1>1, <1>2 DEF SwingsFound
  <2>2. s.bar = k
    BY <2>1, SwingFacts
  <2>3. QED
    BY <2>1, <2>2
<1>3. ASSUME s.bar \in 1..Len(bars), s \in SwingsAt(bars, s.bar)
      PROVE  s \in SwingsFound(bars)
  BY <1>1, <1>3 DEF SwingsFound
<1>4. QED
  BY <1>2, <1>3

\* What is found at a bar does not change once the bars to its right have closed.
LEMMA SettledAt ==
  ASSUME NEW bars, NEW more, Prolongs(bars, more), NEW k \in 1..Len(bars),
         k + RightBars <= Len(bars)
  PROVE  SwingsAt(bars, k) = SwingsAt(more, k)
<1> DEFINE around(b) == {i \in (k - LeftBars)..(k + RightBars) : i \in DOMAIN b}
           high(b) == \A i \in around(b) : b[k].high >= b[i].high
           low(b) == \A i \in around(b) : b[k].low <= b[i].low
<1>1. /\ DOMAIN bars = 1..Len(bars) /\ DOMAIN more = 1..Len(more) /\ Len(bars) \in Nat
      /\ Len(more) \in Nat /\ Len(bars) <= Len(more) /\ \A i \in 1..Len(bars) : more[i] = bars[i]
      /\ LeftBars \in Nat \ {0} /\ RightBars \in Nat \ {0}
  BY StructureAssumption DEF Prolongs, StructureConfiguration
<1>2. around(bars) = around(more) /\ \A i \in around(bars) : more[i] = bars[i]
  BY <1>1
<1>3. more[k] = bars[k] /\ ConfirmedAt(bars, k) = k + RightBars /\ ConfirmedAt(more, k) = k + RightBars
  <2>1. k + RightBars <= Len(more)
    BY <1>1
  <2>2. QED
    BY <1>1, <2>1 DEF ConfirmedAt
<1>4. (high(bars) <=> high(more)) /\ (low(bars) <=> low(more))
  <2> HIDE DEF around
  <2>1. QED
    BY <1>2, <1>3
<1> DEFINE swing(b, type, price) ==
             [bar |-> k, type |-> type, price |-> price, confirmed |-> ConfirmedAt(b, k)]
           tops(b) == IF high(b) THEN {swing(b, "HIGH", b[k].high)} ELSE {}
           floors(b) == IF low(b) THEN {swing(b, "LOW", b[k].low)} ELSE {}
           none(b) == k <= LeftBars \/ (high(b) /\ low(b) /\ TiePolicy = "REJECT_AMBIGUOUS")
<1>5. SwingsAt(bars, k) = IF none(bars) THEN {} ELSE tops(bars) \cup floors(bars)
  BY DEF SwingsAt
<1>6. SwingsAt(more, k) = IF none(more) THEN {} ELSE tops(more) \cup floors(more)
  BY DEF SwingsAt
<1> HIDE DEF high, low, around
<1>7. none(bars) <=> none(more)
  BY <1>4
<1>8. tops(bars) = tops(more) /\ floors(bars) = floors(more)
  BY <1>3, <1>4
<1> HIDE DEF none, tops, floors
<1>9. QED
  BY <1>5, <1>6, <1>7, <1>8

\* The swings that are found, and whose bars to the right have closed, stay.
LEMMA SettledStay ==
  ASSUME NEW bars, NEW more, Prolongs(bars, more), NEW s, Closed(bars, s)
  PROVE  s \in SwingsFound(bars) <=> s \in SwingsFound(more)
<1>1. /\ bars \in Seq(StructuralBar) /\ more \in Seq(StructuralBar) /\ RightBars \in Nat
      /\ Len(bars) \in Nat /\ Len(more) \in Nat /\ Len(bars) <= Len(more)
  <2>1. bars \in Seq(StructuralBar) /\ more \in Seq(StructuralBar) /\ Len(bars) <= Len(more)
    BY DEF Prolongs
  <2>2. RightBars \in Nat
    BY StructureAssumption DEF StructureConfiguration
  <2>3. QED
    BY <2>1, <2>2
<1>2. s \in SwingsFound(bars) <=> s.bar \in 1..Len(bars) /\ s \in SwingsAt(bars, s.bar)
  BY <1>1, FoundFacts
<1>3. s \in SwingsFound(more) <=> s.bar \in 1..Len(more) /\ s \in SwingsAt(more, s.bar)
  BY <1>1, FoundFacts
<1>4. s.bar \in 1..Len(bars) => SwingsAt(bars, s.bar) = SwingsAt(more, s.bar)
  BY SettledAt DEF Closed
<1>5. s.bar \in 1..Len(more) => s.bar \in 1..Len(bars)
  BY <1>1 DEF Closed
<1>6. s.bar \in 1..Len(bars) => s.bar \in 1..Len(more)
  BY <1>1
<1>7. QED
  BY <1>2, <1>3, <1>4, <1>5, <1>6

\* A swing that is confirmed is one whose bars to the right have closed.
LEMMA ConfirmedClosed ==
  ASSUME NEW bars \in Seq(StructuralBar), NEW s \in SwingsFound(bars), s.confirmed # None
  PROVE  Closed(bars, s) /\ s.confirmed = s.bar + RightBars
<1>1. s.bar \in 1..Len(bars) /\ s \in SwingsAt(bars, s.bar)
  BY FoundFacts
<1>2. s.confirmed = ConfirmedAt(bars, s.bar)
  BY <1>1, SwingFacts
<1>3. QED
  BY <1>2 DEF ConfirmedAt, Closed

\* What comes before a swing whose bars to the right have closed is of the same kind.
LEMMA BeforeClosed ==
  ASSUME NEW bars \in Seq(StructuralBar), NEW s, NEW t, Before(t, s), Closed(bars, s),
         s.bar \in Nat, t.bar \in Nat
  PROVE  Closed(bars, t)
<1>1. RightBars \in Nat /\ Len(bars) \in Nat
  BY StructureAssumption DEF StructureConfiguration
<1>2. QED
  BY <1>1 DEF Before, Closed

\* Such swings are kept in the longer series when they are in the shorter one.
LEMMA KeptStay ==
  ASSUME NEW bars, NEW more, Prolongs(bars, more), NEW s, Closed(bars, s)
  PROVE  s \in KeptOf(SwingsFound(bars)) <=> s \in KeptOf(SwingsFound(more))
<1> DEFINE a == SwingsFound(bars)
           b == SwingsFound(more)
<1>1. bars \in Seq(StructuralBar) /\ more \in Seq(StructuralBar)
  BY DEF Prolongs
<1>2. \A t : (t \in a \/ t \in b) => t.bar \in Nat
  BY <1>1, FoundFacts
<1>3. \A t : Closed(bars, t) => (t \in a <=> t \in b)
  BY SettledStay
<1>4. ASSUME s \in a PROVE \A t : (t \in a /\ OnePlateau(a, t, s)) <=> (t \in b /\ OnePlateau(b, t, s))
  <2>1. SUFFICES ASSUME NEW t, t \in a \/ t \in b, Before(t, s)
                 PROVE  t \in a /\ t \in b /\ (OnePlateau(a, t, s) <=> OnePlateau(b, t, s))
    BY <1>4 DEF OnePlateau
  <2>2. Closed(bars, t)
    BY <1>1, <1>2, <1>4, <2>1, BeforeClosed
  <2>3. t \in a /\ t \in b
    BY <1>3, <2>1, <2>2
  <2>4. \A u : Before(u, s) => (u \in a <=> u \in b)
    <3>1. SUFFICES ASSUME NEW u, Before(u, s), u \in a \/ u \in b PROVE u \in a /\ u \in b
      OBVIOUS
    <3>2. Closed(bars, u)
      BY <1>1, <1>2, <1>4, <3>1, BeforeClosed
    <3>3. QED
      BY <1>3, <3>1, <3>2
  <2> HIDE DEF a, b
  <2>5. QED
    BY <2>3, <2>4 DEF OnePlateau
<1>5. s \in a <=> s \in b
  BY <1>3
<1> HIDE DEF a, b
<1>6. ASSUME s \in a PROVE s \in KeptOf(a) <=> s \in KeptOf(b)
  <2>1. (\E t \in a : OnePlateau(a, t, s)) <=> \E t \in b : OnePlateau(b, t, s)
    BY <1>4, <1>6
  <2>2. s \in KeptOf(a) <=> s \in a /\ (TiePolicy = "FIRST" => ~\E t \in a : OnePlateau(a, t, s))
    BY Zenon DEF KeptOf
  <2>3. s \in KeptOf(b) <=> s \in b /\ (TiePolicy = "FIRST" => ~\E t \in b : OnePlateau(b, t, s))
    BY Zenon DEF KeptOf
  <2>4. QED
    BY <1>5, <1>6, <2>1, <2>2, <2>3, Zenon
<1>7. ASSUME s \notin a PROVE s \in KeptOf(a) <=> s \in KeptOf(b)
  BY <1>5, <1>7 DEF KeptOf
<1>8. QED
  BY <1>6, <1>7 DEF a, b

\* Where swings come in their order, as a number.
Place(s) == 2 * s.bar + (IF s.type = "HIGH" THEN 0 ELSE 1)

\* When fewer than n are among the last n of some swings, these are all.
LEMMA RecentAll ==
  ASSUME NEW m \in Nat, NEW S, IsFiniteSet(S), \A s \in S : s.bar \in 1..m,
         NEW n \in Nat, Cardinality(Recent(S, n)) < n
  PROVE  Recent(S, n) = S
<1> DEFINE R == Recent(S, n)
           D == S \ R
           later(s) == {t \in S : Before(s, t)}
           places == {Place(s) : s \in D}
<1>1. R \subseteq S /\ \A s \in S : s \in R <=> Cardinality(later(s)) < n
  BY DEF Recent
<1>2. SUFFICES ASSUME D # {} PROVE FALSE
  BY <1>1
<1>3. \A s \in S : Place(s) \in 0..(2 * m + 1)
  BY DEF Place
<1>4. places \in SUBSET (0..(2 * m + 1)) /\ places # {}
  BY <1>2, <1>3
<1>5. Max(places) \in places /\ \A p \in places : p <= Max(places)
  <2>1. 2 * m + 1 \in Nat
    OBVIOUS
  <2> HIDE DEF places
  <2>2. QED
    BY <1>4, <2>1, GreatestOf
<1>6. PICK d \in D : Place(d) = Max(places)
  BY <1>5
<1>7. \A t \in later(d) : t \in R
  <2>1. SUFFICES ASSUME NEW t \in S, Before(d, t), t \notin R PROVE FALSE
    OBVIOUS
  <2>2. Place(t) \in places
    BY <2>1
  <2>3. Place(t) <= Place(d)
    BY <1>5, <1>6, <2>2
  <2>4. Place(d) < Place(t)
    BY <2>1, <1>1 DEF Before, Place
  <2>5. d \in S
    BY <1>6
  <2>6. Place(d) \in Int /\ Place(t) \in Int
    BY <1>3, <2>1, <2>5
  <2>7. QED
    BY <2>3, <2>4, <2>6
<1>8. IsFiniteSet(R) /\ Cardinality(R) \in Nat
  BY <1>1, FS_Subset, FS_CardinalityType
<1>9. Cardinality(later(d)) \in Nat /\ Cardinality(later(d)) <= Cardinality(R)
  <2>1. later(d) \in SUBSET R
    BY <1>7
  <2> HIDE DEF later, R
  <2>2. IsFiniteSet(later(d)) /\ Cardinality(later(d)) <= Cardinality(R)
    BY <1>8, <2>1, FS_Subset
  <2>3. QED
    BY <2>2, FS_CardinalityType
<1>10. Cardinality(later(d)) < n
  <2> HIDE DEF later
  <2>1. QED
    BY <1>8, <1>9
<1>11. d \in R
  BY <1>1, <1>6, <1>10
<1>12. QED
  BY <1>6, <1>11

\* What is found is finite.
LEMMA FoundFinite ==
  ASSUME NEW bars \in Seq(StructuralBar)
  PROVE  IsFiniteSet(SwingsFound(bars))
<1> DEFINE at == [k \in 1..Len(bars) |-> SwingsAt(bars, k)]
<1>1. DOMAIN bars = 1..Len(bars) /\ Len(bars) \in Nat
  OBVIOUS
<1>2. IsFiniteSet(1..Len(bars))
  <2>1. 1 \in Int /\ Len(bars) \in Int
    BY <1>1
  <2>2. QED
    BY <2>1, FS_Interval
<1>3. IsFiniteSet({at[k] : k \in 1..Len(bars)})
  <2> DEFINE T == {at[k] : k \in 1..Len(bars)}
  <2>1. at \in Surjection(1..Len(bars), T)
    BY DEF Surjection
  <2> HIDE DEF T, at
  <2>2. QED
    BY <1>2, <2>1, FS_Surjection DEF T
<1>4. \A k \in 1..Len(bars) : IsFiniteSet(at[k])
  <2>1. SUFFICES ASSUME NEW k \in 1..Len(bars) PROVE IsFiniteSet(SwingsAt(bars, k))
    OBVIOUS
  <2> DEFINE swing(type, price) ==
               [bar |-> k, type |-> type, price |-> price, confirmed |-> ConfirmedAt(bars, k)]
             top == swing("HIGH", bars[k].high)
             floor == swing("LOW", bars[k].low)
  <2>2. SwingsAt(bars, k) \in SUBSET ({top} \cup {floor})
    BY DEF SwingsAt
  <2> HIDE DEF top, floor
  <2>3. IsFiniteSet({top}) /\ IsFiniteSet({floor})
    BY FS_Singleton
  <2>4. IsFiniteSet({top} \cup {floor})
    BY <2>3, FS_Union
  <2>5. QED
    BY <2>2, <2>4, FS_Subset
<1>5. SwingsFound(bars) = UNION {at[k] : k \in 1..Len(bars)}
  BY <1>1 DEF SwingsFound
<1> HIDE DEF at
<1>6. \A T \in {at[k] : k \in 1..Len(bars)} : IsFiniteSet(T)
  BY <1>4
<1>7. QED
  BY <1>3, <1>5, <1>6, FS_UNION

\* The swings of a series are finitely many, whatever the tie policy keeps.
LEMMA SwingsFinite ==
  ASSUME NEW bars \in Seq(StructuralBar)
  PROVE  IsFiniteSet(SwingCandidates(bars)) /\ IsFiniteSet(Swings(bars))
<1> DEFINE found == SwingsFound(bars)
           c == SwingCandidates(bars)
           made == Classified(c)
<1>1. c \in SUBSET found
  <2>1. c = Thinned(found)
    BY DEF SwingCandidates
  <2> HIDE DEF c, found
  <2>2. QED
    BY <2>1 DEF Thinned, Recent
<1>2. IsFiniteSet(c)
  <2> HIDE DEF c, found
  <2>1. QED
    BY <1>1, FoundFinite, FS_Subset DEF found
<1>3. IsFiniteSet(made)
  <2> DEFINE f == [s \in c |-> [bar |-> s.bar, type |-> s.type, price |-> s.price,
                                confirmed |-> s.confirmed, class |-> ClassOf(c, s)]]
  <2>1. f \in Surjection(c, made)
    BY DEF Surjection, Classified
  <2> HIDE DEF f, c, made
  <2>2. QED
    BY <1>2, <2>1, FS_Surjection
<1>4. QED
  BY <1>2, <1>3 DEF Swings

\* As long as fewer swings are found than are kept, none is left out.
LEMMA CandidatesAll ==
  ASSUME NEW bars \in Seq(StructuralBar), TiePolicy \in {"FIRST", "CLUSTER"},
         Cardinality(Swings(bars)) < MaxSwings
  PROVE  SwingCandidates(bars) = KeptOf(SwingsFound(bars))
<1> DEFINE found == SwingsFound(bars)
           c == SwingCandidates(bars)
           kept == KeptOf(found)
<1>1. c = Recent(kept, MaxSwings)
  <2>1. SwingCandidates(bars) = Thinned(found)
    BY DEF SwingCandidates
  <2> HIDE DEF found, c
  <2>2. CASE TiePolicy = "FIRST"
    BY <2>1, <2>2 DEF Thinned, KeptOf, c
  <2>3. CASE TiePolicy = "CLUSTER"
    BY <2>1, <2>3 DEF Thinned, KeptOf, c
  <2>4. QED
    BY <2>2, <2>3
<1>2. kept \in SUBSET found /\ c \in SUBSET kept /\ \A s \in kept : s.bar \in 1..Len(bars)
  <2>1. kept \in SUBSET found
    BY DEF KeptOf
  <2>2. c \in SUBSET kept
    BY <1>1 DEF Recent
  <2>3. QED
    BY <2>1, <2>2, FoundFacts
<1>3. IsFiniteSet(kept) /\ IsFiniteSet(c) /\ Cardinality(c) \in Nat
  <2> HIDE DEF kept, c, found
  <2>1. IsFiniteSet(kept)
    BY <1>2, FoundFinite, FS_Subset DEF found
  <2>2. QED
    BY <1>2, <2>1, FS_Subset, FS_CardinalityType
<1> DEFINE seen(s) == [bar |-> s.bar, type |-> s.type, price |-> s.price, confirmed |-> s.confirmed,
                       class |-> ClassOf(c, s)]
           made == {seen(s) : s \in c}
<1>4. Swings(bars) = made
  BY DEF Swings, Classified
<1>5. IsFiniteSet(made) /\ Cardinality(made) \in Nat
  BY <1>4, SwingsFinite, FS_CardinalityType
<1>6. Cardinality(c) <= Cardinality(made)
  <2> DEFINE g == [x \in made |-> [bar |-> x.bar, type |-> x.type, price |-> x.price,
                                   confirmed |-> x.confirmed]]
  <2>1. \A s \in c : s = [bar |-> s.bar, type |-> s.type, price |-> s.price, confirmed |-> s.confirmed]
    <3>1. SUFFICES ASSUME NEW s \in c
                   PROVE  s = [bar |-> s.bar, type |-> s.type, price |-> s.price,
                               confirmed |-> s.confirmed]
      OBVIOUS
    <3>2. s.bar \in 1..Len(bars) /\ s \in SwingsAt(bars, s.bar)
      BY <1>2, FoundFacts
    <3>3. QED
      BY <3>2, SwingFacts
  <2> HIDE DEF c
  <2>2. \A s \in c : seen(s) \in made /\ g[seen(s)] = s
    BY <2>1
  <2>3. \A x \in made : g[x] \in c
    BY <2>2
  <2>4. g \in Surjection(made, c)
    <3>1. g \in [made -> c]
      BY <2>3
    <3>2. \A s \in c : \E x \in made : g[x] = s
      BY <2>2
    <3> HIDE DEF g, made
    <3>3. QED
      BY <3>1, <3>2 DEF Surjection
  <2> HIDE DEF g, made
  <2>5. QED
    BY <1>5, <2>4, FS_Surjection
<1>7. Cardinality(c) < MaxSwings /\ MaxSwings \in Nat
  <2>1. MaxSwings \in Nat /\ Cardinality(made) < MaxSwings
    BY <1>4, StructureAssumption DEF StructureConfiguration
  <2> HIDE DEF made, c
  <2>2. QED
    BY <1>3, <1>5, <1>6, <2>1
<1> HIDE DEF c, kept, found
<1>8. c = kept
  <2>1. Len(bars) \in Nat
    OBVIOUS
  <2>2. QED
    BY <1>1, <1>2, <1>3, <1>7, <2>1, RecentAll
<1>9. QED
  BY <1>8 DEF c, kept, found

\* A swing of a series that is not full is a swing of every longer one that is not.
LEMMA SwingsStay ==
  ASSUME NEW bars, NEW more, Prolongs(bars, more), TiePolicy \in {"FIRST", "CLUSTER"},
         Cardinality(Swings(bars)) < MaxSwings, Cardinality(Swings(more)) < MaxSwings
  PROVE  ConfirmedSwings(Swings(bars)) \subseteq ConfirmedSwings(Swings(more))
<1> DEFINE a == SwingCandidates(bars)
           b == SwingCandidates(more)
           seen(c, s) == [bar |-> s.bar, type |-> s.type, price |-> s.price,
                          confirmed |-> s.confirmed, class |-> ClassOf(c, s)]
<1>1. bars \in Seq(StructuralBar) /\ more \in Seq(StructuralBar)
  BY DEF Prolongs
<1>2. a = KeptOf(SwingsFound(bars)) /\ b = KeptOf(SwingsFound(more))
  BY <1>1, CandidatesAll
<1>3. \A s : Closed(bars, s) => (s \in a <=> s \in b)
  BY <1>2, KeptStay
<1>4. \A s \in a : s.bar \in Nat /\ (s.confirmed # None => Closed(bars, s))
  <2>1. SUFFICES ASSUME NEW s \in a PROVE s.bar \in Nat /\ (s.confirmed # None => Closed(bars, s))
    OBVIOUS
  <2>2. s \in SwingsFound(bars)
    BY <1>2 DEF KeptOf
  <2>3. QED
    BY <1>1, <2>2, FoundFacts, ConfirmedClosed
<1>5. \A s \in b : s.bar \in Nat
  <2>1. \A s \in b : s \in SwingsFound(more)
    BY <1>2 DEF KeptOf
  <2>2. QED
    BY <1>1, <2>1, FoundFacts
<1>6. Swings(bars) = {seen(a, s) : s \in a} /\ Swings(more) = {seen(b, s) : s \in b}
  BY DEF Swings, Classified
<1>7. ASSUME NEW s \in a, s.confirmed # None
      PROVE  ClassOf(a, s) = ClassOf(b, s)
  <2> DEFINE before(c) == {t \in ConfirmedSwings(c) : t.type = s.type /\ t.bar < s.bar}
             prior(e) == CHOOSE t \in e : \A u \in e : u.bar <= t.bar
             verdict(e) == CASE e = {} -> "UNCLASSIFIED"
                             [] Equals(s.price, prior(e).price) -> "EQUAL"
                             [] s.price > prior(e).price -> "HIGHER"
                             [] OTHER -> "LOWER"
  <2>1. Closed(bars, s) /\ s.bar \in Nat
    BY <1>4, <1>7
  <2>2. \A t \in a \cup b : t.bar < s.bar => Closed(bars, t)
    <3>1. Len(bars) \in Nat /\ RightBars \in Nat
      BY <1>1, StructureAssumption DEF StructureConfiguration
    <3>2. QED
      BY <1>4, <1>5, <2>1, <3>1 DEF Closed
  <2>3. before(a) = before(b)
    <3>1. \A t : t.bar < s.bar => (t \in a <=> t \in b)
      BY <1>3, <2>2
    <3> HIDE DEF a, b
    <3>2. QED
      BY <3>1 DEF ConfirmedSwings
  <2>4. ClassOf(a, s) = verdict(before(a)) /\ ClassOf(b, s) = verdict(before(b))
    <3> HIDE DEF a, b
    <3>1. QED
      BY Zenon DEF ClassOf
  <2> HIDE DEF verdict, before
  <2>5. QED
    BY <2>3, <2>4
<1> HIDE DEF a, b
<1>8. SUFFICES ASSUME NEW x \in ConfirmedSwings(Swings(bars))
               PROVE  x \in ConfirmedSwings(Swings(more))
  OBVIOUS
<1>9. PICK s \in a : x = seen(a, s)
  BY <1>6 DEF ConfirmedSwings
<1>10. s.confirmed # None /\ x.confirmed # None
  BY <1>9 DEF ConfirmedSwings
<1>11. s \in b /\ x = seen(b, s)
  BY <1>3, <1>4, <1>7, <1>9, <1>10
<1>12. QED
  BY <1>6, <1>10, <1>11 DEF ConfirmedSwings

\* The bars at which a swing has been broken for as long as is asked for.
BrokenAt(bars, swing) ==
  LET needed == IF BreakConfirmation = "MULTI_CLOSE_CONFIRMATION" THEN ConfirmationBars ELSE 1
  IN {i \in DOMAIN bars : /\ i - needed >= swing.confirmed
                          /\ \A j \in (i - needed + 1)..i : Penetrates(bars[j], swing)}

\* A break is the first such bar, after the swing was confirmed.
LEMMA BreakFacts ==
  ASSUME NEW bars \in Seq(StructuralBar), NEW s, s.confirmed \in Nat, NEW b \in BreaksOf(bars, s)
  PROVE  /\ BrokenAt(bars, s) # {} /\ BrokenAt(bars, s) \subseteq 1..Len(bars)
         /\ b = [swing |-> s.bar, bar |-> Min(BrokenAt(bars, s)),
                 direction |-> IF s.type = "HIGH" THEN "BULLISH" ELSE "BEARISH"]
         /\ b.bar \in BrokenAt(bars, s) /\ s.confirmed < b.bar
<1> DEFINE at == BrokenAt(bars, s)
           needed == IF BreakConfirmation = "MULTI_CLOSE_CONFIRMATION" THEN ConfirmationBars ELSE 1
<1>1. DOMAIN bars = 1..Len(bars) /\ Len(bars) \in Nat /\ needed \in Nat \ {0}
  BY StructureAssumption DEF StructureConfiguration
<1>2. at \subseteq 1..Len(bars) /\ \A i \in at : i - needed >= s.confirmed
  BY <1>1 DEF BrokenAt
<1>3. at # {} /\ b = [swing |-> s.bar, bar |-> Min(at),
                      direction |-> IF s.type = "HIGH" THEN "BULLISH" ELSE "BEARISH"]
  BY DEF BreaksOf, BrokenAt
<1>4. Min(at) \in at
  <2>1. at \in SUBSET Nat
    BY <1>2
  <2> HIDE DEF at
  <2>2. QED
    BY <1>3, <2>1, LeastOf
<1> HIDE DEF at, needed
<1>5. b.bar \in at
  BY <1>3, <1>4
<1>6. b.bar \in Nat /\ b.bar - needed >= s.confirmed
  <2>1. b.bar \in 1..Len(bars) /\ b.bar - needed >= s.confirmed
    BY <1>2, <1>5
  <2>2. QED
    BY <1>1, <2>1
<1>7. s.confirmed < b.bar
  BY <1>1, <1>6
<1>8. QED
  BY <1>2, <1>3, <1>5, <1>7 DEF at

\* A break of a series is one of every longer one.
LEMMA BreakStays ==
  ASSUME NEW bars, NEW more, Prolongs(bars, more), NEW s, s.confirmed \in Nat
  PROVE  BreaksOf(bars, s) \subseteq BreaksOf(more, s)
<1> DEFINE a == BrokenAt(bars, s)
           b == BrokenAt(more, s)
           needed == IF BreakConfirmation = "MULTI_CLOSE_CONFIRMATION" THEN ConfirmationBars ELSE 1
<1>1. /\ bars \in Seq(StructuralBar) /\ more \in Seq(StructuralBar)
      /\ DOMAIN bars = 1..Len(bars) /\ DOMAIN more = 1..Len(more) /\ Len(bars) \in Nat
      /\ Len(more) \in Nat /\ Len(bars) <= Len(more) /\ needed \in Nat \ {0}
      /\ \A i \in 1..Len(bars) : more[i] = bars[i]
  <2>1. /\ bars \in Seq(StructuralBar) /\ more \in Seq(StructuralBar) /\ Len(bars) <= Len(more)
        /\ \A i \in 1..Len(bars) : more[i] = bars[i]
    BY DEF Prolongs
  <2>2. needed \in Nat \ {0}
    BY StructureAssumption DEF StructureConfiguration
  <2> HIDE DEF needed
  <2>3. QED
    BY <2>1, <2>2
<1>2. SUFFICES ASSUME NEW x \in BreaksOf(bars, s) PROVE x \in BreaksOf(more, s)
  OBVIOUS
<1>3. /\ a # {} /\ a \subseteq 1..Len(bars)
      /\ x = [swing |-> s.bar, bar |-> Min(a),
              direction |-> IF s.type = "HIGH" THEN "BULLISH" ELSE "BEARISH"]
  BY <1>1, BreakFacts
<1>4. \A i \in 1..Len(bars) : i \in a <=> i \in b
  <2>1. SUFFICES ASSUME NEW i \in 1..Len(bars) PROVE i \in a <=> i \in b
    OBVIOUS
  <2>2. i - needed >= s.confirmed =>
          \A j \in (i - needed + 1)..i : j \in 1..Len(bars) /\ more[j] = bars[j]
    <3> HIDE DEF needed
    <3>1. QED
      BY <1>1
  <2>3. i \in 1..Len(more)
    BY <1>1
  <2>4. i \in a <=> i - needed >= s.confirmed /\ \A j \in (i - needed + 1)..i : Penetrates(bars[j], s)
    BY <1>1 DEF BrokenAt
  <2>5. i \in b <=> i - needed >= s.confirmed /\ \A j \in (i - needed + 1)..i : Penetrates(more[j], s)
    BY <1>1, <2>3 DEF BrokenAt
  <2> HIDE DEF a, b, needed
  <2>6. QED
    BY <2>2, <2>4, <2>5
<1>5. b \subseteq 1..Len(more)
  BY <1>1 DEF BrokenAt
<1>6. Min(a) = Min(b) /\ b # {}
  <2> HIDE DEF a, b
  <2>1. a \in SUBSET Nat /\ b \in SUBSET Nat /\ a \subseteq b
    BY <1>1, <1>3, <1>4, <1>5
  <2>2. Min(a) \in a /\ (\A m \in a : Min(a) <= m) /\ b # {}
    BY <1>3, <2>1, LeastOf
  <2>3. Min(b) \in b /\ \A m \in b : Min(b) <= m
    BY <2>1, <2>2, LeastOf
  <2>4. Min(b) <= Min(a)
    BY <2>1, <2>2, <2>3
  <2>5. Min(a) \in Nat /\ Min(b) \in Nat /\ Min(a) <= Len(bars) /\ Min(b) >= 1
    <3>1. Min(a) \in 1..Len(bars) /\ Min(b) \in 1..Len(more)
      BY <1>3, <1>5, <2>2, <2>3
    <3>2. QED
      BY <1>1, <3>1
  <2>6. Min(b) \in a
    BY <1>1, <1>4, <2>3, <2>4, <2>5
  <2>7. QED
    BY <2>2, <2>4, <2>5, <2>6
<1>7. BreaksOf(more, s) = IF b = {} THEN {}
        ELSE {[swing |-> s.bar, bar |-> Min(b),
               direction |-> IF s.type = "HIGH" THEN "BULLISH" ELSE "BEARISH"]}
  BY DEF BreaksOf, BrokenAt
<1> HIDE DEF a, b
<1>8. QED
  BY <1>3, <1>6, <1>7

\* A swing that is confirmed has been since a bar.
LEMMA ConfirmedSince ==
  ASSUME NEW bars \in Seq(StructuralBar), TiePolicy \in {"FIRST", "CLUSTER"},
         Cardinality(Swings(bars)) < MaxSwings, NEW s \in ConfirmedSwings(Swings(bars))
  PROVE  s.confirmed \in Nat
<1> DEFINE c == SwingCandidates(bars)
           seen(t) == [bar |-> t.bar, type |-> t.type, price |-> t.price,
                       confirmed |-> t.confirmed, class |-> ClassOf(c, t)]
<1>1. c = KeptOf(SwingsFound(bars))
  BY CandidatesAll
<1>2. PICK t \in c : s = seen(t)
  BY DEF Swings, Classified, ConfirmedSwings
<1>3. t \in SwingsFound(bars) /\ t.confirmed # None /\ s.confirmed = t.confirmed
  BY <1>1, <1>2 DEF KeptOf, ConfirmedSwings
<1>4. t.confirmed = t.bar + RightBars /\ t.bar \in Nat /\ RightBars \in Nat
  <2>1. t.confirmed = t.bar + RightBars /\ t.bar \in 1..Len(bars)
    BY <1>3, ConfirmedClosed, FoundFacts
  <2>2. RightBars \in Nat
    BY StructureAssumption DEF StructureConfiguration
  <2>3. QED
    BY <2>1, <2>2
<1>5. QED
  BY <1>3, <1>4

\* The breaks of a series that is not full are breaks of every longer one that is not.
LEMMA BreaksStay ==
  ASSUME NEW bars, NEW more, Prolongs(bars, more), TiePolicy \in {"FIRST", "CLUSTER"},
         Cardinality(Swings(bars)) < MaxSwings, Cardinality(Swings(more)) < MaxSwings
  PROVE  Breaks(bars, Swings(bars)) \subseteq Breaks(more, Swings(more))
<1>1. SUFFICES ASSUME NEW s \in ConfirmedSwings(Swings(bars)), NEW x \in BreaksOf(bars, s)
               PROVE  x \in Breaks(more, Swings(more))
  BY DEF Breaks
<1>2. s \in ConfirmedSwings(Swings(more))
  BY SwingsStay
<1>3. s.confirmed \in Nat
  BY ConfirmedSince DEF Prolongs
<1>4. x \in BreaksOf(more, s)
  BY <1>3, BreakStays
<1>5. QED
  BY <1>2, <1>4 DEF Breaks

\* What was published of a series and what was published before of a shorter one.
FoundAgain(known, emitted, bars) ==
  /\ Cardinality(Swings(bars)) < MaxSwings
  /\ known \subseteq ConfirmedSwings(Swings(bars)) /\ emitted \subseteq Breaks(bars, Swings(bars))
  /\ \A b \in emitted : \E s \in known : s.bar = b.swing /\ s.confirmed < b.bar

\* The last snapshot is that of a series that the tape continues, and as long as
\* no more swings are found than are kept, all that was published is found in it.
SnapshotOf(bars) ==
  /\ Prolongs(bars, tape)
  /\ structure.snapshot # None => structure.snapshot.strategy = TimeframeStructure(bars)
  /\ structure.full \/ FoundAgain(structure.known, structure.emitted, bars)

StructureInvariant ==
  /\ tape \in Seq(StructuralBar)
  /\ \/ structure = FreshStructure
     \/ TiePolicy \in {"FIRST", "CLUSTER"} => \E bars : SnapshotOf(bars)

\* An analysis publishes what was published before.
LEMMA StructureKeeps ==
  ASSUME StructureInvariant, AnalyzeStructure
  PROVE  StructureInvariant'
<1>1. SUFFICES ASSUME TiePolicy \in {"FIRST", "CLUSTER"} PROVE SnapshotOf(tape)'
  BY DEF StructureInvariant, AnalyzeStructure
<1> DEFINE swings == Swings(tape)
           breaks == Breaks(tape, swings)
           confirmed == ConfirmedSwings(swings)
<1>2. /\ tape \in Seq(StructuralBar) /\ tape' = tape /\ structure' = Leaving(StructureSnapshot(tape))
  BY DEF StructureInvariant, AnalyzeStructure
<1>3. Prolongs(tape, tape)
  BY <1>2 DEF Prolongs
<1>4. StructureSnapshot(tape).strategy = TimeframeStructure(tape)
  BY Zenon DEF StructureSnapshot, Composed
<1>5. TimeframeStructure(tape).swings = swings /\ TimeframeStructure(tape).breaks = breaks
  BY DEF TimeframeStructure, SwingStructure, Assessed
<1>6. /\ structure'.snapshot = StructureSnapshot(tape)
      /\ structure'.known = structure.known \cup confirmed
      /\ structure'.emitted = structure.emitted \cup breaks
      /\ structure'.full = (structure.full \/ Cardinality(swings) >= MaxSwings)
  <2> DEFINE last == IF swings = {} THEN structure.last ELSE Max({s.bar : s \in swings})
             snapshot == StructureSnapshot(tape)
  <2>1. structure' = [snapshot |-> snapshot, last |-> last, emitted |-> structure.emitted \cup breaks,
                      known |-> structure.known \cup confirmed,
                      full |-> structure.full \/ Cardinality(swings) >= MaxSwings]
    BY <1>2, <1>4, <1>5, Zenon DEF Leaving
  <2> HIDE DEF last, snapshot, swings, breaks, confirmed
  <2>2. QED
    BY <2>1 DEF snapshot
<1>7. ASSUME ~structure'.full PROVE FoundAgain(structure.known \cup confirmed, structure.emitted \cup breaks, tape)
  <2>1. ~structure.full /\ Cardinality(swings) < MaxSwings
    <3>1. ~structure.full /\ ~(Cardinality(swings) >= MaxSwings)
      BY <1>6, <1>7
    <3>2. MaxSwings \in Nat
      BY StructureAssumption DEF StructureConfiguration
    <3>3. Cardinality(swings) \in Nat
      BY <1>2, SwingsFinite, FS_CardinalityType
    <3>4. QED
      BY <3>1, <3>2, <3>3
  <2>2. \A b \in breaks : \E s \in confirmed : s.bar = b.swing /\ s.confirmed < b.bar
    <3>1. SUFFICES ASSUME NEW s \in confirmed, NEW b \in BreaksOf(tape, s)
                   PROVE  s.bar = b.swing /\ s.confirmed < b.bar
      BY DEF Breaks
    <3>2. s.confirmed \in Nat
      BY <1>1, <1>2, <2>1, ConfirmedSince
    <3>3. QED
      BY <1>2, <3>2, BreakFacts
  <2>3. /\ structure.known \subseteq confirmed /\ structure.emitted \subseteq breaks
        /\ \A b \in structure.emitted : \E s \in structure.known : s.bar = b.swing /\ s.confirmed < b.bar
    <3>1. CASE structure = FreshStructure
      BY <3>1 DEF FreshStructure
    <3>2. CASE \E bars : SnapshotOf(bars)
      <4>1. PICK bars : SnapshotOf(bars)
        BY <3>2
      <4>2. Prolongs(bars, tape) /\ FoundAgain(structure.known, structure.emitted, bars)
        BY <2>1, <4>1 DEF SnapshotOf
      <4>3. /\ ConfirmedSwings(Swings(bars)) \subseteq confirmed
            /\ Breaks(bars, Swings(bars)) \subseteq breaks
        BY <1>1, <2>1, <4>2, SwingsStay, BreaksStay DEF FoundAgain
      <4>4. QED
        BY <4>2, <4>3 DEF FoundAgain
    <3>3. QED
      BY <1>1, <3>1, <3>2 DEF StructureInvariant
  <2> HIDE DEF breaks, confirmed
  <2>4. \A b \in structure.emitted \cup breaks :
          \E s \in structure.known \cup confirmed : s.bar = b.swing /\ s.confirmed < b.bar
    BY <2>2, <2>3
  <2>5. QED
    BY <2>1, <2>3, <2>4 DEF FoundAgain, breaks, confirmed
<1> HIDE DEF swings, breaks, confirmed
<1>8. QED
  BY <1>2, <1>3, <1>4, <1>6, <1>7 DEF SnapshotOf

\* The invariant of the engine of structure is inductive.
LEMMA NextStructure == StructureInvariant /\ [StructureNext]_structureVars => StructureInvariant'
<1>1. SUFFICES ASSUME StructureInvariant, [StructureNext]_structureVars PROVE StructureInvariant'
  OBVIOUS
<1>2. CASE UNCHANGED structureVars
  BY <1>1, <1>2 DEF structureVars, StructureInvariant, SnapshotOf
<1>3. CASE \E bar \in Bars : NextBar(bar)
  <2>1. PICK bar \in Bars : NextBar(bar)
    BY <1>3
  <2>2. bar \in StructuralBar /\ tape \in Seq(StructuralBar)
    BY <1>1, StructureAssumption DEF StructureInvariant
  <2>3. tape' = Append(tape, bar) /\ UNCHANGED structure
    BY <2>1 DEF NextBar
  <2>4. /\ tape' \in Seq(StructuralBar) /\ Len(tape') = Len(tape) + 1
        /\ \A i \in 1..Len(tape) : tape'[i] = tape[i]
    BY <2>2, <2>3
  <2>5. \A bars : Prolongs(bars, tape) => Prolongs(bars, tape')
    <3>1. SUFFICES ASSUME NEW bars, Prolongs(bars, tape) PROVE Prolongs(bars, tape')
      OBVIOUS
    <3>2. /\ Len(bars) \in Nat /\ Len(tape) \in Nat /\ Len(bars) <= Len(tape)
          /\ bars \in Seq(StructuralBar) /\ \A i \in 1..Len(bars) : tape[i] = bars[i]
      BY <2>2, <3>1 DEF Prolongs
    <3>3. \A i \in 1..Len(bars) : tape'[i] = bars[i]
      BY <2>4, <3>2
    <3>4. Len(bars) <= Len(tape')
      BY <2>4, <3>2
    <3>5. QED
      BY <2>4, <3>2, <3>3, <3>4 DEF Prolongs
  <2>6. CASE structure = FreshStructure
    BY <2>3, <2>4, <2>6 DEF StructureInvariant, FreshStructure
  <2>7. CASE TiePolicy \in {"FIRST", "CLUSTER"} => \E bars : SnapshotOf(bars)
    <3>1. ASSUME TiePolicy \in {"FIRST", "CLUSTER"} PROVE \E bars : SnapshotOf(bars)'
      <4>1. PICK bars : SnapshotOf(bars)
        BY <2>7, <3>1
      <4>2. SnapshotOf(bars)'
        BY <2>3, <2>5, <4>1 DEF SnapshotOf
      <4>3. QED
        BY <4>2
    <3>2. QED
      BY <2>4, <3>1 DEF StructureInvariant
  <2>8. QED
    BY <1>1, <2>6, <2>7 DEF StructureInvariant
<1>4. CASE AnalyzeStructure
  BY <1>1, <1>4, StructureKeeps
<1>5. QED
  BY <1>1, <1>2, <1>3, <1>4 DEF StructureNext

\* Docs/MARKET_STRUCTURE.md: what was published as confirmed is not taken back, under
\* the policies that keep the first swing of a plateau or all, however many bars come.
THEOREM NothingIsRepainted == StructureSpec => []NothingRepainted
<1>1. StructureInit => StructureInvariant
  BY DEF StructureInit, StructureInvariant
<1>2. StructureInvariant => NothingRepainted
  <2>1. SUFFICES ASSUME StructureInvariant, structure.snapshot # None,
                        TiePolicy \in {"FIRST", "CLUSTER"}, ~structure.full
                 PROVE  LET fine == structure.snapshot.strategy
                        IN /\ structure.known \subseteq ConfirmedSwings(fine.swings)
                           /\ structure.emitted \subseteq fine.breaks
                           /\ \A b \in structure.emitted :
                                \E s \in structure.known : s.bar = b.swing /\ s.confirmed < b.bar
    BY DEF NothingRepainted
  <2>2. structure # FreshStructure
    BY <2>1 DEF FreshStructure
  <2>3. PICK bars : SnapshotOf(bars)
    BY <2>1, <2>2 DEF StructureInvariant
  <2>4. /\ structure.snapshot.strategy = TimeframeStructure(bars)
        /\ FoundAgain(structure.known, structure.emitted, bars)
    BY <2>1, <2>3 DEF SnapshotOf
  <2>5. /\ TimeframeStructure(bars).swings = Swings(bars)
        /\ TimeframeStructure(bars).breaks = Breaks(bars, Swings(bars))
    BY DEF TimeframeStructure, SwingStructure, Assessed
  <2>6. QED
    BY <2>4, <2>5 DEF FoundAgain
<1>3. QED
  BY <1>1, <1>2, NextStructure, PTL DEF StructureSpec
=============================================================================
