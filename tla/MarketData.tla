----------------------------- MODULE MarketData -----------------------------
(***************************************************************************)
(* MarketDataService of src/src/amrte/market/service.py with its provider  *)
(* and its cache: a dataset is validated and admitted or rejected as a     *)
(* whole, bars are answered as of a time, from the cache if the question   *)
(* was asked before, and a snapshot is taken of the series of three roles. *)
(***************************************************************************)
EXTENDS Evidence, FiniteSetsExt, Store, Functions

CONSTANTS
  ProviderBars,       \* the provider's records: a sequence of NormalizedBar
  Datasets,           \* other records that callers have validated
  Cadence,            \* the series the provider supports, and their TIMEFRAME_SECONDS
  Roles,              \* [context, strategy, execution]: their series
  Strict, MinimumHistory, StaleMultiplier,
  AnomalyRatio,       \* anomaly_ratio, in percent
  MaxMarketCache,     \* maximum_cache_entries
  RequiredBars,       \* bound: the required_bars callers ask for
  AskedTimes          \* bound: the times callers ask about

VARIABLES
  market,             \* the admission, the cache, and the series' newest bars
  available,          \* the provider is available
  answer,             \* the latest answer and what it was asked for
  admitted            \* history: the records that were validated last

marketVars == <<market, available, answer, admitted>>

\* sound says that the record's values pass the checks of each field.
NormalizedBar ==
  [series : DOMAIN Cadence, open : Time, close : Time \cup {None}, price : Nat \ {0},
   spread : Nat \cup {None}, closed : BOOLEAN, aware : BOOLEAN, sound : BOOLEAN]

MarketConfiguration ==
  /\ Strict \in BOOLEAN /\ {MinimumHistory, StaleMultiplier, AnomalyRatio} \subseteq Nat
  /\ MaxMarketCache \in Nat \ {0} /\ RequiredBars \subseteq Nat
  /\ AskedTimes \subseteq Time

ASSUME MarketAssumption ==
  /\ MarketConfiguration
  /\ \A s \in DOMAIN Cadence : Cadence[s] \in Nat
  /\ Datasets \cup {ProviderBars} \subseteq Seq(NormalizedBar)
  /\ {Roles.context, Roles.strategy, Roles.execution} \subseteq DOMAIN Cadence

-----------------------------------------------------------------------------
\* validate_and_admit: what makes a record an error, a duplicate or a conflict.
SameBar(b, c) == b.series = c.series /\ b.open = c.open

SoundBar(b) == b.aware /\ (b.close # None => b.close > b.open) /\ b.sound

\* The records that are accepted: of those for one time the first that is sound.
AcceptedAt(bars) ==
  {i \in DOMAIN bars : /\ SoundBar(bars[i])
                       /\ \A j \in 1..(i - 1) : ~(SoundBar(bars[j]) /\ SameBar(bars[i], bars[j]))}

\* The index of the accepted record that a later one repeats.
Repeats(bars, i) == {j \in AcceptedAt(bars) : j < i /\ SameBar(bars[i], bars[j])}

BarErrors(bars) ==
  \/ \E i \in DOMAIN bars : ~SoundBar(bars[i])
  \/ \E i \in DOMAIN bars \ AcceptedAt(bars) : \E j \in Repeats(bars, i) : bars[i] # bars[j]
  \/ \E i, j \in DOMAIN bars : /\ i < j /\ bars[i].open > bars[j].open
                               /\ bars[i].series = bars[j].series
                               /\ \E k \in AcceptedAt(bars) : bars[k].series = bars[i].series

\* Two accepted records of a series with none between them.
Adjacent(bars, p, c) ==
  /\ p.series = c.series /\ p.open < c.open
  /\ \A k \in AcceptedAt(bars) : bars[k].series = p.series => ~(p.open < bars[k].open /\ bars[k].open < c.open)

BarWarnings(bars) ==
  \/ \E i \in DOMAIN bars \ AcceptedAt(bars) : \E j \in Repeats(bars, i) : bars[i] = bars[j]
  \/ \E i, j \in AcceptedAt(bars) :
       LET p == bars[i]
           c == bars[j]
           moved == Greatest(p.price - c.price, c.price - p.price)
       IN /\ Adjacent(bars, p, c)
          /\ \/ Cadence[p.series] > 0 /\ c.open - p.open > Cadence[p.series]
             \/ 100 * moved > AnomalyRatio * p.price

\* dataset_fingerprint: the records sorted by series and times, each with its
\* place among those of which these are the same.
Fingerprint(bars) ==
  LET key(b) == <<b.series, b.open, b.close>>
  IN {<<Cardinality({j \in 1..i : key(bars[j]) = key(bars[i])}), bars[i]>> : i \in DOMAIN bars}

Admission(bars) ==
  [status |-> IF BarErrors(bars) /\ Strict THEN "REJECTED"
              ELSE IF BarErrors(bars) \/ BarWarnings(bars) THEN "ADMITTED_WITH_WARNINGS"
              ELSE "ADMITTED",
   bars |-> {bars[i] : i \in AcceptedAt(bars)}, fingerprint |-> Fingerprint(bars)]

\* The admission bars() and create_snapshot() work with.
AdmissionOf(m) == IF m.admission = None THEN Admission(ProviderBars) ELSE m.admission

-----------------------------------------------------------------------------
\* Mutant: the key of the cache does not say as of when.
CacheKeyAnytime(a, series, asOf, closed) == <<a.fingerprint, series, closed>>

CacheKey(a, series, asOf, closed) == <<a.fingerprint, series, asOf, closed>>

SelectedBars(a, series, asOf, closed) ==
  {b \in a.bars : /\ b.series = series /\ b.open <= asOf
                  /\ closed => b.closed /\ b.close # None /\ b.close <= asOf}

\* BoundedMarketDataCache: an entry that is read or written becomes the newest.
Touched(cache, entry) ==
  Evicted(Append(Without(cache, entry.id), entry), MaxMarketCache)

\* bars: the answer and the cache after it.  A cached answer is given whatever
\* number of bars is required; one that is too short is not cached.
BarsCall(a, cache, series, asOf, closed, required) ==
  LET key   == CacheKey(a, series, asOf, closed)
      fresh == SelectedBars(a, series, asOf, closed)
  IN IF a.status = "REJECTED" \/ ~available THEN [bars |-> {}, cache |-> cache]
     ELSE IF Held(cache, key)
     THEN [bars |-> Entry(cache, key).bars, cache |-> Touched(cache, Entry(cache, key))]
     ELSE IF Cardinality(fresh) < required THEN [bars |-> {}, cache |-> cache]
     ELSE [bars |-> fresh, cache |-> Touched(cache, [id |-> key, bars |-> fresh])]

EndOf(b) == IF b.close = None THEN b.open ELSE b.close

NewestEnd(bars) == Max({EndOf(b) : b \in bars})

LastBar(bars) == CHOOSE b \in bars : \A c \in bars : c.open <= b.open

\* spread_state: the latest spread against twice their median.
SpreadHealth(bars) ==
  LET observed == {b \in bars : b.spread # None}
      below(b) == Cardinality({c \in observed : c.spread < b.spread \/ (c.spread = b.spread /\ c.open <= b.open)})
      n        == Cardinality(observed)
      rank(k)  == (CHOOSE b \in observed : below(b) = k).spread
      twice    == IF n % 2 = 1 THEN 2 * rank((n + 1) \div 2) ELSE rank(n \div 2) + rank(n \div 2 + 1)
      current  == LastBar(observed).spread
  IN IF observed = {} THEN "UNAVAILABLE"
     ELSE IF 4 * current <= 3 * twice /\ twice > 0 THEN "NORMAL"
     ELSE IF 2 * current <= 3 * twice /\ twice > 0 THEN "ELEVATED" ELSE "EXTREME"

\* data_health: of all series together, by the newest bar of any of them.
DataHealth(a, parts, asOf) ==
  LET newest  == Max({NewestEnd(p) : p \in parts})
      cadence == Max({Cadence[LastBar(p).series] : p \in parts})
  IN IF a.status = "REJECTED" THEN "INVALID"
     ELSE IF {} \in parts THEN "INCOMPLETE"
     ELSE IF newest > asOf THEN "INVALID"
     ELSE IF cadence > 0 /\ asOf - newest > cadence * StaleMultiplier THEN "STALE"
     ELSE "HEALTHY"

\* synchronization_status: of each series by its own last bar.
Synchronization(parts, asOf) ==
  LET current(p) == asOf - EndOf(LastBar(p)) <= Cadence[LastBar(p).series] * StaleMultiplier
                      /\ Cadence[LastBar(p).series] > 0
  IN IF {} \in parts THEN "INSUFFICIENT_DATA"
     ELSE IF \E p \in parts : EndOf(LastBar(p)) > asOf THEN "UNSYNCHRONIZED"
     ELSE IF \A p \in parts : current(p) THEN "SYNCHRONIZED"
     ELSE IF \E p \in parts : current(p) THEN "PARTIALLY_SYNCHRONIZED" ELSE "UNSYNCHRONIZED"

-----------------------------------------------------------------------------
Validate(bars) ==
  /\ market' = [market EXCEPT !.admission = Admission(bars)]
  /\ admitted' = bars /\ answer' = None
  /\ UNCHANGED available

Validated == admitted' = IF market.admission = None THEN ProviderBars ELSE admitted

AskBars(series, asOf, closed, required) ==
  LET a    == AdmissionOf(market)
      call == BarsCall(a, market.cache, series, asOf, closed, required)
  IN /\ market' = [market EXCEPT !.admission = a, !.cache = call.cache]
     /\ answer' = [kind |-> "bars", parts |-> {[series |-> series, bars |-> call.bars]},
                   asOf |-> asOf, closed |-> closed]
     /\ Validated /\ UNCHANGED available

\* create_snapshot: nothing is taken of series that are incomplete or old.
CreateSnapshot(asOf, required) ==
  LET a         == AdmissionOf(market)
      context   == BarsCall(a, market.cache, Roles.context, asOf, TRUE, required)
      strategy  == BarsCall(a, context.cache, Roles.strategy, asOf, TRUE, required)
      execution == BarsCall(a, strategy.cache, Roles.execution, asOf, TRUE, required)
      parts     == {[series |-> Roles.context, bars |-> context.bars],
                    [series |-> Roles.strategy, bars |-> strategy.bars],
                    [series |-> Roles.execution, bars |-> execution.bars]}
      taken     == LET all == {p.bars : p \in parts}
                   IN DataHealth(a, all, asOf) = "HEALTHY" /\ Synchronization(all, asOf) = "SYNCHRONIZED"
  IN /\ a.status # "REJECTED"
     /\ market' = [market EXCEPT !.admission = a, !.cache = execution.cache]
     /\ answer' = IF taken THEN [kind |-> "snapshot", parts |-> parts, asOf |-> asOf, closed |-> TRUE,
                                 spread |-> SpreadHealth(execution.bars)]
                  ELSE None
     /\ Validated /\ UNCHANGED available

\* detect_new_bar: a closed bar is new if it is not the one seen last.
DetectNewBar(b) ==
  LET before == market.newest[b.series]
      id     == <<b.series, b.open>>
  IN /\ market' = [market EXCEPT !.newest[b.series] =
                     [closed |-> IF b.closed THEN id ELSE IF before = None THEN None ELSE before.closed,
                      new |-> b.closed /\ (before = None \/ before.closed # id)]]
     /\ UNCHANGED <<available, answer, admitted>>

\* The provider of the records goes away and comes back.
ProviderTurns == available' = ~available /\ UNCHANGED <<market, answer, admitted>>

MarketInit ==
  /\ market = [admission |-> None, cache |-> <<>>, newest |-> [s \in DOMAIN Cadence |-> None]]
  /\ available = TRUE /\ answer = None /\ admitted = <<>>

MarketNext ==
  \/ \E bars \in Datasets \cup {ProviderBars} : Validate(bars)
  \/ \E s \in DOMAIN Cadence, t \in AskedTimes, c \in BOOLEAN, r \in RequiredBars \cup {MinimumHistory} :
       AskBars(s, t, c, r)
  \/ \E t \in AskedTimes, r \in RequiredBars \cup {MinimumHistory} : CreateSnapshot(t, r)
  \/ \E i \in DOMAIN ProviderBars : market.cache = <<>> /\ DetectNewBar(ProviderBars[i])
  \/ ProviderTurns

MarketSpec == MarketInit /\ [][MarketNext]_marketVars

-----------------------------------------------------------------------------
\* What is answered, from the cache or not, is what was known at the time that
\* was asked about, and all of it: of the records that were validated last,
\* each one of the series that had closed by then, or had opened if forming
\* ones are asked for too, and no record that came later, however often other
\* records were validated and other times were asked about in between.  A
\* snapshot holds no series whose last bar is out of date.
AsOfExact ==
  answer # None =>
    LET record(s) == {b \in Range(admitted) : b.series = s /\ b.open <= answer.asOf}
        known(s)  == {b \in record(s) : b.closed /\ b.close # None /\ b.close <= answer.asOf}
    IN \A p \in answer.parts :
         /\ Strict /\ p.bars # {} => p.bars = IF answer.closed THEN known(p.series) ELSE record(p.series)
         /\ answer.kind = "snapshot" =>
              \E b \in p.bars : answer.asOf - EndOf(b) <= Cadence[p.series] * StaleMultiplier
=============================================================================
