----------------------------- MODULE Structure -----------------------------
(***************************************************************************)
(* MarketStructureEngine of src/src/amrte/market/structure.py: the swings  *)
(* of a series of closed bars, what they are compared with the ones before,*)
(* the direction they show, the breaks of their prices, and zones.  Bar k  *)
(* of a series opens at time k - 1 and closes at k; prices are whole, and  *)
(* the bounds of zones are in hundredths of them.                          *)
(***************************************************************************)
EXTENDS Evidence, FiniteSetsExt, SequencesExt

CONSTANTS
  Bars,                   \* the bars that may come
  MaxBars,                \* bound: the bars that come
  Span,                   \* the bars of the strategy timeframe in one of the context timeframe
  LeftBars, RightBars,
  TiePolicy,              \* "FIRST", "LAST", "CLUSTER" or "REJECT_AMBIGUOUS"
  EqualityTolerance,      \* percent
  MinimumEvidence, DirectionLookback,
  BreakConfirmation,      \* "WICK_BREAK", "CLOSE_BREAK" or "MULTI_CLOSE_CONFIRMATION"
  MinimumPenetration, ConfirmationBars,
  ConsolidationWindow,
  ConsolidationEntry, ConsolidationExit, \* percent
  ZoneWidth, ZoneMerge,   \* percent
  ZoneExpiration, MaxZones, MaxSwings

VARIABLES
  tape,                   \* the closed bars that the market data hold
  structure               \* the engine

structureVars == <<tape, structure>>

StructuralBar == [high : Nat \ {0}, low : Nat \ {0}, close : Nat \ {0}]

StructureConfiguration ==
  /\ {Span, LeftBars, RightBars, MinimumEvidence, ConfirmationBars, MaxZones} \subseteq Nat \ {0}
  /\ {EqualityTolerance, MinimumPenetration, DirectionLookback, ZoneWidth, ZoneMerge, ZoneExpiration} \subseteq Nat
  /\ ConsolidationWindow \in Nat \ {0, 1} /\ MaxSwings \in Nat \ {0, 1}
  /\ ConsolidationEntry \in Nat /\ ConsolidationExit \in Nat /\ ConsolidationEntry <= ConsolidationExit

ASSUME StructureAssumption ==
  StructureConfiguration /\ Bars \subseteq StructuralBar /\ MaxBars \in Nat

Highest(bars) == Max({bars[i].high : i \in DOMAIN bars})
Lowest(bars) == Min({bars[i].low : i \in DOMAIN bars})

LastOf(seq, n) == SubSeq(seq, Greatest(1, Len(seq) - n + 1), Len(seq))

\* Swings come in the order of their bars, a high before a low.
Before(s, t) == s.bar < t.bar \/ (s.bar = t.bar /\ s.type = "HIGH" /\ t.type = "LOW")

\* Of some swings the last n.
Recent(swings, n) == {s \in swings : Cardinality({t \in swings : Before(s, t)}) < n}

InOrder(swings) ==
  [j \in 1..Cardinality(swings) |->
     CHOOSE s \in swings : Cardinality({t \in swings : Before(t, s)}) = j - 1]

\* _equal, by the greater of two prices.
Equals(a, b) == Greatest(a - b, b - a) * 100 <= EqualityTolerance * Greatest(a, b)

-----------------------------------------------------------------------------
\* Mutant: a swing is confirmed before all bars to its right have closed.
ConfirmedEarly(bars, k) == IF k + RightBars - 1 <= Len(bars) THEN k + RightBars - 1 ELSE None

\* When a swing at bar k is confirmed: all bars to its right have closed.
ConfirmedAt(bars, k) == IF k + RightBars <= Len(bars) THEN k + RightBars ELSE None

\* swing_candidates: the swings at a bar.
SwingsAt(bars, k) ==
  LET around == {i \in (k - LeftBars)..(k + RightBars) : i \in DOMAIN bars}
      high   == \A i \in around : bars[k].high >= bars[i].high
      low    == \A i \in around : bars[k].low <= bars[i].low
      swing(type, price) == [bar |-> k, type |-> type, price |-> price, confirmed |-> ConfirmedAt(bars, k)]
  IN IF k <= LeftBars \/ (high /\ low /\ TiePolicy = "REJECT_AMBIGUOUS") THEN {}
     ELSE (IF high THEN {swing("HIGH", bars[k].high)} ELSE {})
          \cup (IF low THEN {swing("LOW", bars[k].low)} ELSE {})

SwingsFound(bars) == UNION {SwingsAt(bars, k) : k \in DOMAIN bars}

\* A swing continues a plateau when the one found just before it has its type and price.
OnePlateau(found, s, t) ==
  /\ Before(s, t) /\ ~\E u \in found : Before(s, u) /\ Before(u, t)
  /\ s.type = t.type /\ Equals(s.price, t.price)

\* Of a plateau the tie policy keeps one swing, all or none; and no more than the
\* last MaxSwings are kept.
Thinned(found) ==
  LET first(s) == ~\E t \in found : OnePlateau(found, t, s)
      last(s)  == ~\E t \in found : OnePlateau(found, s, t)
      kept(s)  == CASE TiePolicy = "FIRST" -> first(s)
                    [] TiePolicy = "LAST"  -> last(s)
                    [] TiePolicy = "CLUSTER" -> TRUE
                    [] OTHER -> first(s) /\ last(s)
  IN Recent({s \in found : kept(s)}, MaxSwings)

SwingCandidates(bars) == Thinned(SwingsFound(bars))

ConfirmedSwings(swings) == {s \in swings : s.confirmed # None}

\* classify_swings: against the last confirmed swing of the type before it.
ClassOf(swings, s) ==
  LET before == {t \in ConfirmedSwings(swings) : t.type = s.type /\ t.bar < s.bar}
      prior  == CHOOSE t \in before : \A u \in before : u.bar <= t.bar
  IN CASE before = {} -> "UNCLASSIFIED"
       [] Equals(s.price, prior.price) -> "EQUAL"
       [] s.price > prior.price -> "HIGHER"
       [] OTHER -> "LOWER"

Classified(found) ==
  {[bar |-> s.bar, type |-> s.type, price |-> s.price, confirmed |-> s.confirmed,
    class |-> ClassOf(found, s)] : s \in found}

Swings(bars) == Classified(SwingCandidates(bars))

\* direction: a lookback of 0 is that of all.
DirectionOf(swings) ==
  LET confirmed == ConfirmedSwings(swings)
      recent   == IF DirectionLookback = 0 THEN confirmed ELSE Recent(confirmed, DirectionLookback)
      count(c) == Cardinality({s \in recent : s.class = c})
  IN CASE count("HIGHER") >= MinimumEvidence /\ count("LOWER") = 0 -> "BULLISH"
       [] count("LOWER") >= MinimumEvidence /\ count("HIGHER") = 0 -> "BEARISH"
       [] count("HIGHER") > 0 /\ count("LOWER") > 0 -> "MIXED"
       [] count("EQUAL") >= MinimumEvidence -> "SIDEWAYS"
       [] OTHER -> "UNKNOWN"

\* breaks: by the first bars after a swing was confirmed that go beyond its price.
Penetrates(bar, swing) ==
  LET observed == CASE BreakConfirmation # "WICK_BREAK" -> bar.close
                    [] swing.type = "HIGH" -> bar.high
                    [] OTHER -> bar.low
  IN (IF swing.type = "HIGH" THEN observed - swing.price ELSE swing.price - observed) > MinimumPenetration

BreaksOf(bars, swing) ==
  LET needed == IF BreakConfirmation = "MULTI_CLOSE_CONFIRMATION" THEN ConfirmationBars ELSE 1
      at     == {i \in DOMAIN bars : /\ i - needed >= swing.confirmed
                                     /\ \A j \in (i - needed + 1)..i : Penetrates(bars[j], swing)}
  IN IF at = {} THEN {}
     ELSE {[swing |-> swing.bar, bar |-> Min(at),
            direction |-> IF swing.type = "HIGH" THEN "BULLISH" ELSE "BEARISH"]}

Breaks(bars, swings) == UNION {BreaksOf(bars, s) : s \in ConfirmedSwings(swings)}

\* shifts: the breaks against the direction of now.
Shifts(direction, breaks) ==
  {b \in breaks : direction \in {"BULLISH", "BEARISH"} /\ b.direction # direction}

\* consolidation: a window that is no wider than its threshold, which is that for
\* leaving when the window one bar before would have entered.
Width(bars) == ((Highest(bars) - Lowest(bars)) * 100) \div Lowest(bars)

Consolidation(bars) ==
  LET before == SubSeq(bars, Len(bars) - ConsolidationWindow, Len(bars) - 1)
      held   == Len(bars) > ConsolidationWindow /\ Width(before) <= ConsolidationEntry
  IN CASE Len(bars) < ConsolidationWindow -> "UNKNOWN"
       [] Width(LastOf(bars, ConsolidationWindow)) <= (IF held THEN ConsolidationExit ELSE ConsolidationEntry)
            -> "CONSOLIDATING"
       [] OTHER -> "NOT_CONSOLIDATING"

-----------------------------------------------------------------------------
\* zones: a swing's zone is tested by a bar that reaches it, broken by a close
\* beyond it, and turns its role when it is reached after that.
ZoneOf(bars, swing) ==
  LET lower  == swing.price * (100 - ZoneWidth)
      upper  == swing.price * (100 + ZoneWidth)
      later  == {i \in DOMAIN bars : i > swing.bar}
      tests  == {i \in later : bars[i].high * 100 >= lower /\ bars[i].low * 100 <= upper}
      beyond == {i \in later : IF swing.type = "HIGH" THEN bars[i].close * 100 > upper
                               ELSE bars[i].close * 100 < lower}
      turned == beyond # {} /\ \E i \in tests : i > Min(beyond)
      role   == IF (swing.type = "HIGH") # turned THEN "RESISTANCE" ELSE "SUPPORT"
  IN [swings |-> {swing.bar}, role |-> role, lower |-> lower, upper |-> upper, tests |-> Cardinality(tests),
      state |-> CASE Cardinality(later) > ZoneExpiration -> "EXPIRED"
                  [] turned -> "ROLE_FLIPPED"
                  [] beyond # {} -> "BROKEN"
                  [] tests # {} -> "TESTED"
                  [] OTHER -> "ACTIVE"]

\* A zone that meets one of its role is merged into it, which keeps its state.
MergeZone(merged, zone) ==
  LET meets(old) == /\ old.role = zone.role
                    /\ zone.lower * 100 <= old.upper * (100 + ZoneMerge)
                    /\ zone.upper * 100 >= old.lower * (100 - ZoneMerge)
      at  == SelectInSeq(merged, meets)
      old == merged[at]
  IN IF at = 0 THEN Append(merged, zone)
     ELSE Append(RemoveAt(merged, at),
                 [old EXCEPT !.lower = Least(@, zone.lower), !.upper = Greatest(@, zone.upper),
                             !.tests = @ + zone.tests, !.swings = @ \cup zone.swings])

StructuralZones(bars, swings) ==
  LET confirmed == InOrder(ConfirmedSwings(swings))
      zones     == [j \in DOMAIN confirmed |-> ZoneOf(bars, confirmed[j])]
      merged    == FoldLeft(MergeZone, <<>>, zones)
  IN LastOf(SelectSeq(merged, LAMBDA z : z.state # "EXPIRED"), MaxZones)

\* timeframe_structure
Assessed(swings, direction, breaks, consolidation, zones) ==
  LET confirmed == Cardinality(ConfirmedSwings(swings))
  IN [swings |-> swings, direction |-> direction, breaks |-> breaks, shifts |-> Shifts(direction, breaks),
      consolidation |-> consolidation, zones |-> zones,
      health |-> IF confirmed >= MinimumEvidence THEN "HEALTHY" ELSE "INSUFFICIENT_HISTORY",
      confidence |-> IF confirmed >= MinimumEvidence
                     THEN (Least(100, confirmed * 20) + Least(100, Cardinality(breaks) * 25)
                             + Least(100, Len(zones) * 10)) \div 3
                     ELSE 0]

SwingStructure(bars, swings) ==
  Assessed(swings, DirectionOf(swings), Breaks(bars, swings), Consolidation(bars), StructuralZones(bars, swings))

TimeframeStructure(bars) == SwingStructure(bars, Swings(bars))

\* alignment: of the context, the strategy and the execution timeframe.
AlignmentOf(structures) ==
  LET bulls == Cardinality({i \in 1..3 : structures[i].direction = "BULLISH"})
      bears == Cardinality({i \in 1..3 : structures[i].direction = "BEARISH"})
  IN CASE \E i \in 1..3 : structures[i].health # "HEALTHY" \/ structures[i].direction = "UNKNOWN" -> "UNKNOWN"
       [] bulls = 3 -> "FULL_BULLISH"
       [] bears = 3 -> "FULL_BEARISH"
       [] bulls = 2 /\ bears = 0 -> "PARTIAL_BULLISH"
       [] bears = 2 /\ bulls = 0 -> "PARTIAL_BEARISH"
       [] bulls > 0 /\ bears > 0 -> "CONFLICTING"
       [] OTHER -> "NEUTRAL"

\* The context timeframe has one bar for Span of the others.
Coarse(bars) ==
  [k \in 1..(Len(bars) \div Span) |->
     LET merged == SubSeq(bars, Span * (k - 1) + 1, Span * k)
     IN [high |-> Highest(merged), low |-> Lowest(merged), close |-> merged[Span].close]]

Composed(context, fine) ==
  [context |-> context, strategy |-> fine, alignment |-> AlignmentOf(<<context, fine, fine>>),
   health |-> IF context.health = "HEALTHY" /\ fine.health = "HEALTHY" THEN "HEALTHY"
              ELSE "INSUFFICIENT_HISTORY"]

StructureSnapshot(bars) == Composed(TimeframeStructure(Coarse(bars)), TimeframeStructure(bars))

FreshStructure ==
  [snapshot |-> None, last |-> None, emitted |-> {},
   known |-> {},          \* history: the swings that were ever published as confirmed
   full |-> FALSE]        \* history: as many swings were found as are kept

NextBar(bar) ==
  /\ Len(tape) < MaxBars
  /\ tape' = Append(tape, bar)
  /\ UNCHANGED structure

\* analyze: what a snapshot leaves.
Leaving(result) ==
  LET fine == result.strategy
  IN [snapshot |-> result,
      last     |-> IF fine.swings = {} THEN structure.last ELSE Max({s.bar : s \in fine.swings}),
      emitted  |-> structure.emitted \cup fine.breaks,
      known    |-> structure.known \cup ConfirmedSwings(fine.swings),
      full     |-> structure.full \/ Cardinality(fine.swings) >= MaxSwings]

\* A snapshot that was analyzed before is given from the cache.
AnalyzeStructure ==
  /\ tape # <<>>
  /\ structure' = Leaving(StructureSnapshot(tape))
  /\ UNCHANGED tape

StructureInit == tape = <<>> /\ structure = FreshStructure

StructureNext == (\E bar \in Bars : NextBar(bar)) \/ AnalyzeStructure

StructureSpec == StructureInit /\ [][StructureNext]_structureVars

-----------------------------------------------------------------------------
\* Docs/MARKET_STRUCTURE.md, "historical snapshots before confirmation cannot
\* expose it as confirmed": what was published as confirmed is not taken back.
\* A swing that was ever confirmed, with what it was compared as, and a break
\* that was ever emitted are found again in every later analysis, as long as no
\* more swings are found than are kept; and a break comes after its swing was
\* confirmed.  A plateau keeps its last swing under the policy LAST, so that
\* this is not said of it.
NothingRepainted ==
  structure.snapshot # None /\ TiePolicy \in {"FIRST", "CLUSTER"} =>
    LET fine == structure.snapshot.strategy
    IN ~structure.full =>
         /\ structure.known \subseteq ConfirmedSwings(fine.swings)
         /\ structure.emitted \subseteq fine.breaks
         /\ \A b \in structure.emitted : \E s \in structure.known : s.bar = b.swing /\ s.confirmed < b.bar
=============================================================================
