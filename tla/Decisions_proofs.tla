-------------------------- MODULE Decisions_proofs --------------------------
(***************************************************************************)
(* Seven of the engines that decide: that what exits reduce is accounted   *)
(* for, that the protection of a plan is only tightened, that the capacity *)
(* of the portfolio is not given out twice, that what is allocated to a    *)
(* strategy is earned, that what arbitration permits goes together, that   *)
(* clusters are entered and released when that was confirmed, and that     *)
(* what is given of a budget is within it and earned.                      *)
(***************************************************************************)
EXTENDS Protection, PortfolioRisk, StrategyHealth, Arbitration, Correlation,
        AdaptiveRisk, TLAPS

-----------------------------------------------------------------------------
(* Exits: what is left of a plan is its exposure less its reductions.      *)

ExitIds == {p.id : p \in Plans}

IsSequence(s) == \E S : s \in Seq(S)

\* A ledger, whether or not it has more entries than it keeps.
WholeLedger(l) ==
  /\ l = [plans |-> l.plans, events |-> l.events, completions |-> l.completions, states |-> l.states]
  /\ l.plans \in Seq(Plans)
  /\ \E S : l.events \in Seq(S) /\ \A e \in S : e.reason \in ExitReason /\ e.cut \in Nat
  /\ IsSequence(l.completions)
  /\ l.states = [i \in ExitIds |-> l.states[i]]

Entries(l) == Len(l.plans) + Len(l.events) + Len(l.completions)

SoundLedger(l) == WholeLedger(l) /\ Entries(l) <= MaxExitEntries

\* What was left of a plan before its n-th reduction, or is left now.
LeftBefore(told, s, n) == IF n <= Len(told) THEN told[n].before ELSE s.remaining

\* The reductions of a plan, one after another, lead to a state.
Accounted(p, told, s) ==
  /\ IsSequence(told) /\ s.remaining \in Nat /\ LeftBefore(told, s, 1) = p.initial
  /\ \A n \in 1..Len(told) : /\ told[n].cut \in Nat
                             /\ LeftBefore(told, s, n + 1) = told[n].before - told[n].cut
                             /\ told[n].stage # 0 => told[n].stage = n
                             /\ told[n].stage = 0 => n = Len(told) /\ s.remaining = 0
  /\ s.completed \subseteq DOMAIN p.stages
  /\ s.runner => s.remaining > 0 /\ s.completed = DOMAIN p.stages
  /\ s.remaining > 0 => s.completed = 1..Len(told) /\ s.active = DOMAIN p.stages \ s.completed

\* The inductive invariant.
ExitInvariant ==
  /\ SoundLedger(exits)
  /\ reduced = [i \in ExitIds |-> reduced[i]]
  /\ \A p \in Plans : exits.states[p.id] # None => Accounted(p, reduced[p.id], exits.states[p.id])

\* A reduction e of what is left in a state leads to a new one.
Reduces(p, told, s, e, new) ==
  /\ e.before = s.remaining /\ e.cut \in Nat
  /\ new.remaining \in Nat /\ new.remaining = s.remaining - e.cut
  /\ \/ /\ e.stage = 0 /\ new.remaining = 0
        /\ new.completed = s.completed /\ new.runner = FALSE
     \/ /\ e.stage = Len(told) + 1 /\ e.stage \in DOMAIN p.stages
        /\ new.completed = s.completed \cup {e.stage} /\ new.active = s.active \ {e.stage}
        /\ new.runner => new.remaining > 0 /\ new.active = {}

\* Sequences whose elements nothing is known of.
LEMMA AppendedFacts ==
  ASSUME NEW s, IsSequence(s), NEW e
  PROVE  /\ IsSequence(Append(s, e)) /\ Len(s) \in Nat /\ Len(Append(s, e)) = Len(s) + 1
         /\ Append(s, e)[Len(s) + 1] = e /\ \A i \in 1..Len(s) : Append(s, e)[i] = s[i]
<1>1. PICK S : s \in Seq(S)
  BY DEF IsSequence
<1> DEFINE T == S \cup {e}
<1>2. s \in Seq(T) /\ e \in T
  BY <1>1, SeqMonotonic
<1> HIDE DEF T
<1>3. Append(s, e) \in Seq(T)
  BY <1>2
<1>4. QED
  BY <1>2, <1>3 DEF IsSequence

LEMMA JoinedFacts ==
  ASSUME NEW s, NEW t, IsSequence(s), IsSequence(t)
  PROVE  /\ IsSequence(s \o t) /\ Len(s \o t) = Len(s) + Len(t)
         /\ s \o <<>> = s
         /\ \A e : s \o Append(t, e) = Append(s \o t, e)
<1>1. PICK S1 : s \in Seq(S1)
  BY DEF IsSequence
<1>2. PICK S2 : t \in Seq(S2)
  BY DEF IsSequence
<1> DEFINE S == S1 \cup S2
<1>3. s \in Seq(S) /\ t \in Seq(S)
  BY <1>1, <1>2, SeqMonotonic
<1> HIDE DEF S
<1>4. s \o t \in Seq(S) /\ Len(s \o t) = Len(s) + Len(t)
  BY <1>3, ConcatProperties
<1>5. ASSUME NEW e PROVE s \o Append(t, e) = Append(s \o t, e)
  <2> DEFINE T == S \cup {e}
  <2>1. s \in Seq(T) /\ t \in Seq(T) /\ e \in T
    BY <1>3, SeqMonotonic
  <2> HIDE DEF T
  <2>2. <<e>> \in Seq(T) /\ Append(t, e) = t \o <<e>> /\ s \o t \in Seq(T)
    BY <2>1, ConcatProperties
  <2>3. Append(s \o t, e) = (s \o t) \o <<e>>
    BY <2>1, <2>2
  <2>4. (s \o t) \o <<e>> = s \o (t \o <<e>>)
    BY <2>1, <2>2, ConcatAssociative
  <2>5. QED
    BY <2>2, <2>3, <2>4
<1>6. s \o <<>> = s
  BY <1>3, ConcatEmptySeq
<1>7. QED
  BY <1>4, <1>5, <1>6 DEF IsSequence

\* What is dropped from the front of a sequence.
LEMMA DroppedFacts ==
  ASSUME NEW S, NEW s \in Seq(S), NEW n \in 0..Len(s)
  PROVE  SubSeq(s, n + 1, Len(s)) \in Seq(S) /\ Len(SubSeq(s, n + 1, Len(s))) = Len(s) - n
<1>1. n + 1 \in Int /\ Len(s) \in Int /\ \A i \in (n + 1)..Len(s) : s[i] \in S
  OBVIOUS
<1>2. /\ SubSeq(s, n + 1, Len(s)) \in Seq(S)
      /\ Len(SubSeq(s, n + 1, Len(s))) = IF n + 1 <= Len(s) THEN Len(s) - (n + 1) + 1 ELSE 0
  BY <1>1, SubSeqProperties
<1> DEFINE l == Len(SubSeq(s, n + 1, Len(s)))
<1>3. l = IF n + 1 <= Len(s) THEN Len(s) - (n + 1) + 1 ELSE 0
  BY <1>2
<1> HIDE DEF l
<1>4. l = Len(s) - n
  BY <1>1, <1>3
<1>5. QED
  BY <1>2, <1>4 DEF l

\* The bound is kept, the states are left alone.
LEMMA ExitBoundFacts ==
  ASSUME NEW l, WholeLedger(l)
  PROVE  SoundLedger(ExitBound(l)) /\ ExitBound(l).states = l.states
<1>1. PICK S : l.events \in Seq(S) /\ \A e \in S : e.reason \in ExitReason /\ e.cut \in Nat
  BY DEF WholeLedger
<1>2. PICK T : l.completions \in Seq(T)
  BY DEF WholeLedger, IsSequence
<1>3. l.plans \in Seq(Plans)
  BY DEF WholeLedger
<1> DEFINE P == Len(l.plans)
           E == Len(l.events)
           C == Len(l.completions)
           excess == P + E + C - MaxExitEntries
           events == Greatest(0, Least(excess, E))
           done   == Greatest(0, Least(excess - events, C))
           plans  == Greatest(0, excess - events - done)
           ps == SubSeq(l.plans, plans + 1, Len(l.plans))
           es == SubSeq(l.events, events + 1, Len(l.events))
           cs == SubSeq(l.completions, done + 1, Len(l.completions))
<1>4. P \in Nat /\ E \in Nat /\ C \in Nat /\ MaxExitEntries \in Nat
  BY <1>1, <1>2, <1>3, ExitAssumption DEF ExitManagementConfiguration
<1>5. ExitBound(l) = [plans |-> ps, events |-> es, completions |-> cs, states |-> l.states]
  BY DEF ExitBound
<1> HIDE DEF P, E, C
<1>6. events \in 0..E /\ done \in 0..C /\ plans \in 0..P
      /\ (P - plans) + (E - events) + (C - done) <= MaxExitEntries
  <2> DEFINE x == excess
             y == excess - events
  <2>1. x \in Int /\ x = P + E + C - MaxExitEntries
    BY <1>4
  <2> HIDE DEF x
  <2>2. events \in 0..E /\ (x <= 0 => events = 0) /\ (x > 0 /\ x <= E => events = x)
        /\ (x > E => events = E)
    BY <1>4, <2>1 DEF Greatest, Least, x
  <2> HIDE DEF events
  <2>3. done \in 0..C /\ (y <= 0 => done = 0) /\ (y > 0 /\ y <= C => done = y) /\ (y > C => done = C)
    BY <1>4, <2>1, <2>2 DEF Greatest, Least, x
  <2>4. y = x - events
    BY DEF x
  <2> HIDE DEF done, y
  <2>5. plans = Greatest(0, y - done)
    BY <2>1, <2>4 DEF y, x
  <2> HIDE DEF plans
  <2>6. QED
    BY <1>4, <2>1, <2>2, <2>3, <2>4, <2>5 DEF Greatest
<1> HIDE DEF events, done, plans
<1>7. ps \in Seq(Plans) /\ Len(ps) = P - plans
  BY <1>3, <1>6, DroppedFacts DEF P
<1>8. es \in Seq(S) /\ Len(es) = E - events
  BY <1>1, <1>6, DroppedFacts DEF E
<1>9. cs \in Seq(T) /\ Len(cs) = C - done
  BY <1>2, <1>6, DroppedFacts DEF C
<1> HIDE DEF ps, es, cs
<1>10. l.states = [i \in ExitIds |-> l.states[i]]
  BY DEF WholeLedger
<1>11. WholeLedger(ExitBound(l))
  <2>1. IsSequence(cs)
    BY <1>9 DEF IsSequence
  <2>2. \E X : es \in Seq(X) /\ \A e \in X : e.reason \in ExitReason /\ e.cut \in Nat
    BY <1>1, <1>8
  <2>3. ps \in Seq(Plans)
    BY <1>7
  <2> DEFINE b == ExitBound(l)
  <2>4. /\ b = [plans |-> b.plans, events |-> b.events, completions |-> b.completions, states |-> b.states]
        /\ b.plans = ps /\ b.events = es /\ b.completions = cs /\ b.states = l.states
    BY <1>5
  <2> HIDE DEF b
  <2>5. \E X : b.events \in Seq(X) /\ \A e \in X : e.reason \in ExitReason /\ e.cut \in Nat
    BY <2>2, <2>4
  <2>6. b.states = [i \in ExitIds |-> b.states[i]]
    BY <1>10, <2>4
  <2>7. WholeLedger(b)
    BY <2>1, <2>3, <2>4, <2>5, <2>6, Zenon DEF WholeLedger
  <2>8. QED
    BY <2>7 DEF b
<1>12. Entries(ExitBound(l)) <= MaxExitEntries
  <2>1. Entries(ExitBound(l)) = Len(ps) + Len(es) + Len(cs)
    BY <1>5 DEF Entries
  <2>2. Len(ps) + Len(es) + Len(cs) = (P - plans) + (E - events) + (C - done)
    BY <1>4, <1>6, <1>7, <1>8, <1>9
  <2>3. QED
    BY <1>6, <2>1, <2>2
<1>13. QED
  BY <1>5, <1>11, <1>12 DEF SoundLedger

\* An event is stored with the state after it.
LEMMA StoreEventFacts ==
  ASSUME NEW l, SoundLedger(l), NEW p \in Plans, NEW state,
         NEW e, e.reason \in ExitReason, e.cut \in Nat
  PROVE  /\ SoundLedger(StoreEvent(l, p, e, state))
         /\ StoreEvent(l, p, e, state).states = [l.states EXCEPT ![p.id] = state]
<1> DEFINE m == [plans |-> l.plans, events |-> PutNew(l.events, e), completions |-> l.completions,
                 states |-> [l.states EXCEPT ![p.id] = state]]
<1>3. StoreEvent(l, p, e, state) = ExitBound(m)
  BY DEF StoreEvent
<1>4. WholeLedger(m)
  <2>1. PICK S : l.events \in Seq(S) /\ \A x \in S : x.reason \in ExitReason /\ x.cut \in Nat
    BY DEF SoundLedger, WholeLedger
  <2> DEFINE T == S \cup {e}
  <2>2. l.events \in Seq(T) /\ e \in T /\ \A x \in T : x.reason \in ExitReason /\ x.cut \in Nat
    BY <2>1, SeqMonotonic
  <2> HIDE DEF T
  <2>3. PutNew(l.events, e) \in Seq(T)
    BY <2>2 DEF PutNew
  <2>4. m.states = [i \in ExitIds |-> m.states[i]]
    BY DEF SoundLedger, WholeLedger
  <2>5. QED
    BY <2>2, <2>3, <2>4 DEF SoundLedger, WholeLedger
<1>5. m.states = [l.states EXCEPT ![p.id] = state]
  OBVIOUS
<1> HIDE DEF m
<1>6. QED
  BY <1>3, <1>4, <1>5, ExitBoundFacts

\* A completion leaves the states alone.
LEMMA CompletedFacts ==
  ASSUME NEW l, SoundLedger(l), NEW p, NEW reason
  PROVE  SoundLedger(Completed(l, p, reason)) /\ Completed(l, p, reason).states = l.states
<1>1. PICK c : Completed(l, p, reason) = ExitBound([l EXCEPT !.completions = Put(l.completions, c)])
  BY DEF Completed
<1> DEFINE m == [plans |-> l.plans, events |-> l.events, completions |-> Put(l.completions, c),
                 states |-> l.states]
<1>2. l = [plans |-> l.plans, events |-> l.events, completions |-> l.completions, states |-> l.states]
  BY DEF SoundLedger, WholeLedger
<1>3. [l EXCEPT !.completions = Put(l.completions, c)] = m
  BY <1>2
<1>4. WholeLedger(m)
  <2>1. PICK S : l.completions \in Seq(S)
    BY DEF SoundLedger, WholeLedger, IsSequence
  <2> DEFINE T == S \cup {c}
  <2>2. l.completions \in Seq(T) /\ c \in T
    BY <2>1, SeqMonotonic
  <2> HIDE DEF T
  <2>3. Put(l.completions, c) \in Seq(T)
    BY <2>2, PutFacts
  <2>4. QED
    BY <2>3 DEF SoundLedger, WholeLedger, IsSequence
<1>5. m.states = l.states
  OBVIOUS
<1> HIDE DEF m
<1>6. QED
  BY <1>1, <1>3, <1>4, <1>5, ExitBoundFacts

\* A plan that was just made.
LEMMA MadeAccounted ==
  ASSUME NEW p \in Plans, NEW s,
         s = [remaining |-> p.initial, completed |-> {}, active |-> DOMAIN p.stages, runner |-> FALSE]
  PROVE  Accounted(p, <<>>, s)
<1>1. p.initial \in Nat
  BY ExitAssumption DEF ResearchExitPlan
<1>2. IsSequence(<<>>) /\ Len(<<>>) = 0
  BY EmptySeq DEF IsSequence
<1>3. QED
  BY <1>1, <1>2 DEF Accounted, LeftBefore

\* A reduction of what is left is accounted for.
LEMMA ReductionAccounted ==
  ASSUME NEW p \in Plans, NEW told, NEW s, Accounted(p, told, s), s.remaining > 0,
         NEW e, NEW new, Reduces(p, told, s, e, new)
  PROVE  Accounted(p, Append(told, e), new)
<1> DEFINE all == Append(told, e)
           N == Len(told)
<1>1. IsSequence(told)
  BY DEF Accounted
<1>2. /\ IsSequence(all) /\ N \in Nat /\ Len(all) = N + 1
      /\ all[N + 1] = e /\ \A n \in 1..N : all[n] = told[n]
  BY <1>1, AppendedFacts
<1> HIDE DEF all, N
<1>3. LeftBefore(all, new, 1) = p.initial
  <2>1. LeftBefore(told, s, 1) = p.initial
    BY DEF Accounted
  <2>2. CASE N = 0
    BY <1>2, <2>1, <2>2 DEF LeftBefore, Reduces, N
  <2>3. CASE N > 0
    BY <1>2, <2>1, <2>3 DEF LeftBefore, N
  <2>4. QED
    BY <1>2, <2>2, <2>3
<1>4. ASSUME NEW n \in 1..(N + 1)
      PROVE  /\ all[n].cut \in Nat
             /\ LeftBefore(all, new, n + 1) = all[n].before - all[n].cut
             /\ all[n].stage # 0 => all[n].stage = n
             /\ all[n].stage = 0 => n = Len(all) /\ new.remaining = 0
  <2>1. CASE n <= N
    <3>1. /\ told[n].cut \in Nat /\ LeftBefore(told, s, n + 1) = told[n].before - told[n].cut
          /\ told[n].stage # 0 => told[n].stage = n
          /\ told[n].stage # 0
      BY <1>2, <2>1 DEF Accounted, N
    <3>2. all[n] = told[n]
      BY <1>2, <2>1
    <3>3. LeftBefore(all, new, n + 1) = LeftBefore(told, s, n + 1)
      <4>1. CASE n < N
        BY <1>2, <4>1 DEF LeftBefore, N
      <4>2. CASE n = N
        BY <1>2, <4>2 DEF LeftBefore, N, Reduces
      <4>3. QED
        BY <1>2, <2>1, <4>1, <4>2
    <3>4. QED
      BY <3>1, <3>2, <3>3
  <2>2. CASE n = N + 1
    <3>1. all[n] = e /\ LeftBefore(all, new, n + 1) = new.remaining
      BY <1>2, <2>2 DEF LeftBefore
    <3>2. e.cut \in Nat /\ e.before - e.cut = new.remaining
      BY DEF Reduces
    <3>3. /\ e.stage # 0 => e.stage = n
          /\ e.stage = 0 => new.remaining = 0
      BY <2>2 DEF Reduces, N
    <3>4. QED
      BY <1>2, <2>2, <3>1, <3>2, <3>3
  <2>3. QED
    BY <1>2, <2>1, <2>2
<1>5. /\ s.completed = 1..N /\ s.active = DOMAIN p.stages \ s.completed
      /\ s.completed \subseteq DOMAIN p.stages
  BY DEF Accounted, N
<1>6. /\ new.completed \subseteq DOMAIN p.stages
      /\ new.runner => new.remaining > 0 /\ new.completed = DOMAIN p.stages
      /\ new.remaining > 0 => new.completed = 1..(N + 1) /\ new.active = DOMAIN p.stages \ new.completed
  <2>1. CASE /\ e.stage = 0 /\ new.remaining = 0
             /\ new.completed = s.completed /\ new.runner = FALSE
    BY <1>5, <2>1
  <2>2. CASE /\ e.stage = N + 1 /\ e.stage \in DOMAIN p.stages
             /\ new.completed = s.completed \cup {e.stage} /\ new.active = s.active \ {e.stage}
             /\ new.runner => new.remaining > 0 /\ new.active = {}
    <3>1. new.completed \subseteq DOMAIN p.stages /\ new.active = DOMAIN p.stages \ new.completed
      BY <1>5, <2>2
    <3>2. new.completed = 1..(N + 1)
      BY <1>2, <1>5, <2>2
    <3>3. QED
      BY <2>2, <3>1, <3>2
  <2>3. QED
    BY <2>1, <2>2 DEF Reduces, N
<1>7. new.remaining \in Nat
  BY DEF Reduces
<1>8. Accounted(p, all, new)
  BY <1>2, <1>3, <1>4, <1>6, <1>7, Zenon DEF Accounted
<1>9. QED
  BY <1>8 DEF all

\* The stages that are completed follow those that were, without a gap.
Successive(p, stages, n) ==
  stages \subseteq DOMAIN p.stages /\ \A k \in stages : k > n /\ \A j \in 1..(k - 1) : j \in stages \/ j <= n

\* What observe has done with the stages up to the k-th.
DoneUpTo(p, stages, k, done) ==
  LET told == reduced[p.id]
      n    == Len(told) + Len(done.events)
  IN /\ SoundLedger(done.ledger)
     /\ done.ledger.states = [exits.states EXCEPT ![p.id] = done.state]
     /\ IsSequence(done.events)
     /\ Accounted(p, told \o done.events, done.state)
     /\ done.state.remaining > 0 => n <= Greatest(Len(told), k) /\ \A j \in stages : j <= k => j <= n

LEMMA OrderFacts ==
  ASSUME NEW p \in Plans, NEW o, ExitInvariant, StateOfPlan(p) # None, StateOfPlan(p).remaining > 0
  PROVE  Successive(p, InOrder(p, Hits(p, o), StateOfPlan(p).completed), Len(reduced[p.id]))
<1> DEFINE s == StateOfPlan(p)
           n == Len(reduced[p.id])
           hits == Hits(p, o)
<1>1. Accounted(p, reduced[p.id], s)
  BY DEF ExitInvariant, StateOfPlan
<1>2. n \in Nat
  BY <1>1, AppendedFacts DEF Accounted
<1>3. s.completed = 1..n /\ s.active \subseteq DOMAIN p.stages
  BY <1>1 DEF Accounted
<1>4. hits \subseteq s.active \ s.completed
  BY DEF Hits
<1>5. DOMAIN p.stages \subseteq Nat \ {0}
  BY ExitAssumption DEF ResearchExitPlan
<1> HIDE DEF s, n, hits
<1>6. \A k \in hits : k \in Nat \ {0} /\ k > n /\ k \in DOMAIN p.stages
  BY <1>2, <1>3, <1>4, <1>5
<1>7. Successive(p, InOrder(p, hits, s.completed), n)
  <2> DEFINE stages == InOrder(p, hits, s.completed)
  <2>1. stages = {k \in hits : \A j \in 1..(k - 1) : j \in hits \cup s.completed}
    BY DEF InOrder
  <2> HIDE DEF stages
  <2>2. ASSUME NEW k \in stages, NEW j \in 1..(k - 1) PROVE j \in stages \/ j <= n
    <3>1. k \in hits /\ k \in Nat /\ \A i \in 1..(k - 1) : i \in hits \cup s.completed
      BY <1>6, <2>1
    <3>2. j \in hits \cup s.completed /\ \A i \in 1..(j - 1) : i \in 1..(k - 1)
      BY <3>1
    <3>3. CASE j \in hits
      BY <2>1, <3>1, <3>2, <3>3
    <3>4. CASE j \in s.completed
      BY <1>2, <1>3, <3>4
    <3>5. QED
      BY <3>2, <3>3, <3>4
  <2>3. \A k \in stages : k > n /\ k \in DOMAIN p.stages
    BY <1>6, <2>1
  <2>4. Successive(p, stages, n)
    BY <2>2, <2>3 DEF Successive
  <2>5. QED
    BY <2>4 DEF stages
<1>8. QED
  BY <1>7 DEF s, n, hits

\* A cut is no more than there is.
LEMMA CutFacts ==
  ASSUME NEW p \in Plans, NEW k \in DOMAIN p.stages, NEW before \in Nat
  PROVE  Cut(p, k, before) \in 0..before
<1> DEFINE x == p.initial * p.stages[k].fraction
<1>1. p.initial \in Nat /\ p.stages[k].fraction \in Nat
  <2>1. p.initial \in Nat /\ p.stages \in Seq(ExitStagePolicy)
    BY ExitAssumption DEF ResearchExitPlan
  <2> DEFINE q == p.stages[k]
  <2>2. q \in ExitStagePolicy
    BY <2>1
  <2> HIDE DEF q
  <2>3. q.fraction \in Nat
    BY <2>2 DEF ExitStagePolicy, Percent
  <2>4. QED
    BY <2>1, <2>3 DEF q
<1>2. x \in Nat
  <2> DEFINE a == p.initial
             b == p.stages[k].fraction
  <2>1. a \in Nat /\ b \in Nat
    BY <1>1
  <2> HIDE DEF a, b
  <2>2. a * b \in Nat
    BY <2>1
  <2>3. QED
    BY <2>2 DEF a, b
<1> HIDE DEF x
<1>3. x \div 100 \in Nat
  BY <1>2
<1>4. Least(before, x \div 100) \in 0..before
  BY <1>3 DEF Least
<1>5. QED
  BY <1>4 DEF Cut, x

\* A stage that is completed is accounted for.
LEMMA CompleteKeeps ==
  ASSUME NEW p \in Plans, NEW o, ExitInvariant, IsSequence(reduced[p.id]),
         NEW stages, Successive(p, stages, Len(reduced[p.id])), NEW k \in stages,
         NEW done, DoneUpTo(p, stages, k - 1, done), done.state.remaining > 0
  PROVE  DoneUpTo(p, stages, k, Complete(p, o, k, done))
<1> DEFINE told == reduced[p.id]
           s == done.state
           all == told \o done.events
           cut == Cut(p, k, s.remaining)
           e == ExitEvent(p, k, "TARGET", o, s.remaining, cut)
           active == s.active \ {k}
           new == [remaining |-> s.remaining - cut, completed |-> s.completed \cup {k},
                   active |-> active,
                   runner |-> s.remaining > cut /\ active = {} /\ p.runner # "NO_RUNNER"]
           after == [ledger |-> StoreEvent(done.ledger, p, e, new), state |-> new,
                     events |-> Append(done.events, e)]
<1>1. Complete(p, o, k, done) = after
  BY DEF Complete
<1>2. k \in Nat \ {0} /\ k \in DOMAIN p.stages
  BY ExitAssumption DEF ResearchExitPlan, Successive
<1>3. /\ Accounted(p, all, s) /\ IsSequence(done.events) /\ SoundLedger(done.ledger)
      /\ done.ledger.states = [exits.states EXCEPT ![p.id] = s]
      /\ Len(told) + Len(done.events) <= Greatest(Len(told), k - 1)
      /\ \A j \in stages : j <= k - 1 => j <= Len(told) + Len(done.events)
  BY DEF DoneUpTo
<1>4. Len(told) \in Nat /\ Len(done.events) \in Nat /\ Len(all) = Len(told) + Len(done.events)
  BY <1>3, AppendedFacts, JoinedFacts
<1> DEFINE t == Len(told)
           d == Len(done.events)
           n == Len(all)
<1>5. k = n + 1 /\ k > t /\ n = t + d /\ t \in Nat /\ d \in Nat
  <2>1. k > t /\ t \in Nat /\ d \in Nat /\ n = t + d /\ n \in Nat /\ n >= t
    <3>1. k > t
      BY DEF Successive
    <3>2. t \in Nat /\ d \in Nat /\ n = t + d
      BY <1>4
    <3> HIDE DEF t, d, n
    <3>3. QED
      BY <3>1, <3>2
  <2>2. n <= Greatest(t, k - 1) /\ \A j \in stages : j <= k - 1 => j <= n
    BY <1>3, <1>4
  <2>3. \A j \in 1..(k - 1) : j \in stages \/ j <= t
    BY DEF Successive
  <2> HIDE DEF t, d, n
  <2> DEFINE m == k - 1
  <2>4. m \in Nat /\ k = m + 1 /\ (m > 0 => m \in 1..(k - 1))
    BY <1>2
  <2>5. m > 0 => m <= n
    <3> HIDE DEF m
    <3>1. m > 0 => m \in stages \/ m <= t
      BY <2>3, <2>4
    <3>2. m \in stages => m <= n
      BY <2>2, <2>4 DEF m
    <3>3. QED
      BY <2>1, <2>4, <3>1, <3>2
  <2>6. n <= m
    BY <2>1, <2>2, <2>4 DEF Greatest
  <2> HIDE DEF m
  <2>7. QED
    BY <2>1, <2>4, <2>5, <2>6
<1>6. s.remaining \in Nat
  BY <1>3 DEF Accounted
<1>7. cut \in 0..s.remaining
  BY <1>2, <1>6, CutFacts
<1>8. e.reason = "TARGET" /\ e.before = s.remaining /\ e.cut = cut /\ e.stage = k
  BY DEF ExitEvent
<1> HIDE DEF e, cut, all
<1>9. Reduces(p, all, s, e, new)
  <2>1. new.remaining \in Nat /\ new.remaining = s.remaining - e.cut /\ e.cut \in Nat
    BY <1>6, <1>7, <1>8
  <2>2. new.completed = s.completed \cup {e.stage} /\ new.active = s.active \ {e.stage}
    BY <1>8
  <2>3. new.runner => new.remaining > 0 /\ new.active = {}
    <3>1. new.runner => s.remaining > cut /\ active = {}
      BY Zenon
    <3>2. s.remaining > cut => new.remaining > 0
      BY <1>6, <1>7
    <3>3. QED
      BY <3>1, <3>2
  <2>4. QED
    BY <1>2, <1>5, <1>8, <2>1, <2>2, <2>3, Zenon DEF Reduces
<1> HIDE DEF new
<1>10. Accounted(p, Append(all, e), new)
  BY <1>3, <1>9, ReductionAccounted
<1>11. IsSequence(Append(done.events, e)) /\ Len(Append(done.events, e)) = Len(done.events) + 1
       /\ told \o Append(done.events, e) = Append(all, e)
  <2>1. IsSequence(Append(done.events, e)) /\ Len(Append(done.events, e)) = Len(done.events) + 1
    BY <1>3, AppendedFacts
  <2> DEFINE others == done.events
  <2>2. IsSequence(told) /\ IsSequence(others)
    BY <1>3
  <2>3. \A x : told \o Append(others, x) = Append(told \o others, x)
    <3> HIDE DEF told, others
    <3> QED
      BY <2>2, JoinedFacts
  <2>4. QED
    BY <2>1, <2>3, Zenon DEF all
<1>12. /\ SoundLedger(StoreEvent(done.ledger, p, e, new))
       /\ StoreEvent(done.ledger, p, e, new).states = [exits.states EXCEPT ![p.id] = new]
  <2>1. e.reason \in ExitReason /\ e.cut \in Nat
    BY <1>6, <1>7, <1>8 DEF ExitReason
  <2>2. /\ SoundLedger(StoreEvent(done.ledger, p, e, new))
        /\ StoreEvent(done.ledger, p, e, new).states = [done.ledger.states EXCEPT ![p.id] = new]
    BY <1>3, <2>1, StoreEventFacts
  <2>3. QED
    BY <1>3, <2>2
<1>13. /\ t + (d + 1) <= Greatest(t, k)
       /\ \A j \in stages : j <= k => j <= t + (d + 1)
  <2>1. stages \subseteq Nat
    BY ExitAssumption DEF ResearchExitPlan, Successive
  <2> HIDE DEF t, d, n
  <2>2. t + (d + 1) = k /\ t <= k /\ k \in Nat
    BY <1>2, <1>5
  <2>3. QED
    BY <2>1, <2>2 DEF Greatest
<1>14. /\ after.ledger = StoreEvent(done.ledger, p, e, new) /\ after.state = new
       /\ after.events = Append(done.events, e)
  OBVIOUS
<1> HIDE DEF after
<1>15. DoneUpTo(p, stages, k, after)
  BY <1>10, <1>11, <1>12, <1>13, <1>14 DEF DoneUpTo
<1>16. QED
  BY <1>1, <1>15

\* The stages that observe completes, one after another.
LEMMA TargetsFacts ==
  ASSUME NEW p \in Plans, NEW o, ExitInvariant, StateOfPlan(p) # None, StateOfPlan(p).remaining > 0
  PROVE  \E stages : DoneUpTo(p, stages, Len(p.stages),
                              Targets(p, o, InOrder(p, Hits(p, o), StateOfPlan(p).completed)))
<1> DEFINE stages == InOrder(p, Hits(p, o), StateOfPlan(p).completed)
           N == Len(p.stages)
           first == [ledger |-> exits, state |-> StateOfPlan(p), events |-> <<>>]
           Next(k, done) == IF k \in stages /\ done.state.remaining > 0 THEN Complete(p, o, k, done) ELSE done
           Is(f, m) == f = [k \in 0..m |-> IF k = 0 THEN first ELSE Next(k, f[k - 1])]
           P == {m \in Nat : \E f : Is(f, m)}
<1>1. N \in Nat /\ DOMAIN p.stages = 1..N
  BY ExitAssumption DEF ResearchExitPlan
<1>2. Accounted(p, reduced[p.id], StateOfPlan(p))
  BY DEF ExitInvariant, StateOfPlan
<1>3. Successive(p, stages, Len(reduced[p.id])) /\ IsSequence(reduced[p.id]) /\ Len(reduced[p.id]) \in Nat
  BY <1>2, OrderFacts, AppendedFacts DEF Accounted
<1>4. DoneUpTo(p, stages, 0, first)
  <2> DEFINE told == reduced[p.id]
  <2>1. IsSequence(<<>>) /\ Len(<<>>) = 0
    BY EmptySeq DEF IsSequence
  <2>2. told \o <<>> = told
    BY <1>3, <2>1, JoinedFacts
  <2>3. exits.states = [exits.states EXCEPT ![p.id] = StateOfPlan(p)]
    <3>1. exits.states = [i \in ExitIds |-> exits.states[i]]
      BY DEF ExitInvariant, SoundLedger, WholeLedger
    <3>2. QED
      BY <3>1 DEF StateOfPlan
  <2>4. Accounted(p, told \o <<>>, StateOfPlan(p)) /\ SoundLedger(exits)
    BY <1>2, <2>2 DEF ExitInvariant
  <2>5. Len(told) + Len(<<>>) <= Greatest(Len(told), 0) /\ \A j \in stages : j > 0
    BY <1>1, <1>3, <2>1 DEF Greatest, Successive
  <2>6. /\ first.ledger = exits /\ first.state = StateOfPlan(p) /\ first.events = <<>>
        /\ \A j \in stages : ~(j <= 0)
    BY <1>1, <1>3, <2>5 DEF Successive
  <2> HIDE DEF first, stages
  <2>7. QED
    BY <2>1, <2>3, <2>4, <2>5, <2>6 DEF DoneUpTo
<1> HIDE DEF stages, N, first
<1>5. ASSUME NEW k \in 1..N, NEW done, DoneUpTo(p, stages, k - 1, done)
      PROVE  DoneUpTo(p, stages, k, Next(k, done))
  <2>1. CASE k \in stages /\ done.state.remaining > 0
    BY <1>3, <1>5, <2>1, CompleteKeeps
  <2>2. CASE ~(k \in stages /\ done.state.remaining > 0)
    <3> DEFINE t == Len(reduced[p.id])
               d == Len(done.events)
    <3>1. Next(k, done) = done
      BY <2>2
    <3>2. done.state.remaining > 0 =>
            t + d <= Greatest(t, k - 1) /\ \A j \in stages : j <= k - 1 => j <= t + d
      BY <1>5 DEF DoneUpTo
    <3>3. t \in Nat /\ d \in Nat /\ stages \subseteq Nat
      <4>1. d \in Nat
        BY <1>5, AppendedFacts DEF DoneUpTo
      <4>2. stages \subseteq Nat
        BY <1>1, <1>3 DEF Successive
      <4>3. QED
        BY <1>3, <4>1, <4>2
    <3> HIDE DEF t, d
    <3>4. done.state.remaining > 0 => t + d <= Greatest(t, k) /\ \A j \in stages : j <= k => j <= t + d
      <4>1. SUFFICES ASSUME done.state.remaining > 0
                     PROVE  t + d <= Greatest(t, k) /\ \A j \in stages : j <= k => j <= t + d
        OBVIOUS
      <4>2. k \notin stages /\ k \in Nat
        BY <1>1, <2>2, <4>1
      <4>3. t + d <= Greatest(t, k)
        BY <3>2, <3>3, <4>1, <4>2 DEF Greatest
      <4>4. \A j \in stages : j <= k => j <= k - 1
        BY <3>3, <4>2
      <4>5. QED
        BY <3>2, <4>1, <4>3, <4>4
    <3>5. DoneUpTo(p, stages, k, done)
      BY <1>5, <3>4 DEF DoneUpTo, t, d
    <3>6. QED
      BY <3>1, <3>5
  <2>3. QED
    BY <2>1, <2>2
<1> HIDE DEF Next
<1>6. 0 \in P
  <2> DEFINE g == [k \in 0..0 |-> first]
  <2>1. g = [k \in 0..0 |-> g[k]] /\ \A k \in 0..0 : k = 0 /\ g[k] = first
    OBVIOUS
  <2> HIDE DEF g
  <2>2. Is(g, 0)
    BY <2>1
  <2>3. QED
    BY <2>2
<1>7. ASSUME NEW m \in Nat, m \in P PROVE m + 1 \in P
  <2>1. PICK f : Is(f, m)
    BY <1>7
  <2> DEFINE g == [k \in 0..(m + 1) |-> IF k <= m THEN f[k] ELSE Next(m + 1, f[m])]
  <2>2. \A k \in 0..m : g[k] = f[k]
    OBVIOUS
  <2>3. g[m + 1] = Next(m + 1, f[m])
    OBVIOUS
  <2>4. \A k \in 0..m : f[k] = IF k = 0 THEN first ELSE Next(k, f[k - 1])
    BY <2>1
  <2>5. g = [k \in 0..(m + 1) |-> g[k]]
    OBVIOUS
  <2> HIDE DEF g
  <2>6. ASSUME NEW k \in 0..(m + 1) PROVE g[k] = IF k = 0 THEN first ELSE Next(k, g[k - 1])
    <3>1. CASE k <= m
      <4>1. k \in 0..m /\ (k # 0 => k - 1 \in 0..m)
        BY <3>1
      <4>2. QED
        BY <2>2, <2>4, <4>1
    <3>2. CASE k = m + 1
      BY <2>2, <2>3, <3>2
    <3>3. QED
      BY <3>1, <3>2
  <2>7. Is(g, m + 1)
    BY <2>5, <2>6
  <2>8. QED
    BY <2>7
<1>8. Nat \subseteq P
  <2> HIDE DEF P
  <2> QED
    BY <1>6, <1>7, InductiveSet
<1>9. PICK f : Is(f, N)
  <2> HIDE DEF Is
  <2> QED
    BY <1>1, <1>8
<1> DEFINE A == CHOOSE h : Is(h, N)
<1>10. Targets(p, o, stages) = A[N]
  BY Zenon DEF Targets, N, Next, first
<1>11. Is(A, N)
  <2> HIDE DEF Is
  <2> QED
    BY <1>9
<1> HIDE DEF A
<1> DEFINE Q == {m \in Nat : m <= N => DoneUpTo(p, stages, m, A[m])}
<1>12. 0 \in Q
  BY <1>1, <1>4, <1>11
<1>13. ASSUME NEW m \in Nat, m \in Q PROVE m + 1 \in Q
  <2>1. SUFFICES ASSUME m + 1 <= N PROVE DoneUpTo(p, stages, m + 1, A[m + 1])
    OBVIOUS
  <2> DEFINE k == m + 1
  <2>2. k \in 1..N /\ k - 1 = m /\ m <= N
    BY <1>1, <2>1
  <2>3. A[k] = Next(k, A[k - 1])
    BY <1>11, <2>2
  <2>4. DoneUpTo(p, stages, k - 1, A[k - 1])
    BY <1>13, <2>2
  <2> HIDE DEF k
  <2>5. DoneUpTo(p, stages, k, A[k])
    BY <1>5, <2>2, <2>3, <2>4
  <2>6. QED
    BY <2>5 DEF k
<1>14. Nat \subseteq Q
  <2> HIDE DEF Q
  <2> QED
    BY <1>12, <1>13, InductiveSet
<1>15. DoneUpTo(p, stages, N, Targets(p, o, stages))
  BY <1>1, <1>10, <1>14
<1>16. QED
  BY <1>15 DEF stages, N

\* What is stored of a plan, and what callers were told of it.
Takes(p, ledger, told, s) ==
  /\ SoundLedger(ledger) /\ ledger.states = [exits.states EXCEPT ![p.id] = s]
  /\ Accounted(p, told, s)

LEMMA TakesKeeps ==
  ASSUME ExitInvariant, NEW p \in Plans, NEW told, NEW s, Takes(p, exits', told, s),
         reduced' = [reduced EXCEPT ![p.id] = told]
  PROVE  ExitInvariant'
<1>1. exits'.states = [exits.states EXCEPT ![p.id] = s]
  BY DEF Takes
<1>2. SoundLedger(exits)' /\ reduced' = [i \in ExitIds |-> reduced'[i]]
  <2>1. SoundLedger(exits')
    BY DEF Takes
  <2>2. reduced' = [i \in ExitIds |-> reduced'[i]]
    BY DEF ExitInvariant
  <2>3. QED
    BY <2>1, <2>2 DEF SoundLedger, WholeLedger, Entries
<1>3. ASSUME NEW q \in Plans, exits'.states[q.id] # None
      PROVE  Accounted(q, reduced'[q.id], exits'.states[q.id])
  <2>1. /\ exits.states = [i \in ExitIds |-> exits.states[i]] /\ reduced = [i \in ExitIds |-> reduced[i]]
        /\ q.id \in ExitIds /\ p.id \in ExitIds
    BY DEF ExitInvariant, SoundLedger, WholeLedger, ExitIds
  <2>2. CASE q.id = p.id
    <3>1. q = p
      BY <2>2, ExitAssumption
    <3>2. reduced'[q.id] = told /\ exits'.states[q.id] = s
      BY <1>1, <2>1, <2>2
    <3>3. QED
      BY <3>1, <3>2 DEF Takes
  <2>3. CASE q.id # p.id
    <3>1. reduced'[q.id] = reduced[q.id] /\ exits'.states[q.id] = exits.states[q.id]
      BY <1>1, <2>1, <2>3
    <3>2. QED
      BY <1>3, <3>1 DEF ExitInvariant
  <2>4. QED
    BY <2>2, <2>3
<1>4. QED
  BY <1>2, <1>3 DEF ExitInvariant

LEMMA CreateKeeps ==
  ASSUME ExitInvariant, NEW p \in Plans, CreatePlan(p)
  PROVE  ExitInvariant'
<1> DEFINE s == [remaining |-> p.initial, completed |-> {}, active |-> DOMAIN p.stages, runner |-> FALSE]
           m == [plans |-> Put(exits.plans, p), events |-> exits.events,
                 completions |-> exits.completions, states |-> [exits.states EXCEPT ![p.id] = s]]
<1>1. exits' = ExitBound(m) /\ reduced' = [reduced EXCEPT ![p.id] = <<>>]
  BY DEF CreatePlan
<1>2. WholeLedger(m)
  <2>1. Put(exits.plans, p) \in Seq(Plans)
    BY PutFacts DEF ExitInvariant, SoundLedger, WholeLedger
  <2>2. m.states = [i \in ExitIds |-> m.states[i]]
    BY DEF ExitInvariant, SoundLedger, WholeLedger
  <2>3. QED
    BY <2>1, <2>2 DEF ExitInvariant, SoundLedger, WholeLedger
<1>3. m.states = [exits.states EXCEPT ![p.id] = s]
  OBVIOUS
<1>4. Accounted(p, <<>>, s)
  BY MadeAccounted
<1> HIDE DEF m, s
<1>5. Takes(p, exits', <<>>, s)
  BY <1>1, <1>2, <1>3, <1>4, ExitBoundFacts DEF Takes
<1>6. QED
  BY <1>1, <1>5, TakesKeeps

LEMMA TerminalKeeps ==
  ASSUME ExitInvariant, NEW p \in Plans, NEW o, NEW reason \in ExitReason,
         StateOfPlan(p) # None, StateOfPlan(p).remaining > 0, Terminal(p, o, reason)
  PROVE  ExitInvariant'
<1> DEFINE s == StateOfPlan(p)
           e == ExitEvent(p, 0, reason, o, s.remaining, s.remaining)
           new == [remaining |-> 0, completed |-> s.completed, active |-> {}, runner |-> FALSE]
           told == reduced[p.id]
<1>1. /\ exits' = Completed(StoreEvent(exits, p, e, new), p, reason)
      /\ reduced' = [reduced EXCEPT ![p.id] = Append(told, e)]
  BY DEF Terminal
<1>2. Accounted(p, told, s)
  BY DEF ExitInvariant, StateOfPlan
<1>3. s.remaining \in Nat
  BY <1>2 DEF Accounted
<1>4. e.before = s.remaining /\ e.cut = s.remaining /\ e.stage = 0 /\ e.reason \in ExitReason
  BY DEF ExitEvent
<1>5. Reduces(p, told, s, e, new)
  <2> HIDE DEF e, s
  <2>1. new.remaining = 0 /\ new.completed = s.completed /\ new.runner = FALSE
    OBVIOUS
  <2> HIDE DEF new
  <2>2. QED
    BY <1>3, <1>4, <2>1 DEF Reduces
<1> HIDE DEF e, new, told
<1>6. Accounted(p, Append(told, e), new)
  BY <1>2, <1>5, ReductionAccounted
<1>7. SoundLedger(exits)
  BY DEF ExitInvariant
<1>8. /\ SoundLedger(StoreEvent(exits, p, e, new))
      /\ StoreEvent(exits, p, e, new).states = [exits.states EXCEPT ![p.id] = new]
  BY <1>3, <1>4, <1>7, StoreEventFacts
<1>9. Takes(p, exits', Append(told, e), new)
  BY <1>1, <1>6, <1>8, CompletedFacts DEF Takes
<1>10. QED
  BY <1>1, <1>9, TakesKeeps

LEMMA ObserveKeeps ==
  ASSUME ExitInvariant, NEW p \in Plans, NEW o, NEW i, NEW first, NEW r, Observe(p, o, i, first, r)
  PROVE  ExitInvariant'
<1> DEFINE s == StateOfPlan(p)
           told == reduced[p.id]
           unclear == ExitEvent(p, 0, "UNKNOWN", o, s.remaining, 0)
           done == Targets(p, o, InOrder(p, Hits(p, o), s.completed))
<1>1. s # None /\ s.remaining > 0
  BY DEF Observe
<1>2. Accounted(p, told, s)
  BY <1>1 DEF ExitInvariant, StateOfPlan
<1>3. \/ exits' = StoreEvent(exits, p, unclear, s) /\ UNCHANGED reduced
      \/ \E reason \in ExitReason : Terminal(p, o, reason)
      \/ /\ \/ exits' = Completed(done.ledger, p, "TARGET")
            \/ exits' = done.ledger
         /\ reduced' = [reduced EXCEPT ![p.id] = told \o done.events]
  BY Zenon DEF Observe, ExitReason
<1>4. CASE exits' = StoreEvent(exits, p, unclear, s) /\ UNCHANGED reduced
  <2>1. unclear.reason \in ExitReason /\ unclear.cut \in Nat
    BY DEF ExitEvent, ExitReason
  <2> HIDE DEF unclear
  <2>2. SoundLedger(exits') /\ exits'.states = [exits.states EXCEPT ![p.id] = s]
    BY <1>4, <2>1, StoreEventFacts DEF ExitInvariant
  <2>3. Takes(p, exits', told, s)
    BY <1>2, <2>2 DEF Takes
  <2>4. reduced' = [reduced EXCEPT ![p.id] = told]
    BY <1>4 DEF ExitInvariant
  <2> HIDE DEF told, s
  <2>5. QED
    BY <2>3, <2>4, TakesKeeps
<1>5. CASE \E reason \in ExitReason : Terminal(p, o, reason)
  BY <1>1, <1>5, TerminalKeeps
<1>6. CASE /\ \/ exits' = Completed(done.ledger, p, "TARGET")
              \/ exits' = done.ledger
           /\ reduced' = [reduced EXCEPT ![p.id] = told \o done.events]
  <2>1. \E stages : DoneUpTo(p, stages, Len(p.stages), done)
    BY <1>1, TargetsFacts
  <2> HIDE DEF done
  <2>2. /\ SoundLedger(done.ledger) /\ done.ledger.states = [exits.states EXCEPT ![p.id] = done.state]
        /\ Accounted(p, told \o done.events, done.state)
    BY <2>1 DEF DoneUpTo
  <2>3. SoundLedger(exits') /\ exits'.states = done.ledger.states
    BY <1>6, <2>2, CompletedFacts
  <2>4. Takes(p, exits', told \o done.events, done.state)
    BY <2>2, <2>3 DEF Takes
  <2> HIDE DEF told
  <2>5. QED
    BY <1>6, <2>4, TakesKeeps
<1>7. QED
  BY <1>3, <1>4, <1>5, <1>6

\* The invariant implies the property.
LEMMA ExitInvariantAccounts == ExitInvariant => ExposureAccounted
<1> SUFFICES ASSUME ExitInvariant PROVE ExposureAccounted
  OBVIOUS
<1>1. ExitTypeOK
  <2>1. PICK S : exits.events \in Seq(S) /\ \A e \in S : e.reason \in ExitReason /\ e.cut \in Nat
    BY DEF ExitInvariant, SoundLedger, WholeLedger
  <2>2. \A i \in DOMAIN exits.events : exits.events[i] \in S
    BY <2>1
  <2>3. Len(exits.plans) + Len(exits.events) + Len(exits.completions) <= MaxExitEntries
    BY DEF ExitInvariant, SoundLedger, Entries
  <2>4. QED
    BY <2>1, <2>2, <2>3 DEF ExitTypeOK
<1>2. ASSUME NEW p \in Plans, StateOfPlan(p) # None
      PROVE  LET s == StateOfPlan(p)
                 told == reduced[p.id]
                 Rest[n \in 0..Len(told)] == IF n = 0 THEN p.initial ELSE Rest[n - 1] - told[n].cut
             IN /\ s.remaining = Rest[Len(told)] /\ s.remaining >= 0
                /\ \A n \in DOMAIN told : told[n].before = Rest[n - 1]
                /\ \A n \in DOMAIN told : told[n].stage # 0 => told[n].stage = n
                /\ \A n \in DOMAIN told : told[n].stage = 0 => n = Len(told) /\ s.remaining = 0
                /\ s.runner => s.remaining > 0 /\ s.completed = DOMAIN p.stages
                /\ s.remaining > 0 => s.active = DOMAIN p.stages \ s.completed
  <2> DEFINE s == StateOfPlan(p)
             told == reduced[p.id]
             N == Len(told)
             Is(f) == f = [n \in 0..N |-> IF n = 0 THEN p.initial ELSE f[n - 1] - told[n].cut]
             w == [n \in 0..N |-> LeftBefore(told, s, n + 1)]
             Rest == CHOOSE f : Is(f)
  <2>1. Accounted(p, told, s)
    BY <1>2 DEF ExitInvariant, StateOfPlan
  <2>2. N \in Nat /\ DOMAIN told = 1..N
    BY <2>1 DEF Accounted, IsSequence
  <2>3. \A n \in 1..N : LeftBefore(told, s, n + 1) = told[n].before - told[n].cut
                        /\ told[n].before = LeftBefore(told, s, n)
    BY <2>1, <2>2 DEF Accounted, LeftBefore
  <2>4. LeftBefore(told, s, 1) = p.initial
    BY <2>1 DEF Accounted
  <2>5. w = [n \in 0..N |-> w[n]] /\ \A n \in 0..N : w[n] = LeftBefore(told, s, n + 1)
    OBVIOUS
  <2> HIDE DEF w
  <2>6. Is(w)
    <3>1. ASSUME NEW n \in 0..N PROVE w[n] = IF n = 0 THEN p.initial ELSE w[n - 1] - told[n].cut
      <4>1. CASE n = 0
        BY <2>4, <2>5, <4>1
      <4>2. CASE n # 0
        <5>1. n \in 1..N /\ n - 1 \in 0..N /\ (n - 1) + 1 = n
          BY <2>2, <4>2
        <5>2. w[n - 1] = LeftBefore(told, s, n)
          BY <2>5, <5>1
        <5>3. QED
          BY <2>3, <2>5, <4>2, <5>1, <5>2
      <4>3. QED
        BY <4>1, <4>2
    <3>2. QED
      BY <2>5, <3>1
  <2>7. Is(Rest)
    <3> HIDE DEF Is
    <3> QED
      BY <2>6
  <2> HIDE DEF Rest, N
  <2> DEFINE Q == {n \in Nat : n <= N => Rest[n] = w[n]}
  <2>8. 0 \in Q
    BY <2>2, <2>6, <2>7
  <2>9. ASSUME NEW n \in Nat, n \in Q PROVE n + 1 \in Q
    <3>1. SUFFICES ASSUME n + 1 <= N PROVE Rest[n + 1] = w[n + 1]
      OBVIOUS
    <3>2. n + 1 \in 0..N /\ (n + 1) - 1 = n /\ n + 1 # 0 /\ Rest[n] = w[n]
      BY <2>2, <2>9, <3>1
    <3>3. Rest[n + 1] = Rest[n] - told[n + 1].cut /\ w[n + 1] = w[n] - told[n + 1].cut
      BY <2>6, <2>7, <3>2
    <3>4. QED
      BY <3>2, <3>3
  <2>10. \A n \in 0..N : Rest[n] = LeftBefore(told, s, n + 1)
    <3> HIDE DEF Q
    <3>1. Nat \subseteq Q
      BY <2>8, <2>9, InductiveSet
    <3>2. QED
      BY <2>2, <2>5, <3>1 DEF Q
  <2>11. s.remaining = Rest[N] /\ s.remaining >= 0
    BY <2>1, <2>2, <2>10 DEF LeftBefore, Accounted, N
  <2>12. \A n \in DOMAIN told : told[n].before = Rest[n - 1]
    BY <2>2, <2>3, <2>10
  <2>13. /\ \A n \in DOMAIN told : told[n].stage # 0 => told[n].stage = n
         /\ \A n \in DOMAIN told : told[n].stage = 0 => n = N /\ s.remaining = 0
         /\ s.runner => s.remaining > 0 /\ s.completed = DOMAIN p.stages
         /\ s.remaining > 0 => s.active = DOMAIN p.stages \ s.completed
    BY <2>1, <2>2 DEF Accounted, N
  <2>14. QED
    BY <2>11, <2>12, <2>13, Zenon DEF Rest, N
<1>3. QED
  BY <1>1, <1>2, Zenon DEF ExposureAccounted

\* ExposureAccounted: whatever is observed of plans, in whatever order, what is left
\* of each is its initial exposure less its reductions, each counted from what the
\* one before had left, for every plan, policy and bound.
THEOREM ExposureIsAccounted == ExitSpec => []ExposureAccounted
<1>1. ExitInit => ExitInvariant
  <2> SUFFICES ASSUME ExitInit PROVE ExitInvariant
    OBVIOUS
  <2>1. /\ exits.plans = <<>> /\ exits.events = <<>> /\ exits.completions = <<>>
        /\ exits.states = [i \in ExitIds |-> None] /\ reduced = [i \in ExitIds |-> <<>>]
        /\ exits = [plans |-> exits.plans, events |-> exits.events,
                    completions |-> exits.completions, states |-> exits.states]
    BY DEF ExitInit, ExitIds
  <2>2. <<>> \in Seq(Plans) /\ <<>> \in Seq({}) /\ Len(<<>>) = 0
    BY EmptySeq
  <2>3. MaxExitEntries \in Nat
    BY ExitAssumption DEF ExitManagementConfiguration
  <2>4. \E S : exits.events \in Seq(S) /\ \A e \in S : e.reason \in ExitReason /\ e.cut \in Nat
    <3> DEFINE S == {}
    <3>1. exits.events \in Seq(S) /\ \A e \in S : e.reason \in ExitReason /\ e.cut \in Nat
      BY <2>1, <2>2
    <3> HIDE DEF S
    <3>2. QED
      BY <3>1
  <2>5. IsSequence(exits.completions)
    <3>1. IsSequence(<<>>)
      BY EmptySeq DEF IsSequence
    <3>2. QED
      BY <2>1, <3>1
  <2>6. SoundLedger(exits)
    <3>1. exits.plans \in Seq(Plans) /\ exits.states = [i \in ExitIds |-> exits.states[i]]
      BY <2>1, <2>2
    <3>2. WholeLedger(exits)
      BY <2>1, <2>4, <2>5, <3>1, Zenon DEF WholeLedger
    <3>3. Entries(exits) = 0
      BY <2>1, <2>2 DEF Entries
    <3>4. QED
      BY <2>3, <3>2, <3>3 DEF SoundLedger
  <2>7. \A p \in Plans : exits.states[p.id] = None
    BY <2>1 DEF ExitIds
  <2>8. reduced = [i \in ExitIds |-> reduced[i]]
    BY <2>1
  <2>9. QED
    BY <2>6, <2>7, <2>8 DEF ExitInvariant
<1>2. ExitInvariant /\ [ExitNext]_exitVars => ExitInvariant'
  <2> SUFFICES ASSUME ExitInvariant, [ExitNext]_exitVars PROVE ExitInvariant'
    OBVIOUS
  <2>1. CASE \E p \in Plans : CreatePlan(p)
    BY <2>1, CreateKeeps
  <2>2. CASE \E p \in Plans, o \in ExitObservations, i \in {None, "SAME", "ANOTHER"},
                first \in {None} \cup BOOLEAN, r \in BOOLEAN : Observe(p, o, i, first, r)
    BY <2>2, ObserveKeeps
  <2>3. CASE UNCHANGED exitVars
    BY <2>3 DEF exitVars, ExitInvariant, SoundLedger, WholeLedger, Entries
  <2>4. QED
    BY <2>1, <2>2, <2>3 DEF ExitNext, ExitSteps
<1>3. QED
  BY <1>1, <1>2, ExitInvariantAccounts, PTL DEF ExitSpec

-----------------------------------------------------------------------------
(* Protection: the boundary in force is the strongest that was given.      *)

PlanIds == {p.id : p \in Plans}

\* A protective state: its boundary is nowhere below the invalidation.
IsState(s) ==
  /\ s = [version |-> s.version, boundary |-> s.boundary, remaining |-> s.remaining,
          activated |-> s.activated, at |-> s.at, terminated |-> s.terminated]
  /\ s.boundary \in Int /\ s.boundary >= Original /\ s.terminated \in BOOLEAN

\* What the engine holds of a plan, beside what callers were given.
InForce(state, best, hit) ==
  state # None =>
    /\ IsState(state)
    /\ hit => state.terminated /\ state.remaining = 0
    /\ ~state.terminated => state.boundary = best

\* The ledger has a state of every plan, or None.
IsLedger(l) ==
  l = [versions |-> l.versions, events |-> l.events, known |-> l.known, states |-> l.states]

\* What callers hold are protective states.
StatesOnly(states) == \E S : states \in Seq(S) /\ \A s \in S : IsState(s)

\* The inductive invariant.
ProtectInvariant ==
  /\ DOMAIN reduced = PlanIds
  /\ IsLedger(protection) /\ DOMAIN protection.states = PlanIds
  /\ DOMAIN handed = PlanIds /\ strongest \in [PlanIds -> Int]
  /\ \A i \in PlanIds :
       /\ InForce(protection.states[i], strongest[i], i \in triggered)
       /\ StatesOnly(handed[i])

\* A caller that was given nothing holds no state that is not one.
LEMMA NothingHeld == StatesOnly(<<>>)
<1> DEFINE S == {}
<1>1. <<>> \in Seq(S) /\ \A s \in S : IsState(s)
  OBVIOUS
<1> HIDE DEF S
<1>2. QED
  BY <1>1 DEF StatesOnly

\* A caller that is given a state holds states.
LEMMA HandedFacts ==
  ASSUME NEW states, StatesOnly(states), NEW state, IsState(state)
  PROVE  StatesOnly(Handed(states, state))
<1>1. PICK T : states \in Seq(T) /\ \A s \in T : IsState(s)
  BY DEF StatesOnly
<1> DEFINE S == T \cup {state}
           same == {i \in DOMAIN states : states[i] = state}
           first == CHOOSE i \in same : TRUE
           others == IF same = {} THEN states ELSE RemoveAt(states, first)
           all == Append(others, state)
           from == Greatest(1, Len(others) + 2 - MaxHanded)
           to == Len(others) + 1
<1>2. /\ states \in Seq(S) /\ state \in S /\ \A s \in S : IsState(s)
  BY <1>1
<1>3. others \in Seq(S)
  <2>1. CASE same = {}
    BY <1>2, <2>1
  <2>2. CASE same # {}
    <3>1. first \in 1..Len(states)
      BY <1>2, <2>2
    <3> HIDE DEF first, S
    <3>2. RemoveAt(states, first) \in Seq(S)
      BY <1>2, <3>1, RemovedFacts
    <3>3. QED
      BY <2>2, <3>2
  <2>3. QED
    BY <2>1, <2>2
<1> HIDE DEF S, others
<1>4. all \in Seq(S) /\ Len(all) = to /\ to \in Nat
  BY <1>2, <1>3
<1>5. from \in Int /\ from >= 1
  BY <1>4, ProtectionAssumption DEF Greatest
<1>6. \A i \in from..to : all[i] \in S
  <2> HIDE DEF all
  <2>1. QED
    BY <1>4, <1>5
<1>7. SubSeq(all, from, to) \in Seq(S)
  <2> HIDE DEF all, from, to
  <2>1. QED
    BY <1>4, <1>5, <1>6, SubSeqProperties
<1>8. Handed(states, state) = SubSeq(all, from, to)
  BY DEF Handed, others
<1>9. QED
  BY <1>2, <1>7, <1>8 DEF StatesOnly

\* Bounding the ledger leaves the states.
LEMMA BoundedLedger ==
  ASSUME NEW l, IsLedger(l)
  PROVE  IsLedger(ProtectionBound(l)) /\ ProtectionBound(l).states = l.states
<1> DEFINE excess == Greatest(0, Len(l.versions) + Len(l.events) - MaxBoundaries)
           events == Least(excess, Len(l.events))
           vs == SubSeq(l.versions, excess - events + 1, Len(l.versions))
           es == SubSeq(l.events, events + 1, Len(l.events))
           ks == Evicted(l.known, MaxVersions)
<1>1. ProtectionBound(l) = [l EXCEPT !.events = es, !.versions = vs, !.known = ks]
  BY DEF ProtectionBound
<1> HIDE DEF vs, es, ks
<1>2. ProtectionBound(l) = [versions |-> vs, events |-> es, known |-> ks, states |-> l.states]
  BY <1>1 DEF IsLedger
<1>3. QED
  BY <1>2 DEF IsLedger

\* Three fields of a ledger are replaced.
LEMMA ReplacedFields ==
  ASSUME NEW l, IsLedger(l), NEW vs, NEW ks, NEW ss
  PROVE  [l EXCEPT !.versions = vs, !.known = ks, !.states = ss]
           = [versions |-> vs, events |-> l.events, known |-> ks, states |-> ss]
<1> DEFINE m == [l EXCEPT !.versions = vs, !.known = ks, !.states = ss]
<1>1. DOMAIN l = {"versions", "events", "known", "states"}
  BY DEF IsLedger
<1>2. m = [f \in DOMAIN l |-> IF f = "versions" THEN vs ELSE IF f = "known" THEN ks
                              ELSE IF f = "states" THEN ss ELSE l[f]]
  BY <1>1
<1> HIDE DEF m
<1>3. QED
  BY <1>1, <1>2 DEF m

\* A version more: the plan has the state it is given.
LEMMA AddedVersion ==
  ASSUME IsLedger(protection), NEW version, NEW p, NEW state
  PROVE  /\ IsLedger(AddVersion(version, p, state))
         /\ AddVersion(version, p, state).states = [protection.states EXCEPT ![p.id] = state]
<1> DEFINE vs == Put(protection.versions, version)
           ks == Put(protection.known, version)
           ss == [protection.states EXCEPT ![p.id] = state]
           l == [versions |-> vs, events |-> protection.events, known |-> ks, states |-> ss]
<1>1. AddVersion(version, p, state) =
        ProtectionBound([protection EXCEPT !.versions = vs, !.known = ks, !.states[p.id] = state])
  BY DEF AddVersion
<1>2. [protection EXCEPT !.versions = vs, !.known = ks, !.states[p.id] = state] = l
  <2> HIDE DEF vs, ks
  <2>1. [protection EXCEPT !.versions = vs, !.known = ks, !.states[p.id] = state]
          = [protection EXCEPT !.versions = vs, !.known = ks, !.states = ss]
    OBVIOUS
  <2> HIDE DEF ss
  <2>2. [protection EXCEPT !.versions = vs, !.known = ks, !.states = ss] = l
    BY ReplacedFields
  <2>3. QED
    BY <2>1, <2>2
<1>3. IsLedger(l) /\ l.states = ss
  BY DEF IsLedger
<1> HIDE DEF l, ss
<1>4. QED
  BY <1>1, <1>2, <1>3, BoundedLedger DEF ss

\* One plan is given a state, and what was noted of it; the others keep theirs.
LEMMA OnePlan ==
  ASSUME ProtectInvariant, NEW p \in Plans, NEW state, IsState(state), NEW best \in Int,
         NEW hits, InForce(state, best, p.id \in hits),
         \A i \in PlanIds \ {p.id} : i \in hits <=> i \in triggered,
         reduced' = reduced, IsLedger(protection'),
         protection'.states = [protection.states EXCEPT ![p.id] = state],
         handed' = [handed EXCEPT ![p.id] = Handed(@, state)],
         strongest' = [strongest EXCEPT ![p.id] = best], triggered' = hits
  PROVE  ProtectInvariant'
<1>1. p.id \in PlanIds
  BY DEF PlanIds
<1>2. /\ DOMAIN protection'.states = PlanIds /\ DOMAIN handed' = PlanIds
      /\ strongest' \in [PlanIds -> Int]
  BY DEF ProtectInvariant
<1>3. StatesOnly(handed[p.id])
  BY <1>1 DEF ProtectInvariant
<1>4. StatesOnly(Handed(handed[p.id], state))
  BY <1>3, HandedFacts
<1>5. ASSUME NEW i \in PlanIds
      PROVE  InForce(protection'.states[i], strongest'[i], i \in triggered') /\ StatesOnly(handed'[i])
  <2>1. CASE i = p.id
    <3>1. /\ protection'.states[i] = state /\ strongest'[i] = best
          /\ handed'[i] = Handed(handed[p.id], state)
      BY <1>1, <2>1 DEF ProtectInvariant
    <3>2. QED
      BY <1>4, <2>1, <3>1
  <2>2. CASE i # p.id
    <3>1. /\ protection'.states[i] = protection.states[i] /\ strongest'[i] = strongest[i]
          /\ handed'[i] = handed[i] /\ (i \in triggered' <=> i \in triggered)
      BY <2>2 DEF ProtectInvariant
    <3>2. InForce(protection.states[i], strongest[i], i \in triggered) /\ StatesOnly(handed[i])
      BY DEF ProtectInvariant
    <3>3. QED
      BY <3>1, <3>2 DEF InForce
  <2>3. QED
    BY <2>1, <2>2
<1>6. QED
  BY <1>2, <1>5 DEF ProtectInvariant, PlanIds

\* What was selected is one of the candidates.
LEMMA SelectFacts ==
  ASSUME NEW valid
  PROVE  Select(valid) \subseteq valid
BY DEF Select

\* Candidates are boundaries.
LEMMA CandidateFacts ==
  ASSUME NEW p, NEW current, NEW o, NEW qualified, NEW atr \in AtrBoundaries,
         NEW structure \in StructureBoundaries,
         NEW c \in Candidates(p, current, o, qualified, atr, structure)
  PROVE  c.value \in Int
<1>1. atr \in Int \cup {None} /\ structure \in Int \cup {None} /\ Profile \in ProtectionProfile
  BY ProtectionAssumption DEF ValidProfile
<1>2. Profile.offset \in Int /\ \A s \in RSteps(o) : s.locked \in Int
  BY <1>1 DEF ProtectionProfile, RSteps
<1>3. \/ c = [method |-> "BREAK_EVEN", value |-> Profile.offset]
      \/ \E v \in {atr} \ {None} : c = [method |-> "ATR", value |-> v]
      \/ \E v \in {structure} \ {None} : c = [method |-> "STRUCTURE", value |-> v]
      \/ \E v \in {s.locked : s \in RSteps(o)} : c = [method |-> "R_BASED", value |-> v]
  BY DEF Candidates
<1>4. QED
  BY <1>1, <1>2, <1>3

\* initialize keeps the invariant: a plan starts anew.
LEMMA InitializeKeeps ==
  ASSUME ProtectInvariant, NEW p \in Plans, Initialize(p), reduced' = reduced
  PROVE  ProtectInvariant'
<1> DEFINE exit == StateOfPlan(p)
           version == [id |-> <<p.id, "ORIGINAL">>, parent |-> None, value |-> Original]
           state == [version |-> version.id, boundary |-> Original, remaining |-> exit.remaining,
                     activated |-> FALSE, at |-> p.at, terminated |-> exit.remaining = 0]
<1>1. /\ protection' = AddVersion(version, p, state)
      /\ handed' = [handed EXCEPT ![p.id] = Handed(@, state)]
      /\ strongest' = [strongest EXCEPT ![p.id] = Original]
      /\ triggered' = triggered \ {p.id}
  BY DEF Initialize
<1>2. IsState(state) /\ state.boundary = Original
  BY DEF IsState, Original
<1> HIDE DEF state, version
<1>3. InForce(state, Original, p.id \in triggered \ {p.id})
  BY <1>2 DEF InForce
<1>4. /\ IsLedger(protection')
      /\ protection'.states = [protection.states EXCEPT ![p.id] = state]
  BY <1>1, AddedVersion DEF ProtectInvariant
<1>5. Original \in Int /\ \A i \in PlanIds \ {p.id} : i \in triggered \ {p.id} <=> i \in triggered
  BY DEF Original
<1>6. QED
  BY <1>1, <1>2, <1>3, <1>4, <1>5, OnePlan

\* evaluate keeps it: a boundary that is selected is the strongest so far.
LEMMA AdvanceKeeps ==
  ASSUME ProtectInvariant, NEW p \in Plans, NEW o, NEW qualified, NEW atr \in AtrBoundaries,
         NEW structure \in StructureBoundaries, Advance(p, o, qualified, atr, structure),
         reduced' = reduced
  PROVE  ProtectInvariant'
<1> DEFINE current == protection.states[p.id]
           exit == StateOfPlan(p)
           best == strongest[p.id]
           hard == current.terminated \/ exit.remaining = 0 \/ exit.remaining > current.remaining
           offered == Candidates(p, current, o, qualified, atr, structure)
           valid == IF hard THEN {} ELSE Valid(offered, current, o)
<1>1. p.id \in PlanIds
  BY DEF PlanIds
<1>2. IsState(current) /\ InForce(current, best, p.id \in triggered) /\ best \in Int
  BY <1>1 DEF ProtectInvariant, InForce, Advance
<1>3. CASE Select(valid) = {}
  <2> DEFINE returned == [current EXCEPT !.remaining = exit.remaining]
  <2>1. /\ handed' = [handed EXCEPT ![p.id] = Handed(@, returned)]
        /\ UNCHANGED <<protection, strongest, triggered>>
    BY <1>3 DEF Advance
  <2>2. returned = [version |-> current.version, boundary |-> current.boundary,
                 remaining |-> exit.remaining, activated |-> current.activated,
                 at |-> current.at, terminated |-> current.terminated]
    <3> HIDE DEF exit, current
    <3>1. QED
      BY <1>2 DEF IsState
  <2> HIDE DEF returned
  <2>3. IsState(returned)
    BY <1>2, <2>2 DEF IsState
  <2>4. StatesOnly(handed[p.id])
    BY <1>1 DEF ProtectInvariant
  <2>5. StatesOnly(Handed(handed[p.id], returned))
    BY <2>3, <2>4, HandedFacts
  <2>6. \A i \in PlanIds : StatesOnly(handed'[i])
    BY <2>1, <2>5 DEF ProtectInvariant
  <2>7. DOMAIN handed' = PlanIds
    BY <2>1 DEF ProtectInvariant
  <2>8. QED
    BY <2>1, <2>6, <2>7 DEF ProtectInvariant, PlanIds, InForce, IsLedger
<1>4. CASE Select(valid) # {}
  <2> DEFINE version(c) == [id |-> <<current.version, c.method, c.value, o.at>>,
                            parent |-> current.version, value |-> c.value]
             state(c) == [version |-> version(c).id, boundary |-> c.value,
                          remaining |-> exit.remaining, at |-> o.at, terminated |-> FALSE,
                          activated |-> current.activated \/ c.method = "BREAK_EVEN"]
  <2>1. PICK c \in Select(valid) :
          /\ protection' = AddVersion(version(c), p, state(c))
          /\ handed' = [handed EXCEPT ![p.id] = Handed(@, state(c))]
          /\ strongest' = [strongest EXCEPT ![p.id] = Greatest(@, c.value)]
    BY <1>4 DEF Advance
  <2>2. c \in valid
    BY <2>1, SelectFacts
  <2>3. ~hard /\ c \in offered /\ c.value >= current.boundary
    BY <2>2 DEF Valid
  <2>4. c.value \in Int
    BY <2>3, CandidateFacts
  <2>5. ~current.terminated /\ current.boundary = best /\ p.id \notin triggered
    BY <1>2, <2>3 DEF IsState, InForce, Advance
  <2>6. Greatest(best, c.value) = c.value
    BY <1>2, <2>3, <2>4, <2>5 DEF Greatest
  <2>7. strongest' = [strongest EXCEPT ![p.id] = c.value]
    BY <2>1, <2>6
  <2> DEFINE new == state(c)
  <2>8. /\ IsState(new) /\ new.boundary = c.value
    <3>1. c.value >= Original
      BY <1>2, <2>3, <2>4 DEF IsState, Original
    <3> HIDE DEF current, exit
    <3>2. QED
      BY <2>4, <3>1 DEF IsState
  <2>9. /\ IsLedger(protection')
        /\ protection'.states = [protection.states EXCEPT ![p.id] = new]
    <3> HIDE DEF new, state, version
    <3>1. protection' = AddVersion(version(c), p, new)
      BY <2>1 DEF new
    <3>2. QED
      BY <3>1, AddedVersion DEF ProtectInvariant
  <2>10. handed' = [handed EXCEPT ![p.id] = Handed(@, new)] /\ triggered' = triggered
    BY <2>1 DEF Advance
  <2> HIDE DEF new
  <2>11. InForce(new, c.value, p.id \in triggered)
    BY <2>5, <2>8 DEF InForce
  <2>12. QED
    BY <2>4, <2>7, <2>8, <2>9, <2>10, <2>11, OnePlan
<1>5. QED
  BY <1>3, <1>4

\* observe keeps it, whatever state the caller passes: the boundary is hit.
LEMMA TriggerKeeps ==
  ASSUME ProtectInvariant, NEW p \in Plans, NEW i \in DOMAIN handed[p.id], NEW o,
         Trigger(p, handed[p.id][i], o), reduced' = reduced
  PROVE  ProtectInvariant'
<1> DEFINE state == handed[p.id][i]
           new == [state EXCEPT !.remaining = 0, !.terminated = TRUE, !.activated = TRUE, !.at = o.at]
           event == [id |-> <<state.version, o.id, state.remaining>>]
           es == PutNew(protection.events, event)
           ss == [protection.states EXCEPT ![p.id] = new]
           best == strongest[p.id]
           hits == triggered \cup {p.id}
<1>1. p.id \in PlanIds
  BY DEF PlanIds
<1>2. IsState(state) /\ best \in Int
  <2>1. PICK S : handed[p.id] \in Seq(S) /\ \A s \in S : IsState(s)
    BY <1>1 DEF ProtectInvariant, StatesOnly
  <2>2. state \in S
    BY <2>1
  <2>3. QED
    BY <1>1, <2>1, <2>2 DEF ProtectInvariant
<1>3. /\ protection' = ProtectionBound([protection EXCEPT !.events = es, !.states[p.id] = new])
      /\ handed' = [handed EXCEPT ![p.id] = Handed(@, new)]
      /\ triggered' = hits /\ strongest' = strongest
  BY DEF Trigger
<1>4. IsState(new) /\ new.terminated /\ new.remaining = 0
  <2> HIDE DEF state
  <2>1. new = [version |-> state.version, boundary |-> state.boundary, remaining |-> 0,
               activated |-> TRUE, at |-> o.at, terminated |-> TRUE]
    <3>1. DOMAIN state = {"version", "boundary", "remaining", "activated", "at", "terminated"}
      BY <1>2 DEF IsState
    <3>2. new = [f \in DOMAIN state |->
                   IF f = "remaining" THEN 0 ELSE IF f = "at" THEN o.at
                   ELSE IF f \in {"terminated", "activated"} THEN TRUE ELSE state[f]]
      BY <3>1
    <3> HIDE DEF new
    <3>3. QED
      BY <3>1, <3>2
  <2> HIDE DEF new
  <2>2. QED
    BY <1>2, <2>1 DEF IsState
<1> HIDE DEF new, es
<1>5. [protection EXCEPT !.events = es, !.states[p.id] = new]
        = [protection EXCEPT !.events = es, !.states = ss]
  OBVIOUS
<1>6. IsLedger(protection)
  BY DEF ProtectInvariant
<1> HIDE DEF ss
<1> DEFINE l == [protection EXCEPT !.events = es, !.states = ss]
<1>7. IsLedger(l) /\ l.states = ss
  <2>1. DOMAIN protection = {"versions", "events", "known", "states"}
    BY <1>6 DEF IsLedger
  <2>2. l = [f \in DOMAIN protection |-> IF f = "events" THEN es ELSE IF f = "states" THEN ss
                                         ELSE protection[f]]
    BY <2>1
  <2> HIDE DEF l
  <2>3. QED
    BY <2>1, <2>2 DEF IsLedger
<1> HIDE DEF l
<1>8. protection' = ProtectionBound(l)
  BY <1>3, <1>5 DEF l
<1>9. IsLedger(protection') /\ protection'.states = ss
  BY <1>7, <1>8, BoundedLedger
<1>10. InForce(new, best, p.id \in hits)
  BY <1>4 DEF InForce
<1>11. strongest' = [strongest EXCEPT ![p.id] = best]
  BY <1>3 DEF ProtectInvariant
<1>12. \A j \in PlanIds \ {p.id} : j \in hits <=> j \in triggered
  OBVIOUS
<1>13. protection'.states = [protection.states EXCEPT ![p.id] = new]
  BY <1>9 DEF ss
<1> HIDE DEF hits, best, state
<1>14. QED
  BY <1>2, <1>3, <1>4, <1>9, <1>10, <1>11, <1>12, <1>13, OnePlan DEF hits

\* A restart keeps it, or everything starts anew.
LEMMA RestartKeeps ==
  ASSUME ProtectInvariant, RestartProtection, reduced' = reduced
  PROVE  ProtectInvariant'
<1>1. handed' = [i \in PlanIds |-> <<>>] /\ \A i \in PlanIds : StatesOnly(handed'[i])
  <2>1. handed' = [i \in PlanIds |-> <<>>]
    BY DEF RestartProtection, ProtectInvariant
  <2>2. StatesOnly(<<>>)
    BY NothingHeld
  <2>3. QED
    BY <2>1, <2>2
<1>2. CASE Restorable
  <2>1. /\ protection' = [protection EXCEPT !.known = protection.versions]
        /\ UNCHANGED <<strongest, triggered>>
    BY <1>2 DEF RestartProtection
  <2>2. protection' = [versions |-> protection.versions, events |-> protection.events,
                       known |-> protection.versions, states |-> protection.states]
    BY <2>1 DEF ProtectInvariant, IsLedger
  <2>3. IsLedger(protection') /\ protection'.states = protection.states
    BY <2>2 DEF IsLedger
  <2>4. QED
    BY <1>1, <2>1, <2>3 DEF ProtectInvariant, PlanIds, InForce
<1>3. CASE ~Restorable
  <2>1. /\ protection' = FreshProtection /\ triggered' = {}
        /\ strongest' = [i \in PlanIds |-> Original]
    BY <1>3 DEF RestartProtection, ProtectInvariant
  <2>2. IsLedger(protection') /\ protection'.states = [i \in PlanIds |-> None]
    BY <2>1 DEF FreshProtection, IsLedger, ProtectInvariant
  <2>3. strongest' \in [PlanIds -> Int]
    BY <2>1 DEF Original
  <2>4. \A i \in PlanIds : InForce(protection'.states[i], strongest'[i], i \in triggered')
    BY <2>2 DEF InForce
  <2>5. QED
    BY <1>1, <2>2, <2>3, <2>4 DEF ProtectInvariant, PlanIds
<1>4. QED
  BY <1>2, <1>3

\* What the exits do leaves the plans' reductions to the same plans.
LEMMA ExitsKeep ==
  ASSUME ProtectInvariant, ExitNext, UNCHANGED protectVars
  PROVE  ProtectInvariant'
<1>1. \A p : CreatePlan(p) => DOMAIN reduced' = DOMAIN reduced
  <2> SUFFICES ASSUME NEW p, CreatePlan(p) PROVE DOMAIN reduced' = DOMAIN reduced
    OBVIOUS
  <2>1. reduced' = [reduced EXCEPT ![p.id] = <<>>]
    BY Zenon DEF CreatePlan
  <2>2. QED
    BY <2>1
<1>2. \A p, o, i, first, r : Observe(p, o, i, first, r) => DOMAIN reduced' = DOMAIN reduced
  <2> SUFFICES ASSUME NEW p, NEW o, NEW i, NEW first, NEW r, Observe(p, o, i, first, r)
               PROVE  DOMAIN reduced' = DOMAIN reduced
    OBVIOUS
  <2>1. ASSUME NEW reason, Terminal(p, o, reason) PROVE DOMAIN reduced' = DOMAIN reduced
    <3>1. \E told : reduced' = [reduced EXCEPT ![p.id] = told]
      BY <2>1, Zenon DEF Terminal
    <3>2. QED
      BY <3>1
  <2>2. \/ reduced' = reduced
        \/ \E reason : Terminal(p, o, reason)
        \/ \E told : reduced' = [reduced EXCEPT ![p.id] = told]
    BY Zenon DEF Observe
  <2>3. QED
    BY <2>1, <2>2
<1>3. DOMAIN reduced' = PlanIds
  BY <1>1, <1>2 DEF ExitNext, ExitSteps, ProtectInvariant
<1>4. QED
  BY <1>3 DEF ProtectInvariant, PlanIds, protectVars, InForce, IsLedger

\* Every step keeps the invariant.
LEMMA NextProtection ==
  ASSUME ProtectInvariant, [ProtectNext]_<<exitVars, protectVars>>
  PROVE  ProtectInvariant'
<1>1. CASE ProtectSteps(Plans, ExitObservations) /\ UNCHANGED exitVars
  <2>1. reduced' = reduced
    BY <1>1 DEF exitVars
  <2>2. CASE \E p \in Plans : Initialize(p)
    BY <2>1, <2>2, InitializeKeeps
  <2>3. CASE \E p \in Plans, o \in ExitObservations, q \in BOOLEAN,
                a \in AtrBoundaries, s \in StructureBoundaries : Advance(p, o, q, a, s)
    BY <2>1, <2>3, AdvanceKeeps
  <2>4. CASE \E p \in Plans, o \in ExitObservations : \E i \in DOMAIN handed[p.id] :
               Trigger(p, handed[p.id][i], o)
    BY <2>1, <2>4, TriggerKeeps
  <2>5. CASE RestartProtection
    BY <2>1, <2>5, RestartKeeps
  <2>6. QED
    BY <1>1, <2>2, <2>3, <2>4, <2>5 DEF ProtectSteps
<1>2. CASE ExitNext /\ UNCHANGED protectVars
  BY <1>2, ExitsKeep
<1>3. CASE UNCHANGED <<exitVars, protectVars>>
  BY <1>3 DEF exitVars, protectVars, ProtectInvariant, PlanIds, InForce, IsLedger
<1>4. QED
  BY <1>1, <1>2, <1>3 DEF ProtectNext

\* OnlyTightens: since its protection was started, the boundary in force of a plan is
\* the strongest one given, and one that was hit stays hit, for every plan, profile,
\* evidence and bound, whatever stale states callers pass.
THEOREM BoundariesTighten == ProtectSpec => []OnlyTightens
<1>1. ExitInit /\ ProtectInit => ProtectInvariant
  <2> SUFFICES ASSUME ExitInit, ProtectInit PROVE ProtectInvariant
    OBVIOUS
  <2>1. DOMAIN reduced = PlanIds
    BY DEF ExitInit, PlanIds
  <2>2. IsLedger(protection) /\ protection.states = [i \in PlanIds |-> None]
    BY <2>1 DEF ProtectInit, FreshProtection, IsLedger
  <2>3. strongest \in [PlanIds -> Int] /\ handed = [i \in PlanIds |-> <<>>]
    BY <2>1 DEF ProtectInit, Original
  <2>4. StatesOnly(<<>>)
    BY NothingHeld
  <2>5. QED
    BY <2>1, <2>2, <2>3, <2>4 DEF ProtectInvariant, InForce
<1>2. ProtectInvariant /\ [ProtectNext]_<<exitVars, protectVars>> => ProtectInvariant'
  BY NextProtection
<1>3. ProtectInvariant => OnlyTightens
  <2> SUFFICES ASSUME ProtectInvariant, NEW p \in Plans, protection.states[p.id] # None
               PROVE  LET state == protection.states[p.id]
                      IN /\ p.id \in triggered => state.terminated /\ state.remaining = 0
                         /\ ~state.terminated => state.boundary = strongest[p.id]
                         /\ state.boundary >= Original
    BY DEF OnlyTightens
  <2>1. InForce(protection.states[p.id], strongest[p.id], p.id \in triggered)
    BY DEF ProtectInvariant, PlanIds
  <2>2. QED
    BY <2>1 DEF InForce, IsState
<1>4. QED
  BY <1>1, <1>2, <1>3, PTL DEF ProtectSpec

-----------------------------------------------------------------------------
(* Capacity is not given out twice.                                        *)

\* An exposure record: it is closed when nothing remains of it.
ExposureRecord ==
  {v \in [id : Nat, request : Requests, initial : Nat, remaining : Nat, risk : Nat,
          status : ExposureStatus] : v.status = "CLOSED" <=> v.remaining = 0}

\* What is granted to a request when nothing is reduced.
AsRequested(v) == v.exposure = v.request.exposure /\ v.risk = v.exposure * v.request.rate

CapacityReservation ==
  {v \in [id : Nat, request : Requests, exposure : Nat, risk : Nat,
          status : ReservationStatus, expires : Nat] : AsRequested(v)}

HeldAdmission == {d \in [request : Requests, reservation : Nat, exposure : Nat, risk : Nat] : AsRequested(d)}

\* What remains weighs the sets of records.
LEMMA RemainingFacts ==
  ASSUME NEW U, IsFiniteSet(U), \A v \in U : v.remaining \in Nat
  PROVE  \A A \in SUBSET U :
           /\ Remaining(A) \in Nat /\ \A B \in SUBSET A : Remaining(B) <= Remaining(A)
           /\ \A x \in A : Remaining(A) = x.remaining + Remaining(A \ {x})
           /\ \A x \in U : Remaining(A \cup {x}) <= x.remaining + Remaining(A)
<1> DEFINE f == [v \in U |-> v.remaining]
           g == [A \in SUBSET U |-> Remaining(A)]
<1>1. Amounts(f, U)
  BY DEF Amounts
<1>2. ASSUME NEW A \in SUBSET U PROVE g[A] = SumOver([v \in A |-> f[v]], A)
  <2>1. [v \in A |-> f[v]] = [v \in A |-> v.remaining]
    OBVIOUS
  <2>2. QED
    BY <2>1 DEF Remaining
<1>3. /\ \A A \in SUBSET U : g[A] = Remaining(A)
      /\ \A v \in U : f[v] = v.remaining
  OBVIOUS
<1> HIDE DEF f, g
<1>4. Weighs(f, U, g)
  BY <1>1, <1>2, WeighsFacts
<1>5. ASSUME NEW A \in SUBSET U
      PROVE  /\ Remaining(A) \in Nat /\ \A B \in SUBSET A : Remaining(B) <= Remaining(A)
             /\ \A x \in A : Remaining(A) = x.remaining + Remaining(A \ {x})
             /\ \A x \in U : Remaining(A \cup {x}) <= x.remaining + Remaining(A)
  <2>1. /\ \A B \in SUBSET A : B \in SUBSET U
        /\ \A x \in U : A \cup {x} \in SUBSET U /\ A \ {x} \in SUBSET U
    OBVIOUS
  <2>2. QED
    BY <1>3, <1>4, <2>1 DEF Weighs
<1>6. QED
  BY <1>5

\* The risk of records and of reservations does.
LEMMA RiskFacts ==
  ASSUME NEW U, IsFiniteSet(U), \A v \in U : v.risk \in Nat
  PROVE  \A A \in SUBSET U :
           /\ Risk(A) \in Nat /\ \A B \in SUBSET A : Risk(B) <= Risk(A)
           /\ \A x \in A : Risk(A) = x.risk + Risk(A \ {x})
           /\ \A x \in U : Risk(A \cup {x}) <= x.risk + Risk(A)
<1> DEFINE f == [v \in U |-> v.risk]
           g == [A \in SUBSET U |-> Risk(A)]
<1>1. Amounts(f, U)
  BY DEF Amounts
<1>2. ASSUME NEW A \in SUBSET U PROVE g[A] = SumOver([v \in A |-> f[v]], A)
  <2>1. [v \in A |-> f[v]] = [v \in A |-> v.risk]
    OBVIOUS
  <2>2. QED
    BY <2>1 DEF Risk
<1>3. /\ \A A \in SUBSET U : g[A] = Risk(A)
      /\ \A v \in U : f[v] = v.risk
  OBVIOUS
<1> HIDE DEF f, g
<1>4. Weighs(f, U, g)
  BY <1>1, <1>2, WeighsFacts
<1>5. ASSUME NEW A \in SUBSET U
      PROVE  /\ Risk(A) \in Nat /\ \A B \in SUBSET A : Risk(B) <= Risk(A)
             /\ \A x \in A : Risk(A) = x.risk + Risk(A \ {x})
             /\ \A x \in U : Risk(A \cup {x}) <= x.risk + Risk(A)
  <2>1. /\ \A B \in SUBSET A : B \in SUBSET U
        /\ \A x \in U : A \cup {x} \in SUBSET U /\ A \ {x} \in SUBSET U
    OBVIOUS
  <2>2. QED
    BY <1>3, <1>4, <2>1 DEF Weighs
<1>6. QED
  BY <1>5

\* So does what is reserved.
LEMMA ExposureFacts ==
  ASSUME NEW U, IsFiniteSet(U), \A v \in U : v.exposure \in Nat
  PROVE  \A A \in SUBSET U :
           /\ Exposure(A) \in Nat /\ \A B \in SUBSET A : Exposure(B) <= Exposure(A)
           /\ \A x \in A : Exposure(A) = x.exposure + Exposure(A \ {x})
           /\ \A x \in U : Exposure(A \cup {x}) <= x.exposure + Exposure(A)
<1> DEFINE f == [v \in U |-> v.exposure]
           g == [A \in SUBSET U |-> Exposure(A)]
<1>1. Amounts(f, U)
  BY DEF Amounts
<1>2. ASSUME NEW A \in SUBSET U PROVE g[A] = SumOver([v \in A |-> f[v]], A)
  <2>1. [v \in A |-> f[v]] = [v \in A |-> v.exposure]
    OBVIOUS
  <2>2. QED
    BY <2>1 DEF Exposure
<1>3. /\ \A A \in SUBSET U : g[A] = Exposure(A)
      /\ \A v \in U : f[v] = v.exposure
  OBVIOUS
<1> HIDE DEF f, g
<1>4. Weighs(f, U, g)
  BY <1>1, <1>2, WeighsFacts
<1>5. ASSUME NEW A \in SUBSET U
      PROVE  /\ Exposure(A) \in Nat /\ \A B \in SUBSET A : Exposure(B) <= Exposure(A)
             /\ \A x \in A : Exposure(A) = x.exposure + Exposure(A \ {x})
             /\ \A x \in U : Exposure(A \cup {x}) <= x.exposure + Exposure(A)
  <2>1. /\ \A B \in SUBSET A : B \in SUBSET U
        /\ \A x \in U : A \cup {x} \in SUBSET U /\ A \ {x} \in SUBSET U
    OBVIOUS
  <2>2. QED
    BY <1>3, <1>4, <2>1 DEF Weighs
<1>6. QED
  BY <1>5

\* And so does the number of members.
LEMMA CountFacts ==
  ASSUME NEW U, IsFiniteSet(U)
  PROVE  \A A \in SUBSET U :
           /\ Cardinality(A) \in Nat /\ \A B \in SUBSET A : Cardinality(B) <= Cardinality(A)
           /\ \A x \in A : Cardinality(A) = 1 + Cardinality(A \ {x})
           /\ \A x \in U : Cardinality(A \cup {x}) <= 1 + Cardinality(A)
<1> SUFFICES ASSUME NEW A \in SUBSET U
             PROVE  /\ Cardinality(A) \in Nat /\ \A B \in SUBSET A : Cardinality(B) <= Cardinality(A)
                    /\ \A x \in A : Cardinality(A) = 1 + Cardinality(A \ {x})
                    /\ \A x \in U : Cardinality(A \cup {x}) <= 1 + Cardinality(A)
  OBVIOUS
<1>1. IsFiniteSet(A) /\ Cardinality(A) \in Nat
  BY FS_Subset, FS_CardinalityType
<1>2. \A B \in SUBSET A : Cardinality(B) <= Cardinality(A)
  BY <1>1, FS_Subset
<1>3. ASSUME NEW x \in A PROVE Cardinality(A) = 1 + Cardinality(A \ {x})
  <2>1. Cardinality(A \ {x}) = Cardinality(A) - 1
    BY <1>1, OneLess
  <2>2. QED
    BY <1>1, <2>1
<1>4. ASSUME NEW x \in U PROVE Cardinality(A \cup {x}) <= 1 + Cardinality(A)
  <2>1. Cardinality(A \cup {x}) = IF x \in A THEN Cardinality(A) ELSE Cardinality(A) + 1
    BY <1>1, FS_AddElement
  <2>2. QED
    BY <1>1, <2>1
<1>5. QED
  BY <1>1, <1>2, <1>3, <1>4

\* The records A and the reservations R keep within the limits together.
Kept(A, R) ==
  /\ IsFiniteSet(A) /\ IsFiniteSet(R)
  /\ A \subseteq ExposureRecord /\ R \subseteq CapacityReservation
  /\ Remaining(A) + Exposure(R) <= MaxGross
  /\ Risk(A) + Risk(R) <= MaxRisk
  /\ Cardinality(A) + Cardinality(R) <= MaxConcurrent

\* What records weigh, set by set.
LEMMA RecordsWeigh ==
  ASSUME NEW U, IsFiniteSet(U), U \subseteq ExposureRecord, NEW A \in SUBSET U
  PROVE  /\ Remaining(A) \in Nat /\ Risk(A) \in Nat /\ Cardinality(A) \in Nat
         /\ \A B \in SUBSET A : /\ Remaining(B) <= Remaining(A) /\ Risk(B) <= Risk(A)
                                /\ Cardinality(B) <= Cardinality(A)
         /\ \A x \in A : /\ Remaining(A) = x.remaining + Remaining(A \ {x})
                         /\ Risk(A) = x.risk + Risk(A \ {x})
                         /\ Cardinality(A) = 1 + Cardinality(A \ {x})
         /\ \A x \in U : /\ Remaining(A \cup {x}) <= x.remaining + Remaining(A)
                         /\ Risk(A \cup {x}) <= x.risk + Risk(A)
                         /\ Cardinality(A \cup {x}) <= 1 + Cardinality(A)
<1>1. \A v \in U : v.remaining \in Nat /\ v.risk \in Nat
  BY DEF ExposureRecord
<1>2. QED
  BY <1>1, RemainingFacts, RiskFacts, CountFacts

\* What reservations weigh, set by set.
LEMMA ReservationsWeigh ==
  ASSUME NEW U, IsFiniteSet(U), U \subseteq CapacityReservation, NEW A \in SUBSET U
  PROVE  /\ Exposure(A) \in Nat /\ Risk(A) \in Nat /\ Cardinality(A) \in Nat
         /\ \A B \in SUBSET A : /\ Exposure(B) <= Exposure(A) /\ Risk(B) <= Risk(A)
                                /\ Cardinality(B) <= Cardinality(A)
         /\ \A x \in A : /\ Exposure(A) = x.exposure + Exposure(A \ {x})
                         /\ Risk(A) = x.risk + Risk(A \ {x})
                         /\ Cardinality(A) = 1 + Cardinality(A \ {x})
         /\ \A x \in U : /\ Exposure(A \cup {x}) <= x.exposure + Exposure(A)
                         /\ Risk(A \cup {x}) <= x.risk + Risk(A)
                         /\ Cardinality(A \cup {x}) <= 1 + Cardinality(A)
<1>1. \A v \in U : v.exposure \in Nat /\ v.risk \in Nat
  BY DEF CapacityReservation
<1>2. QED
  BY <1>1, ExposureFacts, RiskFacts, CountFacts

\* With fewer they keep within them.
LEMMA KeptFewer ==
  ASSUME NEW A, NEW R, Kept(A, R), NEW B \in SUBSET A, NEW T \in SUBSET R, PortfolioConfiguration
  PROVE  Kept(B, T)
<1>1. IsFiniteSet(B) /\ IsFiniteSet(T)
  BY FS_Subset DEF Kept
<1>2. /\ Remaining(A) \in Nat /\ Risk(A) \in Nat /\ Cardinality(A) \in Nat
      /\ Remaining(B) <= Remaining(A) /\ Risk(B) <= Risk(A) /\ Cardinality(B) <= Cardinality(A)
  BY RecordsWeigh DEF Kept
<1>3. Remaining(B) \in Nat /\ Risk(B) \in Nat /\ Cardinality(B) \in Nat
  BY RecordsWeigh DEF Kept
<1>4. /\ Exposure(R) \in Nat /\ Risk(R) \in Nat /\ Cardinality(R) \in Nat
      /\ Exposure(T) <= Exposure(R) /\ Risk(T) <= Risk(R) /\ Cardinality(T) <= Cardinality(R)
  BY ReservationsWeigh DEF Kept
<1>5. Exposure(T) \in Nat /\ Risk(T) \in Nat /\ Cardinality(T) \in Nat
  BY ReservationsWeigh DEF Kept
<1>6. MaxGross \in Nat /\ MaxRisk \in Nat /\ MaxConcurrent \in Nat
  BY DEF PortfolioConfiguration
<1>7. Remaining(B) + Exposure(T) <= MaxGross
  BY <1>2, <1>3, <1>4, <1>5, <1>6 DEF Kept
<1>8. Risk(B) + Risk(T) <= MaxRisk
  BY <1>2, <1>3, <1>4, <1>5, <1>6 DEF Kept
<1>9. Cardinality(B) + Cardinality(T) <= MaxConcurrent
  BY <1>2, <1>3, <1>4, <1>5, <1>6 DEF Kept
<1>10. QED
  BY <1>1, <1>7, <1>8, <1>9 DEF Kept

\* With a reservation more they do when there is room for it.
LEMMA KeptReserved ==
  ASSUME NEW A, NEW R, Kept(A, R), NEW v \in CapacityReservation, PortfolioConfiguration,
         v.exposure <= MaxGross - (Remaining(A) + Exposure(R)),
         v.risk <= MaxRisk - (Risk(A) + Risk(R)),
         Cardinality(A) + Cardinality(R) < MaxConcurrent
  PROVE  Kept(A, R \cup {v})
<1> DEFINE U == R \cup {v}
<1>1. IsFiniteSet(U) /\ U \subseteq CapacityReservation /\ R \in SUBSET U /\ v \in U
  BY FS_AddElement DEF Kept
<1>2. Remaining(A) \in Nat /\ Risk(A) \in Nat /\ Cardinality(A) \in Nat
  BY RecordsWeigh DEF Kept
<1> HIDE DEF U
<1>3. /\ Exposure(R) \in Nat /\ Risk(R) \in Nat /\ Cardinality(R) \in Nat
      /\ Exposure(R \cup {v}) <= v.exposure + Exposure(R) /\ Risk(R \cup {v}) <= v.risk + Risk(R)
      /\ Cardinality(R \cup {v}) <= 1 + Cardinality(R)
  BY <1>1, ReservationsWeigh
<1>4. Exposure(U) \in Nat /\ Risk(U) \in Nat /\ Cardinality(U) \in Nat
  BY <1>1, ReservationsWeigh
<1>5. MaxGross \in Nat /\ MaxRisk \in Nat /\ MaxConcurrent \in Nat /\ v.exposure \in Nat /\ v.risk \in Nat
  BY DEF PortfolioConfiguration, CapacityReservation
<1>6. Remaining(A) + Exposure(U) <= MaxGross
  BY <1>2, <1>3, <1>4, <1>5 DEF U
<1>7. Risk(A) + Risk(U) <= MaxRisk
  BY <1>2, <1>3, <1>4, <1>5 DEF U
<1>8. Cardinality(A) + Cardinality(U) <= MaxConcurrent
  BY <1>2, <1>3, <1>4, <1>5 DEF U
<1>9. QED
  BY <1>1, <1>6, <1>7, <1>8 DEF Kept, U

\* A reservation may become a record that weighs no more.
LEMMA KeptCommitted ==
  ASSUME NEW A, NEW R, Kept(A, R), NEW v \in R, NEW c \in ExposureRecord, PortfolioConfiguration,
         c.remaining <= v.exposure, c.risk <= v.risk
  PROVE  Kept(A \cup {c}, R \ {v})
<1> DEFINE U == A \cup {c}
           T == R \ {v}
<1>1. IsFiniteSet(U) /\ U \subseteq ExposureRecord /\ A \in SUBSET U /\ c \in U
  BY FS_AddElement DEF Kept
<1>2. IsFiniteSet(T) /\ T \subseteq CapacityReservation /\ T \in SUBSET R
  BY FS_Subset DEF Kept
<1> HIDE DEF U
<1>3. /\ Remaining(A) \in Nat /\ Risk(A) \in Nat /\ Cardinality(A) \in Nat
      /\ Remaining(A \cup {c}) <= c.remaining + Remaining(A) /\ Risk(A \cup {c}) <= c.risk + Risk(A)
      /\ Cardinality(A \cup {c}) <= 1 + Cardinality(A)
  BY <1>1, RecordsWeigh
<1>4. Remaining(U) \in Nat /\ Risk(U) \in Nat /\ Cardinality(U) \in Nat
  BY <1>1, RecordsWeigh
<1>5. /\ Exposure(R) = v.exposure + Exposure(R \ {v}) /\ Risk(R) = v.risk + Risk(R \ {v})
      /\ Cardinality(R) = 1 + Cardinality(R \ {v})
  BY ReservationsWeigh DEF Kept
<1> HIDE DEF T
<1>6. Exposure(T) \in Nat /\ Risk(T) \in Nat /\ Cardinality(T) \in Nat
  BY <1>2, ReservationsWeigh
<1>7. /\ MaxGross \in Nat /\ MaxRisk \in Nat /\ MaxConcurrent \in Nat
      /\ v.exposure \in Nat /\ v.risk \in Nat /\ c.remaining \in Nat /\ c.risk \in Nat
  BY DEF PortfolioConfiguration, CapacityReservation, ExposureRecord, Kept
<1>8. Remaining(U) + Exposure(T) <= MaxGross
  BY <1>3, <1>4, <1>5, <1>6, <1>7 DEF U, T, Kept
<1>9. Risk(U) + Risk(T) <= MaxRisk
  BY <1>3, <1>4, <1>5, <1>6, <1>7 DEF U, T, Kept
<1>10. Cardinality(U) + Cardinality(T) <= MaxConcurrent
  BY <1>3, <1>4, <1>5, <1>6, <1>7 DEF U, T, Kept
<1>11. QED
  BY <1>1, <1>2, <1>8, <1>9, <1>10 DEF Kept, U, T

\* A record may be replaced by one that weighs no more.
LEMMA KeptReplaced ==
  ASSUME NEW A, NEW R, Kept(A, R), NEW a \in A, NEW c \in ExposureRecord, PortfolioConfiguration,
         c.remaining <= a.remaining, c.risk <= a.risk
  PROVE  Kept((A \ {a}) \cup {c}, R)
<1> DEFINE T == A \ {a}
           U == T \cup {c}
<1>1. IsFiniteSet(T) /\ T \subseteq ExposureRecord /\ T \in SUBSET A
  BY FS_Subset DEF Kept
<1>2. /\ Remaining(A) = a.remaining + Remaining(A \ {a}) /\ Risk(A) = a.risk + Risk(A \ {a})
      /\ Cardinality(A) = 1 + Cardinality(A \ {a})
  BY RecordsWeigh DEF Kept
<1>3. Remaining(A) \in Nat /\ Risk(A) \in Nat /\ Cardinality(A) \in Nat
  BY RecordsWeigh DEF Kept
<1> HIDE DEF T
<1>4. IsFiniteSet(U) /\ U \subseteq ExposureRecord /\ T \in SUBSET U /\ c \in U
  BY <1>1, FS_AddElement
<1> HIDE DEF U
<1>5. /\ Remaining(T) \in Nat /\ Risk(T) \in Nat /\ Cardinality(T) \in Nat
      /\ Remaining(T \cup {c}) <= c.remaining + Remaining(T) /\ Risk(T \cup {c}) <= c.risk + Risk(T)
      /\ Cardinality(T \cup {c}) <= 1 + Cardinality(T)
  BY <1>4, RecordsWeigh
<1>6. Remaining(U) \in Nat /\ Risk(U) \in Nat /\ Cardinality(U) \in Nat
  BY <1>4, RecordsWeigh
<1>7. Exposure(R) \in Nat /\ Risk(R) \in Nat /\ Cardinality(R) \in Nat
  BY ReservationsWeigh DEF Kept
<1>8. /\ MaxGross \in Nat /\ MaxRisk \in Nat /\ MaxConcurrent \in Nat
      /\ a.remaining \in Nat /\ a.risk \in Nat /\ c.remaining \in Nat /\ c.risk \in Nat
  BY DEF PortfolioConfiguration, ExposureRecord, Kept
<1>9. Remaining(U) + Exposure(R) <= MaxGross
  BY <1>2, <1>3, <1>5, <1>6, <1>7, <1>8 DEF U, T, Kept
<1>10. Risk(U) + Risk(R) <= MaxRisk
  BY <1>2, <1>3, <1>5, <1>6, <1>7, <1>8 DEF U, T, Kept
<1>11. Cardinality(U) + Cardinality(R) <= MaxConcurrent
  BY <1>2, <1>3, <1>5, <1>6, <1>7, <1>8 DEF U, T, Kept
<1>12. QED
  BY <1>4, <1>9, <1>10, <1>11 DEF Kept, U, T

\* Nothing keeps within them.
LEMMA KeptNothing ==
  ASSUME PortfolioConfiguration
  PROVE  Kept({}, {})
<1>1. IsFiniteSet({}) /\ Cardinality({}) = 0
  BY FS_EmptySet
<1>2. Remaining({}) = 0 /\ Exposure({}) = 0 /\ Risk({}) = 0
  BY SumOfNothing DEF Remaining, Exposure, Risk
<1>3. MaxGross \in Nat /\ MaxRisk \in Nat /\ MaxConcurrent \in Nat
  BY DEF PortfolioConfiguration
<1>4. QED
  BY <1>1, <1>2, <1>3 DEF Kept

\* The versions that are the latest of their record, and those that are active.
LatestVersions(s) ==
  {s[k] : k \in {k \in DOMAIN s : \A j \in DOMAIN s : s[j].id = s[k].id => j <= k}}

ActiveOf(s) == {v \in LatestVersions(s) : v.status # "CLOSED" /\ v.remaining > 0}

\* The reservations that hold capacity at a time.
HeldAt(s, t) == {v \in Range(s) : v.status = "RESERVED" /\ v.expires > t}

\* A sequence is one of its members.
LEMMA RangeFacts ==
  ASSUME NEW S, NEW s \in Seq(S)
  PROVE  s \in Seq(Range(s)) /\ Range(s) \subseteq S
<1>1. DOMAIN s = 1..Len(s) /\ Len(s) \in Nat /\ \A i \in DOMAIN s : s[i] \in S
  OBVIOUS
<1>2. Range(s) \subseteq S /\ \A i \in 1..Len(s) : s[i] \in Range(s)
  BY <1>1 DEF Range
<1>3. s \in Seq(Range(s))
  <2> DEFINE R == Range(s)
  <2>1. \A i \in 1..Len(s) : s[i] \in R
    BY <1>2
  <2> HIDE DEF R
  <2>2. s \in Seq(R)
    BY <1>1, <2>1
  <2>3. QED
    BY <2>2 DEF R
<1>4. QED
  BY <1>2, <1>3

\* What is reserved, and what is active, in these terms.
LEMMA PortfolioTerms ==
  /\ Reserved(registry) = HeldAt(registry.reservations, now)
  /\ \A r : ActiveVersions(r) = ActiveOf(r.versions)
<1>1. Reserved(registry) = HeldAt(registry.reservations, now)
  BY DEF Reserved, HeldAt, Holds, Range
<1>2. \A r : ActiveVersions(r) = ActiveOf(r.versions)
  BY DEF ActiveVersions, ActiveOf, LatestVersions
<1>3. QED
  BY <1>1, <1>2

\* A version that is appended takes the place of those of its record.
LEMMA LatestAppended ==
  ASSUME NEW S, NEW s \in Seq(S), NEW e
  PROVE  LatestVersions(Append(s, e)) = {v \in LatestVersions(s) : v.id # e.id} \cup {e}
<1> DEFINE m == Append(s, e)
           n == Len(s)
           Latest(k) == \A j \in 1..n : s[j].id = s[k].id => j <= k
           After(k) == \A j \in 1..(n + 1) : m[j].id = m[k].id => j <= k
<1>1. n \in Nat /\ DOMAIN s = 1..n /\ DOMAIN m = 1..(n + 1)
  BY AppendProperties
<1>2. m[n + 1] = e /\ \A k \in 1..n : m[k] = s[k]
  BY AppendProperties
<1>3. LatestVersions(s) = {s[k] : k \in {k \in 1..n : Latest(k)}}
  BY <1>1 DEF LatestVersions
<1>4. LatestVersions(m) = {m[k] : k \in {k \in 1..(n + 1) : After(k)}}
  BY <1>1 DEF LatestVersions
<1> HIDE DEF m, n
<1>5. After(n + 1)
  BY <1>1
<1>6. ASSUME NEW k \in 1..n PROVE After(k) <=> Latest(k) /\ s[k].id # e.id
  <2>1. k \in 1..(n + 1) /\ n + 1 \in 1..(n + 1) /\ k < n + 1
    BY <1>1
  <2>2. \A j \in 1..(n + 1) : j \in 1..n \/ j = n + 1
    BY <1>1
  <2>3. \A j \in 1..n : j \in 1..(n + 1)
    BY <1>1
  <2>4. ~(n + 1 <= k)
    BY <1>1, <2>1
  <2>5. QED
    BY <1>2, <2>1, <2>2, <2>3, <2>4
<1> HIDE DEF Latest, After
<1>7. \A k \in 1..(n + 1) : k \in 1..n \/ k = n + 1
  BY <1>1
<1>8. \A k \in 1..n : k \in 1..(n + 1)
  BY <1>1
<1>9. n + 1 \in 1..(n + 1)
  BY <1>1
<1>10. LatestVersions(m) \subseteq {v \in LatestVersions(s) : v.id # e.id} \cup {e}
  BY <1>2, <1>3, <1>4, <1>6, <1>7
<1>11. {v \in LatestVersions(s) : v.id # e.id} \cup {e} \subseteq LatestVersions(m)
  BY <1>2, <1>3, <1>4, <1>5, <1>6, <1>8, <1>9
<1>12. QED
  BY <1>10, <1>11 DEF m

\* What holds capacity once a reservation is appended, put or evicted.
LEMMA HeldAtFacts ==
  ASSUME NEW s \in Seq(CapacityReservation), NEW t
  PROVE  /\ \A e : HeldAt(Append(s, e), t) \subseteq HeldAt(s, t) \cup {e}
         /\ \A e : e.status # "RESERVED" => HeldAt(Put(s, e), t) \subseteq {v \in HeldAt(s, t) : v.id # e.id}
         /\ \A l \in Nat : HeldAt(Evicted(s, l), t) \subseteq HeldAt(s, t)
<1>1. s \in Seq(Range(s))
  BY RangeFacts
<1>2. ASSUME NEW e PROVE HeldAt(Append(s, e), t) \subseteq HeldAt(s, t) \cup {e}
  <2>1. Range(s) \subseteq Range(s) \cup {e} /\ e \in Range(s) \cup {e}
    OBVIOUS
  <2> DEFINE R == Range(s) \cup {e}
             m == Append(s, e)
  <2>2. m \in Seq(R)
    <3>1. s \in Seq(R)
      BY <1>1
    <3> HIDE DEF R
    <3>2. e \in R
      BY DEF R
    <3>3. QED
      BY <3>1, <3>2
  <2>3. Range(m) \subseteq R
    <3> HIDE DEF R, m
    <3> QED
      BY <2>2, RangeFacts
  <2>4. QED
    BY <2>3 DEF HeldAt
<1>3. ASSUME NEW e, e.status # "RESERVED"
      PROVE  HeldAt(Put(s, e), t) \subseteq {v \in HeldAt(s, t) : v.id # e.id}
  <2> DEFINE R == {v \in Range(s) : v.id # e.id} \cup {e}
  <2>1. Put(s, e) \in Seq(R)
    BY <1>1, PutApart
  <2>2. Range(Put(s, e)) \subseteq R
    <3> HIDE DEF R
    <3> QED
      BY <2>1, RangeFacts
  <2>3. QED
    BY <1>3, <2>2 DEF HeldAt
<1>4. ASSUME NEW l \in Nat PROVE HeldAt(Evicted(s, l), t) \subseteq HeldAt(s, t)
  <2>1. Evicted(s, l) \in Seq(Range(s))
    BY <1>1, EvictedFacts
  <2>2. Range(Evicted(s, l)) \subseteq Range(s)
    BY <2>1, RangeFacts
  <2>3. QED
    BY <2>2 DEF HeldAt
<1>5. QED
  BY <1>2, <1>3, <1>4

\* A registry.
PortfolioRegistry ==
  [records : Seq(ExposureRecord), versions : Seq(ExposureRecord),
   reservations : Seq(CapacityReservation), complete : BOOLEAN]

\* The first n reservations were made for the requests q says, and callers hold
\* admissions of them.
PromisedTo(q, n) == {v \in CapacityReservation : v.id <= n /\ v.request = q[v.id]}

AdmittedTo(q, n) == {d \in HeldAdmission : d.reservation <= n /\ d.request = q[d.reservation]}

Promises(s, ads, n) ==
  \E q \in [Nat -> Requests \cup {None}] : s \in Seq(PromisedTo(q, n)) /\ ads \subseteq AdmittedTo(q, n)

\* The inductive invariant: records are the latest of their versions, and what
\* is active and what is reserved keep within the limits together.
CapacityAccounted(r, t, n, ads) ==
  /\ t \in Nat /\ n \in Nat /\ r \in PortfolioRegistry
  /\ Len(r.records) <= MaxRecords
  /\ r.records \in Seq(LatestVersions(r.versions))
  /\ Promises(r.reservations, ads, n)
  /\ Kept(ActiveOf(r.versions), HeldAt(r.reservations, t))

PortfolioInvariant == CapacityAccounted(registry, now, made, admitted)

\* _bound forgets the oldest records and reservations, and no version while
\* there is room for all.
LEMMA BoundFacts ==
  ASSUME NEW r, NEW S, r.records \in Seq(S), NEW T, r.reservations \in Seq(T),
         NEW V, r.versions \in Seq(V), Len(r.versions) <= 4 * MaxRecords, PortfolioConfiguration
  PROVE  /\ Bound(r).records \in Seq(S) /\ Len(Bound(r).records) <= MaxRecords
         /\ Bound(r).versions = r.versions
         /\ Bound(r).reservations \in Seq(T)
         /\ Bound(r).reservations = Evicted(r.reservations, MaxReservations)
         /\ Bound(r) = [records |-> Bound(r).records, versions |-> r.versions,
                        reservations |-> Bound(r).reservations, complete |-> r.complete]
<1>1. MaxRecords \in Nat /\ MaxReservations \in Nat /\ 4 * MaxRecords \in Nat
  BY DEF PortfolioConfiguration
<1>2. Evicted(r.records, MaxRecords) \in Seq(S) /\ Len(Evicted(r.records, MaxRecords)) <= MaxRecords
  BY <1>1, EvictedFacts
<1>3. Evicted(r.versions, 4 * MaxRecords) = r.versions
  BY DEF Evicted
<1>4. Evicted(r.reservations, MaxReservations) \in Seq(T)
  BY <1>1, EvictedFacts
<1>5. QED
  BY <1>2, <1>3, <1>4 DEF Bound

\* A registry that is empty.
LEMMA PortfolioStarts ==
  ASSUME PortfolioConfiguration, PortfolioInit
  PROVE  PortfolioInvariant
<1> DEFINE r == [records |-> <<>>, versions |-> <<>>, reservations |-> <<>>, complete |-> TRUE]
<1>1. r \in PortfolioRegistry
  BY DEF PortfolioRegistry
<1>2. /\ r.records = <<>> /\ r.versions = <<>> /\ r.reservations = <<>>
      /\ Len(r.records) = 0 /\ MaxRecords \in Nat
  BY DEF PortfolioConfiguration
<1> HIDE DEF r
<1>3. ActiveOf(r.versions) = {} /\ HeldAt(r.reservations, 0) = {}
  BY <1>2 DEF ActiveOf, LatestVersions, HeldAt, Range
<1>4. Kept(ActiveOf(r.versions), HeldAt(r.reservations, 0))
  BY <1>3, KeptNothing
<1>5. Promises(r.reservations, {}, 0)
  <2> DEFINE q == [n \in Nat |-> None]
  <2>1. q \in [Nat -> Requests \cup {None}]
    OBVIOUS
  <2> HIDE DEF q
  <2>2. <<>> \in Seq(PromisedTo(q, 0)) /\ {} \subseteq AdmittedTo(q, 0)
    OBVIOUS
  <2>3. QED
    BY <1>2, <2>1, <2>2 DEF Promises
<1>6. r.records \in Seq(LatestVersions(r.versions))
  BY <1>2
<1>7. CapacityAccounted(r, 0, 0, {})
  BY <1>1, <1>2, <1>4, <1>5, <1>6 DEF CapacityAccounted
<1>8. QED
  BY <1>7 DEF PortfolioInvariant, PortfolioInit, r

\* The invariant gives the property.
LEMMA PortfolioInvariantHolds ==
  ASSUME PortfolioConfiguration, PortfolioInvariant
  PROVE  CapacityHeld
<1> DEFINE A == ActiveOf(registry.versions)
           R == HeldAt(registry.reservations, now)
<1>1. /\ registry \in PortfolioRegistry /\ Len(registry.records) <= MaxRecords
      /\ registry.records \in Seq(LatestVersions(registry.versions)) /\ Kept(A, R)
  BY DEF PortfolioInvariant, CapacityAccounted
<1>2. registry.records \in Seq(ExposureRecord) /\ registry.reservations \in Seq(CapacityReservation)
  BY <1>1 DEF PortfolioRegistry
<1>3. PortfolioTypeOK
  <2>1. \A i \in DOMAIN registry.records : registry.records[i] \in ExposureRecord
    BY <1>2
  <2>2. \A i \in DOMAIN registry.reservations : registry.reservations[i] \in CapacityReservation
    BY <1>2
  <2>3. QED
    BY <1>1, <2>1, <2>2 DEF PortfolioTypeOK, ExposureRecord, CapacityReservation
<1>4. Open \subseteq A
  <2>1. ASSUME NEW i \in DOMAIN registry.records, registry.records[i].status # "CLOSED"
        PROVE  registry.records[i] \in A
    <3>1. registry.records[i] \in LatestVersions(registry.versions)
      <4> DEFINE L == LatestVersions(registry.versions)
      <4> HIDE DEF L
      <4>1. registry.records \in Seq(L)
        BY <1>1 DEF L
      <4>2. registry.records[i] \in L
        BY <4>1
      <4>3. QED
        BY <4>2 DEF L
    <3>2. registry.records[i] \in ExposureRecord
      BY <1>2
    <3>3. registry.records[i].remaining > 0
      BY <2>1, <3>2 DEF ExposureRecord
    <3>4. QED
      BY <2>1, <3>1, <3>3 DEF ActiveOf
  <2>2. QED
    BY <2>1 DEF Open
<1>5. Reserved(registry) = R
  BY PortfolioTerms
<1> HIDE DEF A, R
<1>6. Open \in SUBSET A /\ R \in SUBSET R
  BY <1>4
<1>7. Kept(Open, R)
  BY <1>1, <1>6, KeptFewer
<1>8. QED
  BY <1>3, <1>5, <1>7 DEF CapacityHeld, Kept

\* The reservations may change so that they hold less, and time may pass.
LEMMA FewerHeld ==
  ASSUME NEW r, NEW t, NEW n, NEW ads, CapacityAccounted(r, t, n, ads), PortfolioConfiguration,
         NEW s, NEW u \in Nat, NEW c \in BOOLEAN, NEW more, Promises(s, more, n),
         HeldAt(s, u) \subseteq HeldAt(r.reservations, t)
  PROVE  CapacityAccounted([records |-> r.records, versions |-> r.versions, reservations |-> s,
                            complete |-> c], u, n, more)
<1> DEFINE after == [records |-> r.records, versions |-> r.versions, reservations |-> s, complete |-> c]
<1>1. /\ after.records = r.records /\ after.versions = r.versions
      /\ after.reservations = s /\ after.complete = c
  OBVIOUS
<1>2. s \in Seq(CapacityReservation)
  <2>1. PICK q : s \in Seq(PromisedTo(q, n))
    BY Zenon DEF Promises
  <2>2. PromisedTo(q, n) \subseteq CapacityReservation
    BY DEF PromisedTo
  <2>3. QED
    BY <2>1, <2>2
<1>3. after \in PortfolioRegistry
  BY <1>2 DEF CapacityAccounted, PortfolioRegistry
<1> HIDE DEF after
<1>4. Kept(ActiveOf(r.versions), HeldAt(s, u))
  <2> DEFINE A == ActiveOf(r.versions)
             R == HeldAt(r.reservations, t)
             T == HeldAt(s, u)
  <2>1. Kept(A, R) /\ A \in SUBSET A /\ T \in SUBSET R
    BY DEF CapacityAccounted
  <2> HIDE DEF A, R, T
  <2>2. Kept(A, T)
    BY <2>1, KeptFewer
  <2>3. QED
    BY <2>2 DEF A, T
<1>5. QED
  BY <1>1, <1>3, <1>4 DEF CapacityAccounted, after

\* A record may be put, and reservations changed, so that they keep within the
\* limits.
LEMMA RecordPut ==
  ASSUME NEW r, NEW t, NEW n, NEW ads, CapacityAccounted(r, t, n, ads), PortfolioConfiguration,
         Len(r.versions) < 4 * MaxRecords, NEW c \in ExposureRecord, NEW s, Promises(s, ads, n),
         NEW A, NEW R, Kept(A, R), ActiveOf(Append(r.versions, c)) \subseteq A, HeldAt(s, t) \subseteq R
  PROVE  CapacityAccounted(
           Bound([records |-> Put(r.records, c), versions |-> Append(r.versions, c),
                  reservations |-> s, complete |-> r.complete]), t, n, ads)
<1> DEFINE v == Append(r.versions, c)
           L == LatestVersions(v)
           b == [records |-> Put(r.records, c), versions |-> v, reservations |-> s, complete |-> r.complete]
           after == Bound(b)
<1>1. /\ t \in Nat /\ n \in Nat /\ r.records \in Seq(ExposureRecord) /\ r.versions \in Seq(ExposureRecord)
      /\ r.complete \in BOOLEAN
  BY DEF CapacityAccounted, PortfolioRegistry
<1>2. PICK q \in [Nat -> Requests \cup {None}] :
        s \in Seq(PromisedTo(q, n)) /\ ads \subseteq AdmittedTo(q, n)
  BY Zenon DEF Promises
<1>3. v \in Seq(ExposureRecord) /\ Len(v) = Len(r.versions) + 1 /\ Len(r.versions) \in Nat
  BY <1>1
<1>4. MaxRecords \in Nat /\ Len(v) <= 4 * MaxRecords
  BY <1>3 DEF PortfolioConfiguration
<1>5. Put(r.records, c) \in Seq(L)
  <2> DEFINE K == LatestVersions(r.versions)
  <2>1. r.records \in Seq(K)
    BY DEF CapacityAccounted
  <2> HIDE DEF K
  <2>2. Put(r.records, c) \in Seq({w \in K : w.id # c.id} \cup {c})
    BY <2>1, PutApart
  <2>3. L = {w \in K : w.id # c.id} \cup {c}
    BY <1>1, LatestAppended DEF K
  <2>4. QED
    BY <2>2, <2>3
<1>6. L \subseteq ExposureRecord
  <2> HIDE DEF v
  <2>1. QED
    BY <1>3 DEF LatestVersions
<1>7. /\ b.records = Put(r.records, c) /\ b.versions = v /\ b.reservations = s /\ b.complete = r.complete
  OBVIOUS
<1> DEFINE P == PromisedTo(q, n)
<1>8. /\ after.records \in Seq(L) /\ Len(after.records) <= MaxRecords
      /\ after.versions = v /\ after.reservations \in Seq(P)
      /\ after.reservations = Evicted(s, MaxReservations)
      /\ after = [records |-> after.records, versions |-> v, reservations |-> after.reservations,
                  complete |-> r.complete]
  <2> HIDE DEF b, v, L, P
  <2>1. s \in Seq(P)
    BY <1>2 DEF P
  <2>2. QED
    BY <1>3, <1>4, <1>5, <1>7, <2>1, BoundFacts
<1>9. s \in Seq(CapacityReservation) /\ after.reservations \in Seq(CapacityReservation)
  <2>1. P \subseteq CapacityReservation
    BY DEF PromisedTo
  <2> HIDE DEF P, after
  <2>2. QED
    BY <1>2, <1>8, <2>1 DEF P
<1> HIDE DEF after
<1>10. after \in PortfolioRegistry
  <2>1. after.records \in Seq(ExposureRecord)
    <3> HIDE DEF L
    <3> QED
      BY <1>6, <1>8
  <2> HIDE DEF v
  <2>2. QED
    BY <1>1, <1>3, <1>8, <1>9, <2>1 DEF PortfolioRegistry
<1>11. Promises(after.reservations, ads, n)
  BY <1>2, <1>8, Zenon DEF Promises, P
<1>12. Kept(ActiveOf(v), HeldAt(after.reservations, t))
  <2> DEFINE B == ActiveOf(v)
             T == HeldAt(after.reservations, t)
  <2>1. MaxReservations \in Nat
    BY DEF PortfolioConfiguration
  <2>2. T \subseteq HeldAt(s, t)
    BY <1>8, <1>9, <2>1, HeldAtFacts
  <2>3. B \in SUBSET A /\ T \in SUBSET R
    BY <2>2
  <2> HIDE DEF B, T
  <2>4. Kept(B, T)
    BY <2>3, KeptFewer
  <2>5. QED
    BY <2>4 DEF B, T
<1>13. CapacityAccounted(after, t, n, ads)
  BY <1>1, <1>8, <1>10, <1>11, <1>12 DEF CapacityAccounted
<1>14. QED
  BY <1>13 DEF after

\* commit
LEMMA CommitAccounts ==
  ASSUME PortfolioConfiguration, Requests \subseteq PortfolioAdmissionRequest, PortfolioInvariant,
         Len(registry.versions) < 4 * MaxRecords, NEW d \in admitted, Commit(d)
  PROVE  PortfolioInvariant'
<1> DEFINE c == [id |-> d.request.record, request |-> d.request, initial |-> d.exposure,
                 remaining |-> d.exposure, risk |-> d.risk, status |-> "ACTIVE"]
           v == Entry(registry.reservations, d.reservation)
           s == Put(registry.reservations, [v EXCEPT !.status = "COMMITTED"])
           A == ActiveOf(registry.versions)
           R == HeldAt(registry.reservations, now)
<1>1. /\ registry \in PortfolioRegistry /\ Kept(A, R)
      /\ CapacityAccounted(registry, now, made, admitted)
      /\ Promises(registry.reservations, admitted, made)
  BY DEF PortfolioInvariant, CapacityAccounted
<1>2. /\ Held(registry.reservations, d.reservation) /\ v.status = "RESERVED" /\ v.expires > now
      /\ registry' = Bound([records |-> Put(registry.records, c), versions |-> Append(registry.versions, c),
                            reservations |-> s, complete |-> registry.complete])
      /\ now' = now /\ made' = made /\ admitted' = admitted
  BY DEF Commit, Committable, Holds
<1>3. PICK q \in [Nat -> Requests \cup {None}] :
        registry.reservations \in Seq(PromisedTo(q, made)) /\ admitted \subseteq AdmittedTo(q, made)
  BY <1>1, Zenon DEF Promises
<1>4. d \in AdmittedTo(q, made)
  BY <1>3
<1>5. v \in PromisedTo(q, made) /\ v.id = d.reservation
  <2> DEFINE P == PromisedTo(q, made)
  <2> HIDE DEF P
  <2>1. registry.reservations \in Seq(P)
    BY <1>3 DEF P
  <2>2. v \in P /\ v.id = d.reservation
    BY <1>2, <2>1, EntryFacts
  <2>3. QED
    BY <2>2 DEF P
<1>6. v \in R
  <2>1. registry.reservations \in Seq(CapacityReservation)
    BY <1>1 DEF PortfolioRegistry
  <2>2. registry.reservations \in Seq(Range(registry.reservations))
    BY <2>1, RangeFacts
  <2>3. v \in Range(registry.reservations)
    BY <1>2, <2>2, EntryFacts
  <2>4. QED
    BY <1>2, <2>3 DEF HeldAt
<1> HIDE DEF v
<1>7. /\ v.exposure = d.exposure /\ v.risk = d.risk
      /\ d.request \in Requests /\ d.exposure = d.request.exposure /\ d.risk \in Nat
  BY <1>4, <1>5 DEF AdmittedTo, PromisedTo, HeldAdmission, CapacityReservation, AsRequested
<1>8. c \in ExposureRecord
  <2>1. d.request \in PortfolioAdmissionRequest
    BY <1>7
  <2>2. d.request.record \in Nat /\ d.exposure \in Nat /\ d.exposure # 0
    BY <1>7, <2>1 DEF PortfolioAdmissionRequest
  <2>3. QED
    BY <1>7, <2>2 DEF ExposureRecord, ExposureStatus
<1>9. c.remaining = v.exposure /\ c.risk = v.risk /\ c.remaining <= v.exposure /\ c.risk <= v.risk
  <2>1. v.exposure \in Nat /\ v.risk \in Nat
    BY <1>5 DEF PromisedTo, CapacityReservation
  <2>2. QED
    BY <1>7, <2>1
<1> HIDE DEF c
<1>10. Kept(A \cup {c}, R \ {v})
  <2> HIDE DEF A, R
  <2> QED
    BY <1>1, <1>6, <1>8, <1>9, KeptCommitted
<1>11. ActiveOf(Append(registry.versions, c)) \subseteq A \cup {c}
  <2>1. registry.versions \in Seq(ExposureRecord)
    BY <1>1 DEF PortfolioRegistry
  <2>2. LatestVersions(Append(registry.versions, c)) =
          {w \in LatestVersions(registry.versions) : w.id # c.id} \cup {c}
    BY <2>1, LatestAppended
  <2>3. QED
    BY <2>2 DEF ActiveOf
<1> DEFINE e == [v EXCEPT !.status = "COMMITTED"]
<1>12. e \in PromisedTo(q, made) /\ e.id = v.id /\ e.status # "RESERVED"
  BY <1>5 DEF PromisedTo, CapacityReservation, ReservationStatus, AsRequested
<1>13. Promises(s, admitted, made)
  <2> DEFINE P == PromisedTo(q, made)
  <2> HIDE DEF P, e
  <2>1. registry.reservations \in Seq(P) /\ e \in P
    BY <1>3, <1>12 DEF P
  <2>2. Put(registry.reservations, e) \in Seq(P)
    BY <2>1, PutFacts
  <2>3. QED
    BY <1>3, <2>2, Zenon DEF Promises, P, e
<1>14. HeldAt(s, now) \subseteq R \ {v}
  <2>1. registry.reservations \in Seq(CapacityReservation)
    BY <1>1 DEF PortfolioRegistry
  <2> HIDE DEF e
  <2>2. HeldAt(Put(registry.reservations, e), now) \subseteq
          {w \in HeldAt(registry.reservations, now) : w.id # e.id}
    BY <1>12, <2>1, HeldAtFacts
  <2>3. QED
    BY <1>12, <2>2 DEF e
<1> HIDE DEF A, R, s
<1>15. CapacityAccounted(registry', now, made, admitted)
  BY <1>1, <1>2, <1>8, <1>10, <1>11, <1>13, <1>14, RecordPut
<1>16. QED
  BY <1>2, <1>15 DEF PortfolioInvariant

\* reconcile
LEMMA ReconcileAccounts ==
  ASSUME PortfolioConfiguration, PortfolioInvariant, Len(registry.versions) < 4 * MaxRecords,
         NEW id, NEW exit \in Nat, NEW risk \in Nat \cup {None}, NEW protected \in BOOLEAN,
         Reconcile(id, exit, risk, protected)
  PROVE  PortfolioInvariant'
<1> DEFINE item == Entry(registry.records, id)
           remaining == Least(item.remaining, exit)
           c == [id |-> item.id, request |-> item.request, initial |-> item.initial,
                 remaining |-> remaining,
                 risk |-> IF risk = None THEN item.risk ELSE Least(item.risk, risk),
                 status |-> ReconciledStatus(item, remaining, protected)]
           L == LatestVersions(registry.versions)
           A == ActiveOf(registry.versions)
           R == HeldAt(registry.reservations, now)
<1>1. /\ registry \in PortfolioRegistry /\ Kept(A, R) /\ registry.records \in Seq(L)
      /\ CapacityAccounted(registry, now, made, admitted)
      /\ Promises(registry.reservations, admitted, made)
  BY DEF PortfolioInvariant, CapacityAccounted
<1>2. /\ Held(registry.records, id)
      /\ registry' = Bound([records |-> Put(registry.records, c), versions |-> Append(registry.versions, c),
                            reservations |-> registry.reservations, complete |-> registry.complete])
      /\ now' = now /\ made' = made /\ admitted' = admitted
  BY DEF Reconcile
<1>3. item \in ExposureRecord
  BY <1>1, <1>2, EntryFacts DEF PortfolioRegistry
<1>4. item \in L
  <2> HIDE DEF L
  <2> QED
    BY <1>1, <1>2, EntryFacts
<1> HIDE DEF item
<1>5. /\ item.id \in Nat /\ item.request \in Requests /\ item.initial \in Nat /\ item.remaining \in Nat
      /\ item.risk \in Nat
  BY <1>3 DEF ExposureRecord
<1>6. remaining \in Nat /\ remaining <= item.remaining
  BY <1>5 DEF Least
<1> HIDE DEF remaining
<1>7. c.risk \in Nat /\ c.risk <= item.risk /\ c.remaining = remaining
  <2>1. CASE risk = None
    BY <1>5, <2>1
  <2>2. CASE risk # None
    BY <1>5, <2>2 DEF Least
  <2>3. QED
    BY <2>1, <2>2
<1>8. /\ ReconciledStatus(item, remaining, protected) \in ExposureStatus
      /\ ReconciledStatus(item, remaining, protected) = "CLOSED" <=> remaining = 0
  BY DEF ReconciledStatus, ExposureStatus
<1>9. c \in ExposureRecord /\ c.id = item.id
  BY <1>5, <1>6, <1>7, <1>8 DEF ExposureRecord
<1>10. c.status = "CLOSED" <=> c.remaining = 0
  BY <1>8
<1> HIDE DEF c
<1>11. ActiveOf(Append(registry.versions, c)) \subseteq {v \in A : v.id # c.id} \cup {c}
  <2>1. registry.versions \in Seq(ExposureRecord)
    BY <1>1 DEF PortfolioRegistry
  <2>2. LatestVersions(Append(registry.versions, c)) = {w \in L : w.id # c.id} \cup {c}
    BY <2>1, LatestAppended
  <2>3. QED
    BY <2>2 DEF ActiveOf
<1>12. \A v \in ActiveOf(Append(registry.versions, c)) : v.status # "CLOSED"
  BY DEF ActiveOf
<1>13. \E B : Kept(B, R) /\ ActiveOf(Append(registry.versions, c)) \subseteq B
  <2>1. CASE item.remaining = 0
    <3>1. c.status = "CLOSED"
      BY <1>5, <1>6, <1>7, <1>10, <2>1
    <3>2. ActiveOf(Append(registry.versions, c)) \subseteq A
      BY <1>11, <1>12, <3>1
    <3>3. QED
      BY <1>1, <3>2
  <2>2. CASE item.remaining # 0
    <3>1. item \in A
      BY <1>3, <1>4, <1>5, <2>2 DEF ActiveOf, ExposureRecord
    <3>2. ActiveOf(Append(registry.versions, c)) \subseteq (A \ {item}) \cup {c}
      BY <1>9, <1>11
    <3>3. Kept((A \ {item}) \cup {c}, R)
      <4> HIDE DEF A, R
      <4> QED
        BY <1>1, <1>6, <1>7, <1>9, <3>1, KeptReplaced
    <3>4. QED
      BY <3>2, <3>3
  <2>3. QED
    BY <2>1, <2>2
<1>14. PICK B : Kept(B, R) /\ ActiveOf(Append(registry.versions, c)) \subseteq B
  BY <1>13
<1>15. HeldAt(registry.reservations, now) \subseteq R
  OBVIOUS
<1> HIDE DEF A, R, L
<1>16. CapacityAccounted(registry', now, made, admitted)
  BY <1>1, <1>2, <1>9, <1>14, <1>15, RecordPut
<1>17. QED
  BY <1>2, <1>16 DEF PortfolioInvariant

\* assess, with a reservation that is open already
LEMMA AdmitsAgain ==
  ASSUME PortfolioConfiguration, ~Reduce, Requests \subseteq PortfolioAdmissionRequest,
         PortfolioInvariant, NEW request \in Requests, Admit(request), Existing(registry, request) # {}
  PROVE  PortfolioInvariant'
<1> DEFINE exposure == Approved(registry, request)
           risk == exposure * request.rate
           open == Existing(registry, request)
           taken == CHOOSE v \in open : \A w \in open : v.id <= w.id
           d == [request |-> request, reservation |-> taken.id, exposure |-> exposure, risk |-> risk]
<1>1. /\ registry \in PortfolioRegistry /\ CapacityAccounted(registry, now, made, admitted)
      /\ Promises(registry.reservations, admitted, made)
  BY DEF PortfolioInvariant, CapacityAccounted
<1>2. /\ exposure > 0 /\ registry' = registry /\ made' = made /\ now' = now
      /\ admitted' = admitted \cup {d}
  BY DEF Admit
<1>3. request.exposure \in Nat /\ request.rate \in Nat
  BY DEF PortfolioAdmissionRequest
<1>4. exposure = request.exposure
  BY <1>2 DEF Approved
<1>5. PICK q \in [Nat -> Requests \cup {None}] :
        registry.reservations \in Seq(PromisedTo(q, made)) /\ admitted \subseteq AdmittedTo(q, made)
  BY <1>1, Zenon DEF Promises
<1>6. open \subseteq PromisedTo(q, made) /\ \A v \in open : v.request = request
  <2> DEFINE P == PromisedTo(q, made)
  <2> HIDE DEF P
  <2>1. registry.reservations \in Seq(P)
    BY <1>5 DEF P
  <2>2. \A i \in DOMAIN registry.reservations : registry.reservations[i] \in P
    BY <2>1
  <2>3. QED
    BY <2>2 DEF P, Existing
<1> HIDE DEF open
<1>7. taken \in open
  <2> DEFINE I == {v.id : v \in open}
  <2>1. I # {} /\ I \in SUBSET Nat
    BY <1>6 DEF open, PromisedTo, CapacityReservation
  <2> HIDE DEF I
  <2>2. Min(I) \in I /\ \A m \in I : Min(I) <= m
    BY <2>1, LeastOf
  <2>3. \E v \in open : \A w \in open : v.id <= w.id
    BY <2>2 DEF I
  <2>4. QED
    BY <2>3
<1> HIDE DEF taken, exposure
<1>8. taken.id \in Nat /\ taken.id <= made /\ q[taken.id] = request
  BY <1>6, <1>7 DEF PromisedTo, CapacityReservation
<1>9. d \in AdmittedTo(q, made)
  <2>1. risk \in Nat
    BY <1>3, <1>4
  <2> HIDE DEF risk
  <2>2. d \in [request : Requests, reservation : Nat, exposure : Nat, risk : Nat]
    BY <1>3, <1>4, <1>8, <2>1
  <2>3. AsRequested(d)
    BY <1>4 DEF AsRequested, risk
  <2>4. QED
    BY <1>8, <2>2, <2>3 DEF AdmittedTo, HeldAdmission
<1>10. Promises(registry.reservations, admitted', made)
  <2>1. admitted' \subseteq AdmittedTo(q, made)
    BY <1>2, <1>5, <1>9
  <2>2. QED
    BY <1>5, <2>1, Zenon DEF Promises
<1>11. CapacityAccounted(registry, now, made, admitted')
  BY <1>1, <1>10 DEF CapacityAccounted
<1>12. QED
  BY <1>2, <1>11 DEF PortfolioInvariant

\* assess, with a new reservation
LEMMA AdmitsNew ==
  ASSUME PortfolioConfiguration, ~Reduce, Requests \subseteq PortfolioAdmissionRequest,
         PortfolioInvariant, Len(registry.versions) < 4 * MaxRecords,
         NEW request \in Requests, Admit(request), Existing(registry, request) = {}
  PROVE  PortfolioInvariant'
<1> DEFINE exposure == Approved(registry, request)
           risk == exposure * request.rate
           open == Existing(registry, request)
           new == [id |-> made + 1, request |-> request, exposure |-> exposure, risk |-> risk,
                   status |-> "RESERVED", expires |-> now + TTL]
           taken == IF open # {} THEN CHOOSE v \in open : \A w \in open : v.id <= w.id ELSE new
           d == [request |-> request, reservation |-> taken.id, exposure |-> exposure, risk |-> risk]
           all == Append(registry.reservations, new)
           b == [registry EXCEPT !.reservations = all]
           A == ActiveOf(registry.versions)
           R == HeldAt(registry.reservations, now)
<1>1. /\ registry \in PortfolioRegistry /\ Kept(A, R) /\ now \in Nat /\ made \in Nat
      /\ Promises(registry.reservations, admitted, made)
      /\ registry.records \in Seq(LatestVersions(registry.versions))
  BY DEF PortfolioInvariant, CapacityAccounted
<1>2. /\ exposure > 0 /\ risk <= RiskLeft(registry) /\ exposure <= GrossLeft(registry)
      /\ registry' = Bound(b) /\ made' = made + 1 /\ now' = now
      /\ admitted' = admitted \cup {d} /\ taken = new
  BY DEF Admit
<1>3. request.exposure \in Nat /\ request.rate \in Nat
  BY DEF PortfolioAdmissionRequest
<1>4. exposure = request.exposure /\ ~Blocked(registry, request)
  BY <1>2 DEF Approved
<1>5. risk \in Nat
  BY <1>3, <1>4
<1>6. /\ MaxGross \in Nat /\ MaxRisk \in Nat /\ MaxConcurrent \in Nat /\ TTL \in Nat
      /\ MaxRecords \in Nat /\ MaxReservations \in Nat
  BY DEF PortfolioConfiguration
<1>7. Reserved(registry) = R /\ ActiveVersions(registry) = A
  BY PortfolioTerms
<1> HIDE DEF exposure, risk, taken
<1>8. new \in CapacityReservation /\ AsRequested(new)
  <2>1. AsRequested(new)
    BY <1>4 DEF AsRequested, risk
  <2>2. new \in [id : Nat, request : Requests, exposure : Nat, risk : Nat,
                 status : ReservationStatus, expires : Nat]
    BY <1>1, <1>3, <1>4, <1>5, <1>6 DEF ReservationStatus
  <2>3. QED
    BY <2>1, <2>2 DEF CapacityReservation
<1>9. new.id = made + 1 /\ new.request = request /\ new.exposure = exposure /\ new.risk = risk
  OBVIOUS
<1> HIDE DEF new, A, R
<1>10. Kept(A, R \cup {new})
  <2>1. /\ Remaining(A) \in Nat /\ Risk(A) \in Nat /\ Exposure(R) \in Nat /\ Risk(R) \in Nat
    <3>1. /\ IsFiniteSet(A) /\ A \subseteq ExposureRecord /\ A \in SUBSET A
          /\ IsFiniteSet(R) /\ R \subseteq CapacityReservation /\ R \in SUBSET R
      BY <1>1 DEF Kept
    <3>2. QED
      BY <3>1, RecordsWeigh, ReservationsWeigh
  <2>2. new.exposure <= MaxGross - (Remaining(A) + Exposure(R))
    <3>1. exposure <= Left(MaxGross, Remaining(A) + Exposure(R))
      BY <1>2, <1>7 DEF GrossLeft
    <3>2. QED
      BY <1>2, <1>3, <1>4, <1>6, <1>9, <2>1, <3>1 DEF Left
  <2>3. new.risk <= MaxRisk - (Risk(A) + Risk(R))
    <3>1. risk <= Left(MaxRisk, Risk(A) + Risk(R))
      BY <1>2, <1>7 DEF RiskLeft
    <3>2. Risk(A) + Risk(R) <= MaxRisk
      BY <1>1 DEF Kept
    <3>3. QED
      BY <1>5, <1>6, <1>9, <2>1, <3>1, <3>2 DEF Left
  <2>4. Cardinality(A) + Cardinality(R) < MaxConcurrent
    <3>1. ~(Cardinality(A) + Cardinality(R) >= MaxConcurrent)
      BY <1>4, <1>7 DEF Blocked
    <3>2. Cardinality(A) \in Nat /\ Cardinality(R) \in Nat
      BY <1>1, FS_CardinalityType DEF Kept
    <3>3. QED
      BY <1>6, <3>1, <3>2
  <2>5. QED
    BY <1>1, <1>8, <2>2, <2>3, <2>4, KeptReserved
<1>11. PICK q \in [Nat -> Requests \cup {None}] :
        registry.reservations \in Seq(PromisedTo(q, made)) /\ admitted \subseteq AdmittedTo(q, made)
  BY <1>1, Zenon DEF Promises
<1> DEFINE p == [q EXCEPT ![made + 1] = request]
           N == made + 1
<1>12. /\ p \in [Nat -> Requests \cup {None}] /\ p[made + 1] = request
       /\ \A n \in Nat : n <= made => p[n] = q[n] /\ n <= N
  BY <1>1
<1> HIDE DEF p
<1>13. PromisedTo(q, made) \subseteq PromisedTo(p, N) /\ AdmittedTo(q, made) \subseteq AdmittedTo(p, N)
  BY <1>12 DEF PromisedTo, AdmittedTo, CapacityReservation, HeldAdmission
<1>14. new \in PromisedTo(p, N)
  BY <1>1, <1>8, <1>9, <1>12 DEF PromisedTo
<1>15. d \in AdmittedTo(p, N)
  <2>1. d \in [request : Requests, reservation : Nat, exposure : Nat, risk : Nat]
    BY <1>1, <1>2, <1>3, <1>4, <1>5, <1>9
  <2>2. AsRequested(d)
    BY <1>4 DEF AsRequested, risk
  <2>3. d.reservation <= N /\ d.request = p[d.reservation]
    BY <1>1, <1>2, <1>9, <1>12
  <2>4. QED
    BY <2>1, <2>2, <2>3 DEF AdmittedTo, HeldAdmission
<1> HIDE DEF d, N
<1> DEFINE P == PromisedTo(p, N)
           L == LatestVersions(registry.versions)
<1>16. all \in Seq(P)
  <2>1. registry.reservations \in Seq(P)
    BY <1>11, <1>13
  <2> HIDE DEF P
  <2>2. new \in P
    BY <1>14 DEF P
  <2>3. QED
    BY <2>1, <2>2
<1> HIDE DEF all
<1>17. /\ b.records = registry.records /\ b.versions = registry.versions
       /\ b.reservations = all /\ b.complete = registry.complete
  BY <1>1 DEF PortfolioRegistry
<1>18. registry.versions \in Seq(ExposureRecord) /\ Len(registry.versions) <= 4 * MaxRecords
  <2>1. registry.versions \in Seq(ExposureRecord)
    BY <1>1 DEF PortfolioRegistry
  <2>2. Len(registry.versions) \in Nat
    BY <2>1
  <2>3. QED
    BY <1>6, <2>1, <2>2
<1> DEFINE after == Bound(b)
<1>19. /\ after.records \in Seq(L) /\ Len(after.records) <= MaxRecords
       /\ after.versions = registry.versions /\ after.reservations \in Seq(P)
       /\ after.reservations = Evicted(all, MaxReservations)
       /\ after = [records |-> after.records, versions |-> registry.versions,
                   reservations |-> after.reservations, complete |-> registry.complete]
  <2> HIDE DEF b, L, P
  <2>1. b.records \in Seq(L)
    BY <1>1, <1>17 DEF L
  <2>2. QED
    BY <1>16, <1>17, <1>18, <2>1, BoundFacts
<1> HIDE DEF b, after
<1>20. P \subseteq CapacityReservation /\ L \subseteq ExposureRecord
  BY <1>18 DEF PromisedTo, LatestVersions
<1>21. all \in Seq(CapacityReservation) /\ after.reservations \in Seq(CapacityReservation)
  <2> HIDE DEF P
  <2> QED
    BY <1>16, <1>19, <1>20
<1>22. after \in PortfolioRegistry
  <2>1. after.records \in Seq(ExposureRecord)
    <3> HIDE DEF L
    <3> QED
      BY <1>19, <1>20
  <2>2. registry.complete \in BOOLEAN
    BY <1>1 DEF PortfolioRegistry
  <2>3. QED
    BY <1>18, <1>19, <1>21, <2>1, <2>2 DEF PortfolioRegistry
<1>23. Promises(after.reservations, admitted', N)
  <2>1. admitted' \subseteq AdmittedTo(p, N)
    BY <1>2, <1>11, <1>13, <1>15
  <2>2. QED
    BY <1>12, <1>19, <2>1, Zenon DEF Promises
<1>24. Kept(A, HeldAt(after.reservations, now))
  <2> DEFINE T == HeldAt(after.reservations, now)
  <2>1. T \subseteq HeldAt(all, now)
    BY <1>6, <1>19, <1>21, HeldAtFacts
  <2>2. HeldAt(all, now) \subseteq R \cup {new}
    <3>1. registry.reservations \in Seq(CapacityReservation)
      BY <1>1 DEF PortfolioRegistry
    <3>2. QED
      BY <3>1, HeldAtFacts DEF all, R
  <2>3. T \in SUBSET (R \cup {new}) /\ A \in SUBSET A
    BY <2>1, <2>2
  <2> HIDE DEF T
  <2>4. Kept(A, T)
    BY <1>10, <2>3, KeptFewer
  <2>5. QED
    BY <2>4 DEF T
<1>25. N \in Nat
  BY <1>1 DEF N
<1>26. CapacityAccounted(after, now, N, admitted')
  BY <1>1, <1>19, <1>22, <1>23, <1>24, <1>25 DEF CapacityAccounted, A
<1>27. QED
  BY <1>2, <1>26 DEF PortfolioInvariant, after, N

\* release, expire_reservations, detect_inconsistencies, a restart, and time
LEMMA OthersAccount ==
  ASSUME PortfolioConfiguration, PortfolioInvariant,
         (\E n \in 1..MaxMade : Release(n)) \/ ExpireReservations \/ DetectInconsistencies
           \/ RestartRegistry \/ Pass
  PROVE  PortfolioInvariant'
<1> DEFINE s == registry.reservations
<1>1. /\ registry \in PortfolioRegistry /\ now \in Nat
      /\ CapacityAccounted(registry, now, made, admitted) /\ Promises(s, admitted, made)
  BY DEF PortfolioInvariant, CapacityAccounted
<1>2. /\ s \in Seq(CapacityReservation) /\ registry.complete \in BOOLEAN
      /\ \A u : [registry EXCEPT !.reservations = u] =
                  [records |-> registry.records, versions |-> registry.versions,
                   reservations |-> u, complete |-> registry.complete]
      /\ [registry EXCEPT !.complete = FALSE] =
           [records |-> registry.records, versions |-> registry.versions,
            reservations |-> s, complete |-> FALSE]
      /\ registry = [records |-> registry.records, versions |-> registry.versions,
                     reservations |-> s, complete |-> registry.complete]
  <2>1. s \in Seq(CapacityReservation) /\ registry.complete \in BOOLEAN
    BY <1>1 DEF PortfolioRegistry
  <2>2. \A u : [registry EXCEPT !.reservations = u] =
               [records |-> registry.records, versions |-> registry.versions,
                reservations |-> u, complete |-> registry.complete]
    BY <1>1 DEF PortfolioRegistry
  <2>3. [registry EXCEPT !.complete = FALSE] =
          [records |-> registry.records, versions |-> registry.versions,
           reservations |-> s, complete |-> FALSE]
    <3>1. \A c : [registry EXCEPT !.complete = c] =
                 [records |-> registry.records, versions |-> registry.versions,
                  reservations |-> s, complete |-> c]
      BY <1>1 DEF PortfolioRegistry
    <3>2. QED
      BY <3>1, Zenon
  <2>4. registry = [records |-> registry.records, versions |-> registry.versions,
                    reservations |-> s, complete |-> registry.complete]
    BY <1>1 DEF PortfolioRegistry
  <2>5. QED
    BY <2>1, <2>2, <2>3, <2>4
<1>3. PICK q \in [Nat -> Requests \cup {None}] :
        s \in Seq(PromisedTo(q, made)) /\ admitted \subseteq AdmittedTo(q, made)
  BY <1>1, Zenon DEF Promises
<1> DEFINE P == PromisedTo(q, made)
<1>4. ASSUME NEW n, Release(n) PROVE PortfolioInvariant'
  <2> DEFINE v == Entry(s, n)
             e == [v EXCEPT !.status = "RELEASED"]
             u == Put(s, e)
  <2>1. /\ registry' = [registry EXCEPT !.reservations = u] /\ Held(s, n)
        /\ now' = now /\ made' = made /\ admitted' = admitted
    BY <1>4 DEF Release
  <2>2. v \in P
    <3> HIDE DEF P
    <3>1. s \in Seq(P)
      BY <1>3 DEF P
    <3>2. QED
      BY <2>1, <3>1, EntryFacts
  <2> HIDE DEF v
  <2>3. e \in P /\ e.status # "RESERVED"
    BY <2>2 DEF PromisedTo, CapacityReservation, ReservationStatus, AsRequested
  <2> HIDE DEF e
  <2>4. u \in Seq(P)
    <3> HIDE DEF P
    <3>1. s \in Seq(P)
      BY <1>3 DEF P
    <3>2. QED
      BY <2>3, <3>1, PutFacts
  <2>5. Promises(u, admitted, made)
    BY <1>3, <2>4, Zenon DEF Promises
  <2>6. HeldAt(u, now) \subseteq HeldAt(s, now)
    BY <1>2, <2>3, HeldAtFacts
  <2> HIDE DEF u
  <2>7. CapacityAccounted([records |-> registry.records, versions |-> registry.versions,
                           reservations |-> u, complete |-> registry.complete], now, made, admitted)
    BY <1>1, <1>2, <2>5, <2>6, FewerHeld
  <2>8. QED
    BY <1>2, <2>1, <2>7 DEF PortfolioInvariant
<1>5. CASE ExpireReservations
  <2> DEFINE u == [i \in DOMAIN s |-> IF s[i].status = "RESERVED" /\ ~Holds(s[i])
                                      THEN [s[i] EXCEPT !.status = "EXPIRED"] ELSE s[i]]
  <2>1. /\ registry' = [registry EXCEPT !.reservations = u]
        /\ now' = now /\ made' = made /\ admitted' = admitted
    BY <1>5 DEF ExpireReservations
  <2>2. \A i \in DOMAIN s : s[i] \in P
    <3> HIDE DEF P
    <3>1. s \in Seq(P)
      BY <1>3 DEF P
    <3>2. QED
      BY <3>1
  <2>3. DOMAIN s = 1..Len(s) /\ Len(s) \in Nat
    BY <1>2
  <2>4. \A i \in DOMAIN s : u[i] \in P /\ (u[i].status = "RESERVED" => u[i] = s[i])
    BY <2>2 DEF PromisedTo, CapacityReservation, ReservationStatus, AsRequested
  <2>5. DOMAIN u = DOMAIN s /\ u = [i \in 1..Len(s) |-> u[i]]
    BY <2>3
  <2> HIDE DEF u
  <2>6. u \in Seq(P)
    <3> HIDE DEF P
    <3>1. u \in [1..Len(s) -> P]
      BY <2>3, <2>4, <2>5
    <3>2. QED
      BY <2>3, <3>1
  <2>7. Promises(u, admitted, made)
    BY <1>3, <2>6, Zenon DEF Promises
  <2>8. HeldAt(u, now) \subseteq HeldAt(s, now)
    BY <2>4, <2>5 DEF HeldAt, Range
  <2>9. CapacityAccounted([records |-> registry.records, versions |-> registry.versions,
                           reservations |-> u, complete |-> registry.complete], now, made, admitted)
    BY <1>1, <1>2, <2>7, <2>8, FewerHeld
  <2>10. QED
    BY <1>2, <2>1, <2>9 DEF PortfolioInvariant
<1>6. CASE DetectInconsistencies
  <2>1. /\ registry' = [registry EXCEPT !.complete = FALSE]
        /\ now' = now /\ made' = made /\ admitted' = admitted
    BY <1>6 DEF DetectInconsistencies
  <2>2. CapacityAccounted([records |-> registry.records, versions |-> registry.versions,
                           reservations |-> s, complete |-> FALSE], now, made, admitted)
    BY <1>1, FewerHeld
  <2>3. QED
    BY <1>2, <2>1, <2>2 DEF PortfolioInvariant
<1>7. CASE RestartRegistry
  <2>1. registry' = registry /\ now' = now /\ made' = made /\ admitted' = {}
    BY <1>7 DEF RestartRegistry
  <2>2. Promises(s, {}, made)
    <3>1. {} \subseteq AdmittedTo(q, made)
      OBVIOUS
    <3>2. QED
      BY <1>3, <3>1, Zenon DEF Promises
  <2>3. CapacityAccounted(registry, now, made, {})
    BY <1>1, <2>2 DEF CapacityAccounted
  <2>4. QED
    BY <2>1, <2>3 DEF PortfolioInvariant
<1>8. CASE Pass
  <2>1. registry' = registry /\ now' = now + 1 /\ made' = made /\ admitted' = admitted
    BY <1>8 DEF Pass
  <2>2. HeldAt(s, now + 1) \subseteq HeldAt(s, now)
    <3>1. \A v \in Range(s) : v.expires \in Nat
      BY <1>2, RangeFacts DEF CapacityReservation
    <3>2. QED
      BY <1>1, <3>1 DEF HeldAt
  <2>3. now + 1 \in Nat
    BY <1>1
  <2>4. CapacityAccounted([records |-> registry.records, versions |-> registry.versions,
                           reservations |-> s, complete |-> registry.complete], now + 1, made, admitted)
    BY <1>1, <1>2, <2>2, <2>3, FewerHeld
  <2>5. QED
    BY <1>2, <2>1, <2>4 DEF PortfolioInvariant
<1>9. QED
  BY <1>4, <1>5, <1>6, <1>7, <1>8

\* Docs/PROMPT_22_DELIVERY_REPORT.md: "reservations cannot double-spend
\* capacity".  Where requests are admitted whole or not at all, and for as long
\* as no version of a record has been forgotten, open records and reservations
\* keep within the limits together.
THEOREM CapacityIsHeld ==
  ASSUME ~Reduce
  PROVE  PortfolioSpec /\ [](Len(registry.versions) < 4 * MaxRecords) => []CapacityHeld
<1> DEFINE Room == Len(registry.versions) < 4 * MaxRecords
<1>1. /\ PortfolioConfiguration /\ Requests \subseteq PortfolioAdmissionRequest
      /\ \A says \in Remains : /\ says.exit \in Nat /\ says.risk \in Nat \cup {None}
                               /\ says.protected \in BOOLEAN
  BY PortfolioAssumption
<1>2. PortfolioInit => PortfolioInvariant
  BY <1>1, PortfolioStarts
<1>3. PortfolioInvariant /\ Room /\ [PortfolioNext]_portfolioVars => PortfolioInvariant'
  <2> SUFFICES ASSUME PortfolioInvariant, Room, [PortfolioNext]_portfolioVars
               PROVE  PortfolioInvariant'
    OBVIOUS
  <2>1. ASSUME NEW r \in Requests, Admit(r) PROVE PortfolioInvariant'
    BY <1>1, <2>1, AdmitsAgain, AdmitsNew
  <2>2. ASSUME NEW d \in admitted, Commit(d) PROVE PortfolioInvariant'
    BY <1>1, <2>2, CommitAccounts
  <2>3. ASSUME NEW r \in Requests, NEW says \in Remains,
               Reconcile(r.record, says.exit, says.risk, says.protected)
        PROVE  PortfolioInvariant'
    BY <1>1, <2>3, ReconcileAccounts
  <2>4. CASE (\E n \in 1..MaxMade : Release(n)) \/ ExpireReservations \/ DetectInconsistencies
               \/ RestartRegistry \/ Pass
    BY <1>1, <2>4, OthersAccount
  <2>5. CASE UNCHANGED portfolioVars
    BY <2>5 DEF portfolioVars, PortfolioInvariant
  <2>6. QED
    BY <2>1, <2>2, <2>3, <2>4, <2>5 DEF PortfolioNext
<1>4. PortfolioInvariant => CapacityHeld
  BY <1>1, PortfolioInvariantHolds
<1> HIDE DEF Room
<1>5. PortfolioSpec /\ []Room => []CapacityHeld
  BY <1>2, <1>3, <1>4, PTL DEF PortfolioSpec
<1>6. QED
  BY <1>5 DEF Room

-----------------------------------------------------------------------------
(* Strategy health: what is published gets better when that was confirmed. *)

ProfileIds == {p.id : p \in Profiles}

\* What is published of a profile.
IsPublished(e) ==
  /\ e = [id |-> e.id, state |-> e.state, worse |-> e.worse, better |-> e.better,
          until |-> e.until, set |-> e.set]
  /\ e.state \in StrategyHealthState /\ e.worse \in Nat /\ e.better \in Nat
  /\ e.until \in Nat \cup {None}

\* What an evaluation of a profile was.
IsEvaluation(x) == x.raw \in StrategyHealthState /\ x.state \in StrategyHealthState /\ x.at \in Time

IsHistory(seen) == \E S : seen \in Seq(S) /\ \A s \in S : IsEvaluation(s)

\* The deteriorations up to the n-th evaluation that start a cooldown.
Falls(seen, n) ==
  {k \in 2..n : seen[k].state > seen[k - 1].state /\ seen[k].raw \notin {STALE, CRITICAL}}

\* k is the latest of them.
LatestFall(seen, n, k) == k \in Falls(seen, n) /\ \A j \in Falls(seen, n) : j <= k

\* What AllocationEarned says of the n-th evaluation.
Earned(seen, n) ==
  /\ seen[n].raw = CRITICAL \/ Worse(seen, n, DeteriorationCount) => seen[n].state = seen[n].raw
  /\ seen[n].state < seen[n - 1].state /\ seen[n].raw # STALE =>
       /\ Better(seen, n, RecoveryCount)
       /\ \A k : LatestFall(seen, n - 1, k) => seen[n].at >= seen[k].at + HealthCooldown

\* What is published is what the evaluations led to: its counters are the evaluations
\* in a row that were worse and better, and its cooldown is that of the latest fall.
Linked(e, seen) ==
  LET n == Len(seen)
  IN /\ n > 0 /\ e.state = seen[n].state
     /\ \A c \in Nat : Worse(seen, n, c) => e.worse >= c
     /\ Better(seen, n, e.better)
     /\ Falls(seen, n) = {} => e.until = None
     /\ Falls(seen, n) # {} =>
          \E k : LatestFall(seen, n, k) /\ e.until = seen[k].at + HealthCooldown

\* What is published are such entries, of the profiles.
Listed(store, seen) ==
  \E S : /\ store \in Seq(S)
         /\ \A s \in S : IsPublished(s) /\ s.id \in ProfileIds /\ Linked(s, seen[s.id])

\* A strategy that is suspended gets nothing, and none more than it asks for.
Restrained(a) ==
  /\ a.exposure <= a.upstream
  /\ CRITICAL \in {a.state, a.family} => a.exposure = 0

\* The inductive invariant.
HealthInvariant ==
  /\ health = [outcomes |-> health.outcomes, published |-> health.published,
               snapshots |-> health.snapshots, restricted |-> health.restricted]
  /\ Listed(health.published, published)
  /\ \A x \in health.snapshots : x.state \in StrategyHealthState
  /\ DOMAIN published = ProfileIds
  /\ \A i \in ProfileIds :
       /\ IsHistory(published[i])
       /\ \A n \in 2..Len(published[i]) : Earned(published[i], n)
       /\ ~Held(health.published, i) => published[i] = <<>>
  /\ allocated # None => Restrained(allocated)

\* The constants.
LEMMA HealthConstants ==
  /\ DeteriorationCount \in Nat /\ DeteriorationCount > 0 /\ RecoveryCount \in Nat /\ RecoveryCount > 0
  /\ HealthCooldown \in Nat /\ MaxTime \in Nat /\ Windows # {}
BY StrategyHealthAssumption, EvidenceAssumption DEF StrategyHealthConfiguration

\* The multipliers are percentages.
LEMMA FourMultipliers == \A k \in 1..4 : Multipliers[k] \in 0..100
<1>1. StrategyHealthConfiguration
  BY StrategyHealthAssumption
<1>2. Multipliers \in Seq(Percent) /\ Len(Multipliers) = 4
  BY <1>1, Zenon DEF StrategyHealthConfiguration
<1>3. \A k \in 1..Len(Multipliers) : Multipliers[k] \in Percent
  BY <1>2, ElementOfSeq
<1>4. QED
  BY <1>2, <1>3 DEF Percent

\* What the windows are classified as is a state.
LEMMA RawFacts ==
  ASSUME NEW p, NEW items, NEW asOf
  PROVE  Raw(p, items, asOf) \in StrategyHealthState
<1> DEFINE selected(w) == SubSeq(items, Greatest(1, Len(items) - w.completed + 1), Len(items))
           state(w) == IF Len(selected(w)) < Greatest(w.minimum, p.minimum) THEN INSUFFICIENT
                       ELSE Classified(selected(w))
           S == {state(w) : w \in Windows}
<1>1. \A x : Classified(x) \in {0, 2, 3, 7}
  <2> SUFFICES ASSUME NEW x PROVE Classified(x) \in {0, 2, 3, 7}
    OBVIOUS
  <2>1. Classified(x) \in {CRITICAL, DEFENSIVE, 2, HEALTHY}
    BY Zenon DEF Classified
  <2>2. QED
    BY <2>1 DEF CRITICAL, DEFENSIVE, HEALTHY
<1>2. S \subseteq {0, 1, 2, 3, 7} /\ S # {}
  <2> HIDE DEF selected
  <2>1. \A w : state(w) \in {0, 1, 2, 3, 7}
    BY <1>1 DEF INSUFFICIENT
  <2>2. QED
    BY <2>1, HealthConstants
<1>3. Raw(p, items, asOf) = IF items # <<>> /\ asOf - Last(items).known > StaleAfter THEN STALE ELSE Max(S)
  BY DEF Raw
<1> HIDE DEF S
<1>4. \E x \in S : \A y \in S : x >= y
  <2>1. CASE 7 \in S
    BY <1>2, <2>1
  <2>2. CASE 7 \notin S /\ 3 \in S
    BY <1>2, <2>2
  <2>3. CASE 7 \notin S /\ 3 \notin S /\ 2 \in S
    BY <1>2, <2>3
  <2>4. CASE 7 \notin S /\ 3 \notin S /\ 2 \notin S /\ 1 \in S
    BY <1>2, <2>4
  <2>5. CASE S \subseteq {0}
    <3>1. \A x, y \in S : x >= y
      BY <2>5
    <3>2. QED
      BY <1>2, <3>1
  <2>6. 7 \in S \/ 3 \in S \/ 2 \in S \/ 1 \in S \/ S \subseteq {0}
    BY <1>2
  <2>7. QED
    BY <2>1, <2>2, <2>3, <2>4, <2>5, <2>6
<1>5. Max(S) \in S
  BY <1>4 DEF Max
<1>6. Raw(p, items, asOf) = STALE \/ Raw(p, items, asOf) = Max(S)
  BY <1>3, Zenon
<1>7. Max(S) \in {0, 1, 2, 3, 7}
  BY <1>2, <1>5
<1>8. QED
  BY <1>6, <1>7 DEF StrategyHealthState, STALE

\* new follows old after an evaluation: the counters move, and the state only as
\* they, the raw state and the cooldown say.
Follows(new, old, raw, asOf) ==
  /\ new.id = old.id
  /\ new.worse = (IF raw > old.state THEN old.worse + 1 ELSE 0)
  /\ new.better = (IF raw < old.state THEN old.better + 1 ELSE 0)
  /\ \/ raw \in {STALE, CRITICAL} /\ new.state = raw /\ new.until = old.until
     \/ /\ raw \notin {STALE, CRITICAL} /\ new.worse >= DeteriorationCount
        /\ new.state = raw /\ new.until = asOf + HealthCooldown
     \/ /\ raw \notin {STALE, CRITICAL} /\ new.worse < DeteriorationCount
        /\ new.better >= RecoveryCount /\ (old.until = None \/ asOf >= old.until)
        /\ new.state = raw /\ new.until = old.until
     \/ /\ raw \notin {STALE, CRITICAL} /\ new.worse < DeteriorationCount
        /\ new.state = old.state /\ new.until = old.until

\* _transition moves in that way.
LEMMA MovedFacts ==
  ASSUME NEW old, IsPublished(old), NEW raw \in StrategyHealthState, NEW set, NEW asOf \in Time
  PROVE  IsPublished(Moved(old, raw, set, asOf)) /\ Follows(Moved(old, raw, set, asOf), old, raw, asOf)
<1> DEFINE worse == IF raw > old.state THEN old.worse + 1 ELSE 0
           better == IF raw < old.state THEN old.better + 1 ELSE 0
           same == [old EXCEPT !.worse = worse, !.better = better, !.set = set]
           Of(state, until) == [id |-> old.id, state |-> state, worse |-> worse, better |-> better,
                                until |-> until, set |-> set]
<1>1. worse \in Nat /\ better \in Nat
  BY DEF IsPublished
<1>2. DOMAIN old = {"id", "state", "worse", "better", "until", "set"}
  BY DEF IsPublished
<1> HIDE DEF worse, better
<1>3. same = Of(old.state, old.until)
  <2>1. same = [f \in DOMAIN old |-> IF f = "worse" THEN worse ELSE IF f = "better" THEN better
                                     ELSE IF f = "set" THEN set ELSE old[f]]
    BY <1>2
  <2> HIDE DEF same
  <2>2. QED
    BY <1>2, <2>1
<1>4. /\ [same EXCEPT !.state = raw] = Of(raw, old.until)
      /\ [same EXCEPT !.state = raw, !.until = asOf + HealthCooldown] = Of(raw, asOf + HealthCooldown)
  <2> DEFINE m == [same EXCEPT !.state = raw]
             n == [same EXCEPT !.state = raw, !.until = asOf + HealthCooldown]
  <2> HIDE DEF same
  <2>1. DOMAIN same = {"id", "state", "worse", "better", "until", "set"}
    BY <1>3
  <2>2. /\ m = [f \in DOMAIN same |-> IF f = "state" THEN raw ELSE same[f]]
        /\ n = [f \in DOMAIN same |-> IF f = "state" THEN raw
                                      ELSE IF f = "until" THEN asOf + HealthCooldown ELSE same[f]]
    BY <2>1
  <2>3. /\ same["id"] = old.id /\ same["worse"] = worse /\ same["better"] = better
        /\ same["until"] = old.until /\ same["set"] = set
    BY <1>3
  <2> HIDE DEF m, n
  <2>4. m = Of(raw, old.until)
    BY <2>1, <2>2, <2>3
  <2>5. n = Of(raw, asOf + HealthCooldown)
    BY <2>1, <2>2, <2>3
  <2>6. QED
    BY <2>4, <2>5 DEF m, n
<1>5. Moved(old, raw, set, asOf) =
        IF raw \in {STALE, CRITICAL} THEN Of(raw, old.until)
        ELSE IF worse >= DeteriorationCount THEN Of(raw, asOf + HealthCooldown)
        ELSE IF better >= RecoveryCount /\ (old.until = None \/ asOf >= old.until)
             THEN Of(raw, old.until)
        ELSE Of(old.state, old.until)
  <2> HIDE DEF same, Of
  <2>1. QED
    BY <1>3, <1>4, Zenon DEF Moved, same, worse, better
<1>6. asOf + HealthCooldown \in Nat
  BY HealthConstants DEF Time
<1>7. old.state \in StrategyHealthState /\ old.until \in Nat \cup {None}
  BY DEF IsPublished
<1>8. \A st \in StrategyHealthState, u \in Nat \cup {None} : IsPublished(Of(st, u))
  BY <1>1 DEF IsPublished
<1>9. IsPublished(Moved(old, raw, set, asOf))
  <2> HIDE DEF Of
  <2>1. QED
    BY <1>5, <1>6, <1>7, <1>8
<1>10. \A st, u : /\ Of(st, u).id = old.id /\ Of(st, u).worse = worse /\ Of(st, u).better = better
                 /\ Of(st, u).state = st /\ Of(st, u).until = u
  OBVIOUS
<1> HIDE DEF Of
<1>11. /\ worse = (IF raw > old.state THEN old.worse + 1 ELSE 0)
       /\ better = (IF raw < old.state THEN old.better + 1 ELSE 0)
  BY DEF worse, better
<1> DEFINE new == Moved(old, raw, set, asOf)
<1>12. CASE raw \in {STALE, CRITICAL}
  <2>1. new = Of(raw, old.until)
    BY <1>5, <1>12
  <2> HIDE DEF new
  <2>2. Follows(new, old, raw, asOf)
    BY <1>10, <1>11, <1>12, <2>1 DEF Follows
  <2>3. QED
    BY <1>9, <2>2 DEF new
<1>13. CASE raw \notin {STALE, CRITICAL} /\ worse >= DeteriorationCount
  <2>1. new = Of(raw, asOf + HealthCooldown)
    BY <1>5, <1>13
  <2> HIDE DEF new
  <2>2. Follows(new, old, raw, asOf)
    BY <1>10, <1>11, <1>13, <2>1 DEF Follows
  <2>3. QED
    BY <1>9, <2>2 DEF new
<1>14. CASE raw \notin {STALE, CRITICAL} /\ ~(worse >= DeteriorationCount)
  <2>1. worse < DeteriorationCount
    BY <1>1, <1>14, HealthConstants
  <2>2. CASE better >= RecoveryCount /\ (old.until = None \/ asOf >= old.until)
    <3>1. new = Of(raw, old.until)
      BY <1>5, <1>14, <2>2
    <3> HIDE DEF new
    <3>2. Follows(new, old, raw, asOf)
      BY <1>10, <1>11, <1>14, <2>1, <2>2, <3>1 DEF Follows
    <3>3. QED
      BY <1>9, <3>2 DEF new
  <2>3. CASE ~(better >= RecoveryCount /\ (old.until = None \/ asOf >= old.until))
    <3>1. new = Of(old.state, old.until)
      BY <1>5, <1>14, <2>3
    <3> HIDE DEF new
    <3>2. Follows(new, old, raw, asOf)
      BY <1>10, <1>11, <1>14, <2>1, <3>1 DEF Follows
    <3>3. QED
      BY <1>9, <3>2 DEF new
  <2>4. QED
    BY <2>2, <2>3
<1>15. QED
  BY <1>12, <1>13, <1>14

\* An evaluation more: the earlier ones say what they said.
LEMMA EarlierEvaluations ==
  ASSUME NEW S, NEW seen \in Seq(S), \A s \in S : IsEvaluation(s), NEW x
  PROVE  LET more == Append(seen, x) IN
         /\ \A n \in 1..Len(seen) : Falls(more, n) = Falls(seen, n)
         /\ \A n \in 1..Len(seen), c \in Nat : Worse(more, n, c) <=> Worse(seen, n, c)
         /\ \A n \in 1..Len(seen), c \in Nat : Better(more, n, c) <=> Better(seen, n, c)
<1> DEFINE more == Append(seen, x)
<1>1. Len(seen) \in Nat /\ \A k \in 1..Len(seen) : more[k] = seen[k]
  OBVIOUS
<1> HIDE DEF more
<1>2. ASSUME NEW n \in 1..Len(seen) PROVE Falls(more, n) = Falls(seen, n)
  <2>1. \A k \in 2..n : more[k] = seen[k] /\ more[k - 1] = seen[k - 1]
    BY <1>1
  <2>2. QED
    BY <2>1 DEF Falls
<1>3. ASSUME NEW n \in 1..Len(seen), NEW c \in Nat
      PROVE  /\ Worse(more, n, c) <=> Worse(seen, n, c)
             /\ Better(more, n, c) <=> Better(seen, n, c)
  <2>1. CASE n > c
    <3>1. \A k \in (n - c + 1)..n : k \in 1..Len(seen) /\ k - 1 \in 1..Len(seen)
      BY <1>1, <2>1
    <3>2. \A k \in (n - c + 1)..n : more[k] = seen[k] /\ more[k - 1] = seen[k - 1]
      BY <1>1, <3>1
    <3>3. QED
      BY <3>2 DEF Worse, Better
  <2>2. CASE ~(n > c)
    BY <2>2 DEF Worse, Better
  <2>3. QED
    BY <2>1, <2>2
<1>4. QED
  BY <1>2, <1>3 DEF more

\* What was earned stays earned.
LEMMA StaysEarned ==
  ASSUME NEW S, NEW seen \in Seq(S), \A s \in S : IsEvaluation(s), NEW x,
         NEW n \in 2..Len(seen), Earned(seen, n)
  PROVE  Earned(Append(seen, x), n)
<1> DEFINE more == Append(seen, x)
<1>1. /\ Len(seen) \in Nat /\ n \in 1..Len(seen) /\ n - 1 \in 1..Len(seen)
      /\ \A k \in 1..Len(seen) : more[k] = seen[k]
  OBVIOUS
<1>2. /\ Falls(more, n - 1) = Falls(seen, n - 1)
      /\ Worse(more, n, DeteriorationCount) <=> Worse(seen, n, DeteriorationCount)
      /\ Better(more, n, RecoveryCount) <=> Better(seen, n, RecoveryCount)
  BY <1>1, EarlierEvaluations, HealthConstants
<1> HIDE DEF more
<1>3. \A k : LatestFall(more, n - 1, k) => LatestFall(seen, n - 1, k) /\ more[k] = seen[k]
  <2>1. ASSUME NEW k, LatestFall(more, n - 1, k) PROVE LatestFall(seen, n - 1, k) /\ more[k] = seen[k]
    <3>1. k \in Falls(seen, n - 1) /\ LatestFall(seen, n - 1, k)
      BY <1>2, <2>1 DEF LatestFall
    <3>2. k \in 1..Len(seen)
      BY <1>1, <3>1 DEF Falls
    <3>3. QED
      BY <1>1, <3>1, <3>2
  <2>2. QED
    BY <2>1
<1>4. more[n] = seen[n] /\ more[n - 1] = seen[n - 1]
  BY <1>1
<1>5. Earned(more, n)
  BY <1>2, <1>3, <1>4 DEF Earned
<1>6. QED
  BY <1>5 DEF more

\* What follows what is published is earned, and is published with it.
LEMMA FollowsEarned ==
  ASSUME NEW S, NEW seen \in Seq(S), \A s \in S : IsEvaluation(s),
         NEW old, IsPublished(old), Linked(old, seen),
         NEW raw \in StrategyHealthState, NEW asOf \in Time,
         NEW new, IsPublished(new), Follows(new, old, raw, asOf),
         NEW x, x.raw = raw, x.state = new.state, x.at = asOf,
         NEW more, more = Append(seen, x), NEW n, n = Len(seen), NEW m, m = n + 1
  PROVE  Linked(new, more) /\ Earned(more, m)
<1> DEFINE worse == raw > old.state
           better == raw < old.state
<1>1. /\ n \in Nat /\ n > 0 /\ m \in Nat /\ m = n + 1 /\ m - 1 = n /\ Len(more) = m /\ more[m] = x
      /\ \A k \in 1..n : more[k] = seen[k] /\ IsEvaluation(seen[k])
      /\ seen[n].state = old.state /\ more[n] = seen[n]
  BY DEF Linked
<1>2. /\ Falls(more, n) = Falls(seen, n)
      /\ \A c \in Nat : Worse(more, n, c) <=> Worse(seen, n, c)
      /\ \A c \in Nat : Better(more, n, c) <=> Better(seen, n, c)
  BY <1>1, EarlierEvaluations
<1>3. old.state \in 0..7 /\ new.state \in 0..7 /\ raw \in 0..7 /\ asOf \in Nat
  BY DEF IsPublished, StrategyHealthState, Time
<1>4. old.worse \in Nat /\ old.better \in Nat /\ new.worse \in Nat /\ new.better \in Nat
  BY DEF IsPublished
<1>5. /\ \A c \in Nat : Worse(seen, n, c) => old.worse >= c
      /\ Better(seen, n, old.better)
      /\ Falls(seen, n) = {} => old.until = None
      /\ Falls(seen, n) # {} =>
           \E k : LatestFall(seen, n, k) /\ old.until = seen[k].at + HealthCooldown
  BY DEF Linked
<1>6. ASSUME NEW c \in Nat, Worse(more, m, c) PROVE new.worse >= c
  <2>1. CASE c = 0
    BY <1>4, <2>1
  <2>2. CASE c > 0
    <3>1. m \in (m - c + 1)..(m) /\ c - 1 \in Nat
      BY <1>1, <2>2
    <3>2. more[m].raw > more[m - 1].state
      BY <1>6, <3>1 DEF Worse
    <3>3. worse /\ new.worse = old.worse + 1
      <4>1. m - 1 = n
        BY <1>1
      <4>2. QED
        BY <1>1, <3>2, <4>1 DEF Follows
    <3>4. Worse(more, n, c - 1)
      <4>1. n > c - 1 /\ \A k \in (n - (c - 1) + 1)..n : k \in (m - c + 1)..(m)
        BY <1>1, <1>6 DEF Worse
      <4>2. QED
        BY <1>6, <4>1 DEF Worse
    <3>5. old.worse >= c - 1
      BY <1>2, <1>5, <3>1, <3>4
    <3>6. QED
      BY <1>4, <3>1, <3>3, <3>5
  <2>3. QED
    BY <2>1, <2>2
<1>7. Better(more, m, new.better)
  <2>1. CASE better
    <3>1. new.better = old.better + 1 /\ Better(more, n, old.better)
      BY <1>2, <1>4, <1>5, <2>1 DEF Follows
    <3>2. m > new.better
      BY <1>1, <1>4, <3>1 DEF Better
    <3>3. ASSUME NEW k \in (m - new.better + 1)..(m)
          PROVE  more[k].raw < more[k - 1].state
      <4>1. CASE k = m
        <5>1. k - 1 = n
          BY <1>1, <4>1
        <5>2. QED
          BY <1>1, <2>1, <4>1, <5>1
      <4>2. CASE k # m
        <5>1. k \in (n - old.better + 1)..n
          BY <1>1, <1>4, <3>1, <4>2
        <5>2. QED
          BY <3>1, <5>1 DEF Better
      <4>3. QED
        BY <4>1, <4>2
    <3>4. QED
      BY <3>2, <3>3 DEF Better
  <2>2. CASE ~better
    <3>1. new.better = 0
      BY <2>2 DEF Follows
    <3>2. (m - 0 + 1)..(m) = {} /\ m > 0
      BY <1>1
    <3>3. QED
      BY <3>1, <3>2 DEF Better
  <2>3. QED
    BY <2>1, <2>2
<1> DEFINE falls == new.state > old.state /\ raw \notin {STALE, CRITICAL}
<1>8. Falls(more, m) = Falls(more, n) \cup (IF falls THEN {m} ELSE {})
  <2>1. more[m].raw = raw /\ more[m].state = new.state /\ more[n].state = old.state
    BY <1>1
  <2>2. 2..(m) = (2..n) \cup {m} /\ m - 1 = n
    BY <1>1
  <2>3. \A k : k \in Falls(more, m) <=>
                 k \in Falls(more, n) \/ (k = m /\ falls)
    BY <1>1, <2>1, <2>2 DEF Falls
  <2> HIDE DEF falls
  <2>4. QED
    BY <2>3
<1>9. CASE falls
  <2>1. new.until = asOf + HealthCooldown
    <3>1. ~(new.better >= RecoveryCount /\ new.state = raw)
      <4>1. new.better = IF better THEN old.better + 1 ELSE 0
        BY DEF Follows
      <4>2. SUFFICES ASSUME new.better >= RecoveryCount, new.state = raw PROVE FALSE
        OBVIOUS
      <4>3. better
        BY <4>1, <4>2, HealthConstants
      <4>4. QED
        BY <1>3, <1>9, <4>2, <4>3
    <3>2. QED
      BY <1>3, <1>9, <3>1 DEF Follows
  <2>2. LatestFall(more, m, m)
    <3>1. \A j \in Falls(more, n) : j <= m
      BY <1>1 DEF Falls
    <3>2. QED
      BY <1>1, <1>8, <1>9, <3>1 DEF LatestFall
  <2>3. more[m].at = asOf
    BY <1>1
  <2>4. Falls(more, m) # {} /\
        \E k : LatestFall(more, m, k) /\ new.until = more[k].at + HealthCooldown
    BY <2>1, <2>2, <2>3 DEF LatestFall
  <2>5. Linked(new, more)
    <3>1. Len(more) = m /\ m > 0 /\ new.state = more[m].state
      BY <1>1
    <3>2. \A c \in Nat : Worse(more, m, c) => new.worse >= c
      BY <1>6
    <3>3. QED
      BY <1>7, <2>4, <3>1, <3>2, Zenon DEF Linked
  <2>6. Earned(more, m)
    <3>1. m - 1 = n /\ ~(more[m].state < more[n].state)
      BY <1>1, <1>3, <1>9
    <3>2. new.state = raw
      BY <1>3, <1>9 DEF Follows
    <3>3. QED
      BY <1>1, <3>1, <3>2 DEF Earned
  <2>7. QED
    BY <2>5, <2>6
<1>10. CASE ~falls
  <2>1. Falls(more, m) = Falls(seen, n)
    BY <1>2, <1>8, <1>10
  <2>2. new.until = old.until
    <3>1. CASE raw \notin {STALE, CRITICAL} /\ new.worse >= DeteriorationCount
      <4>1. raw > old.state
        BY <1>3, <1>4, <3>1, HealthConstants DEF Follows
      <4>2. new.state = raw
        BY <1>4, <3>1, HealthConstants DEF Follows
      <4>3. QED
        BY <1>10, <3>1, <4>1, <4>2
    <3>2. CASE ~(raw \notin {STALE, CRITICAL} /\ new.worse >= DeteriorationCount)
      BY <3>2 DEF Follows
    <3>3. QED
      BY <3>1, <3>2
  <2>3. Falls(more, m) = {} => new.until = None
    BY <1>5, <2>1, <2>2
  <2>4. ASSUME Falls(more, m) # {}
        PROVE  \E k : LatestFall(more, m, k) /\ new.until = more[k].at + HealthCooldown
    <3>1. PICK k : LatestFall(seen, n, k) /\ old.until = seen[k].at + HealthCooldown
      BY <1>5, <2>1, <2>4
    <3>2. LatestFall(more, m, k)
      BY <2>1, <3>1 DEF LatestFall
    <3>3. k \in 1..n
      BY <1>1, <3>1 DEF LatestFall, Falls
    <3>4. QED
      BY <1>1, <2>2, <3>1, <3>2, <3>3
  <2>5. Linked(new, more)
    <3>1. Len(more) = m /\ m > 0 /\ new.state = more[m].state
      BY <1>1
    <3>2. \A c \in Nat : Worse(more, m, c) => new.worse >= c
      BY <1>6
    <3>3. QED
      BY <1>7, <2>3, <2>4, <3>1, <3>2, Zenon DEF Linked
  <2>6. m - 1 = n /\ more[n].state = old.state /\ more[m].raw = raw
        /\ more[m].state = new.state /\ more[m].at = asOf
    BY <1>1
  <2>7. raw = CRITICAL \/ Worse(more, m, DeteriorationCount) => new.state = raw
    <3>1. CASE raw \in {STALE, CRITICAL}
      BY <3>1 DEF Follows
    <3>2. CASE raw \notin {STALE, CRITICAL}
      <4>1. Worse(more, m, DeteriorationCount) => new.worse >= DeteriorationCount
        BY <1>6, HealthConstants
      <4>2. QED
        BY <1>4, <3>2, <4>1, HealthConstants DEF Follows
    <3>3. QED
      BY <3>1, <3>2
  <2>8. ASSUME new.state < old.state, raw # STALE
        PROVE  /\ Better(more, m, RecoveryCount)
               /\ \A k : LatestFall(more, n, k) => asOf >= more[k].at + HealthCooldown
    <3>1. /\ new.better >= RecoveryCount /\ (old.until = None \/ asOf >= old.until)
      <4>1. raw \notin {STALE, CRITICAL}
        BY <1>3, <2>8 DEF Follows, CRITICAL
      <4>2. ~(new.worse >= DeteriorationCount /\ new.state = raw)
        <5>1. new.worse = IF worse THEN old.worse + 1 ELSE 0
          BY DEF Follows
        <5>2. SUFFICES ASSUME new.worse >= DeteriorationCount, new.state = raw PROVE FALSE
          OBVIOUS
        <5>3. worse
          BY <5>1, <5>2, HealthConstants
        <5>4. QED
          BY <1>3, <2>8, <5>2, <5>3
      <4>3. QED
        BY <1>3, <1>4, <2>8, <4>1, <4>2, HealthConstants DEF Follows
    <3>2. Better(more, m, RecoveryCount)
      <4>1. m > RecoveryCount /\ (m - RecoveryCount + 1)..(m)
                                       \subseteq (m - new.better + 1)..(m)
        BY <1>1, <1>4, <1>7, <3>1, HealthConstants DEF Better
      <4>2. QED
        BY <1>7, <4>1 DEF Better
    <3>3. ASSUME NEW k, LatestFall(more, n, k) PROVE asOf >= more[k].at + HealthCooldown
      <4>1. LatestFall(seen, n, k) /\ k \in 1..n
        BY <1>1, <1>2, <3>3 DEF LatestFall, Falls
      <4>2. PICK j : LatestFall(seen, n, j) /\ old.until = seen[j].at + HealthCooldown
        BY <1>5, <4>1 DEF LatestFall
      <4>3. j \in 1..n /\ j <= k /\ k <= j
        BY <1>1, <4>1, <4>2 DEF LatestFall, Falls
      <4>4. j = k
        BY <4>1, <4>3
      <4>5. seen[k].at \in Nat
        BY <1>1, <4>1, HealthConstants DEF IsEvaluation, Time
      <4>6. old.until # None
        BY <4>2, <4>4, <4>5, HealthConstants, NoTimeIsNone
      <4>7. QED
        BY <1>1, <3>1, <4>1, <4>2, <4>4, <4>6
    <3>4. QED
      BY <3>2, <3>3
  <2>9. Earned(more, m)
    BY <2>6, <2>7, <2>8 DEF Earned
  <2>10. QED
    BY <2>5, <2>9
<1>11. QED
  BY <1>9, <1>10

\* The first evaluation of a profile is published as it is.
LEMMA FirstLinked ==
  ASSUME NEW e, NEW x, e.state = x.state, e.worse = 0, e.better = 0, e.until = None
  PROVE  Linked(e, <<x>>)
<1> DEFINE seen == <<x>>
<1>1. Len(seen) = 1 /\ seen[1] = x
  OBVIOUS
<1> HIDE DEF seen
<1>2. Falls(seen, 1) = {}
  BY DEF Falls
<1>3. \A c \in Nat : Worse(seen, 1, c) => c = 0
  BY DEF Worse
<1>4. Better(seen, 1, 0)
  BY DEF Better
<1>5. Linked(e, seen)
  BY <1>1, <1>2, <1>3, <1>4 DEF Linked
<1>6. QED
  BY <1>5 DEF seen

\* What is published of a profile, and what is remembered of it.
Fits(next, more, i) ==
  /\ IsPublished(next) /\ next.id = i /\ Linked(next, more) /\ IsHistory(more)
  /\ \A n \in 2..Len(more) : Earned(more, n)

\* What an evaluation publishes fits to what is remembered of it.
LEMMA EvaluationFits ==
  ASSUME HealthInvariant, NEW p \in Profiles, NEW asOf \in Time, NEW items, NEW set, NEW known, NEW x,
         known <=> (Held(health.published, p.id) /\ Entry(health.published, p.id).set = set),
         NEW next, next = (IF known THEN Entry(health.published, p.id)
                           ELSE Transitioned(p, Raw(p, items, asOf), set, asOf)),
         x.raw = Raw(p, items, asOf), x.state = next.state, x.at = asOf,
         NEW more, more = (IF known THEN published[p.id] ELSE Append(published[p.id], x))
  PROVE  Fits(next, more, p.id)
<1> DEFINE old == Entry(health.published, p.id)
           seen == published[p.id]
           raw == Raw(p, items, asOf)
<1>1. p.id \in ProfileIds
  BY DEF ProfileIds
<1>2. raw \in StrategyHealthState
  BY RawFacts
<1>3. PICK S : seen \in Seq(S) /\ \A s \in S : IsEvaluation(s)
  BY <1>1 DEF HealthInvariant, IsHistory
<1>4. \A n \in 2..Len(seen) : Earned(seen, n)
  BY <1>1 DEF HealthInvariant
<1>5. ASSUME Held(health.published, p.id)
      PROVE  IsPublished(old) /\ old.id = p.id /\ Linked(old, seen)
  <2>1. PICK T : /\ health.published \in Seq(T)
                 /\ \A s \in T : IsPublished(s) /\ s.id \in ProfileIds /\ Linked(s, published[s.id])
    BY DEF HealthInvariant, Listed
  <2>2. old \in T /\ old.id = p.id
    BY <1>5, <2>1, EntryFacts
  <2>3. QED
    BY <2>1, <2>2
<1>6. CASE known
  <2>1. next = old /\ more = seen
    BY <1>6
  <2>2. IsHistory(more)
    BY <1>3, <2>1 DEF IsHistory
  <2> HIDE DEF old, seen
  <2>3. QED
    BY <1>4, <1>5, <1>6, <2>1, <2>2 DEF Fits
<1>7. ASSUME ~known, IsPublished(next), next.state \in StrategyHealthState
      PROVE  /\ IsHistory(more) /\ Len(more) = Len(seen) + 1 /\ Len(seen) \in Nat
             /\ \A n \in 2..Len(seen) : Earned(more, n)
  <2>1. more = Append(seen, x)
    BY <1>7
  <2>2. IsEvaluation(x)
    BY <1>2, <1>7 DEF IsEvaluation
  <2> DEFINE T == S \cup {x}
  <2>3. more \in Seq(T) /\ \A s \in T : IsEvaluation(s)
    BY <1>3, <2>1, <2>2
  <2> HIDE DEF T
  <2>4. IsHistory(more)
    BY <2>3 DEF IsHistory
  <2> HIDE DEF seen
  <2>5. \A n \in 2..Len(seen) : Earned(more, n)
    BY <1>3, <1>4, <2>1, StaysEarned
  <2>6. QED
    BY <1>3, <2>1, <2>4, <2>5
<1>8. CASE ~known /\ Held(health.published, p.id)
  <2>1. next = Moved(old, raw, set, asOf) /\ more = Append(seen, x)
    BY <1>8 DEF Transitioned
  <2>2. IsPublished(old) /\ old.id = p.id /\ Linked(old, seen)
    BY <1>5, <1>8
  <2> HIDE DEF old, seen, raw
  <2>3. IsPublished(next) /\ Follows(next, old, raw, asOf)
    BY <1>2, <2>1, <2>2, MovedFacts
  <2>4. next.id = p.id /\ next.state \in StrategyHealthState
    BY <2>2, <2>3 DEF Follows, IsPublished
  <2>5. x.raw = raw
    BY DEF raw
  <2> DEFINE m == Len(seen) + 1
             n == Len(seen)
  <2>6. Linked(next, more) /\ Earned(more, m)
    <3> HIDE DEF m, n
    <3>1. n = Len(seen) /\ m = n + 1
      BY DEF m, n
    <3>2. QED
      BY <1>2, <1>3, <2>1, <2>2, <2>3, <2>5, <3>1, FollowsEarned
  <2>7. /\ IsHistory(more) /\ Len(more) = m /\ Len(seen) \in Nat
        /\ \A k \in 2..Len(seen) : Earned(more, k)
    BY <1>7, <1>8, <2>3, <2>4
  <2>8. \A k \in 2..Len(more) : k = m \/ k \in 2..Len(seen)
    BY <2>7
  <2>9. QED
    BY <2>3, <2>4, <2>6, <2>7, <2>8 DEF Fits
<1>9. CASE ~known /\ ~Held(health.published, p.id)
  <2>1. next = [id |-> p.id, state |-> raw, worse |-> 0, better |-> 0, until |-> None, set |-> set]
    BY <1>9 DEF Transitioned
  <2> HIDE DEF raw
  <2>2. IsPublished(next) /\ next.id = p.id /\ next.state = raw
    BY <1>2, <2>1 DEF IsPublished
  <2>3. seen = <<>> /\ more = <<x>>
    <3>1. seen = <<>>
      BY <1>1, <1>9 DEF HealthInvariant
    <3>2. more = Append(seen, x)
      BY <1>9
    <3> HIDE DEF seen
    <3>3. more = Append(<<>>, x)
      BY <3>1, <3>2
    <3>4. Append(<<>>, x) = <<x>>
      OBVIOUS
    <3>5. QED
      BY <3>1, <3>3, <3>4
  <2>4. Linked(next, <<x>>)
    BY <2>1, FirstLinked
  <2>5. IsHistory(more)
    BY <1>2, <1>7, <1>9, <2>2
  <2>6. 2..Len(more) = {}
    BY <2>3
  <2>7. QED
    BY <2>2, <2>3, <2>4, <2>5, <2>6 DEF Fits
<1>10. QED
  BY <1>6, <1>8, <1>9

\* evaluate keeps the invariant.
LEMMA EvaluateKeepsHealth ==
  ASSUME HealthInvariant, NEW p \in Profiles, NEW asOf \in Time, EvaluateHealth(p, asOf)
  PROVE  HealthInvariant'
<1> DEFINE i == p.id
           items == Observations(p, asOf)
           set == <<[k \in DOMAIN items |-> items[k].id], asOf>>
           known == Held(health.published, p.id) /\ Entry(health.published, p.id).set = set
           raw == Raw(p, items, asOf)
           next == IF known THEN Entry(health.published, p.id) ELSE Transitioned(p, raw, set, asOf)
           x == [raw |-> raw, state |-> next.state, at |-> asOf, items |-> set[1]]
           more == IF known THEN published[i] ELSE Append(published[i], x)
           snapshots == (health.snapshots \ {y \in health.snapshots : y.id = i})
                          \cup {[id |-> i, state |-> next.state]}
           store == Put(health.published, next)
<1>1. i \in ProfileIds /\ DOMAIN published = ProfileIds
  BY DEF ProfileIds, HealthInvariant
<1>2. /\ health' = [health EXCEPT !.published = store, !.snapshots = snapshots]
      /\ published' = (IF known THEN published ELSE [published EXCEPT ![i] = Append(@, x)])
      /\ allocated' = allocated
  BY DEF EvaluateHealth
<1> HIDE DEF items, set
<1>3. x.raw = Raw(p, items, asOf) /\ x.state = next.state /\ x.at = asOf
  OBVIOUS
<1>4. /\ published'[i] = more /\ DOMAIN published' = ProfileIds
      /\ \A j \in ProfileIds \ {i} : published'[j] = published[j]
  <2> HIDE DEF known, x, i
  <2>1. CASE known
    BY <1>1, <1>2, <2>1
  <2>2. CASE ~known
    <3>1. published' = [published EXCEPT ![i] = Append(published[i], x)] /\ more = Append(published[i], x)
      BY <1>2, <2>2
    <3> HIDE DEF more
    <3>2. QED
      BY <1>1, <3>1
  <2>3. QED
    BY <2>1, <2>2
<1> HIDE DEF x
<1>5. /\ IsPublished(next) /\ next.id = i /\ Linked(next, more) /\ IsHistory(more)
      /\ \A n \in 2..Len(more) : Earned(more, n)
  <2>1. known <=> (Held(health.published, p.id) /\ Entry(health.published, p.id).set = set)
    OBVIOUS
  <2>2. next = (IF known THEN Entry(health.published, p.id)
                ELSE Transitioned(p, Raw(p, items, asOf), set, asOf))
    OBVIOUS
  <2>3. more = (IF known THEN published[p.id] ELSE Append(published[p.id], x))
    OBVIOUS
  <2> HIDE DEF known, next, more
  <2>4. Fits(next, more, p.id)
    BY <1>3, <2>1, <2>2, <2>3, EvaluationFits
  <2>5. QED
    BY <2>4 DEF Fits
<1> HIDE DEF next, more, known, raw, snapshots, store
<1>6. /\ health'.published = store /\ health'.snapshots = snapshots
      /\ health' = [outcomes |-> health.outcomes, published |-> store, snapshots |-> snapshots,
                    restricted |-> health.restricted]
  BY <1>2 DEF HealthInvariant
<1>7. next.state \in StrategyHealthState
  BY <1>5 DEF IsPublished
<1>8. \A y \in health'.snapshots : y.state \in StrategyHealthState
  BY <1>6, <1>7 DEF HealthInvariant, snapshots
<1>9. PICK S : /\ health.published \in Seq(S)
               /\ \A s \in S : IsPublished(s) /\ s.id \in ProfileIds /\ Linked(s, published[s.id])
  BY DEF HealthInvariant, Listed
<1> DEFINE T == {s \in S : s.id # i} \cup {next}
<1>10. /\ store \in Seq(T) /\ Held(store, i)
       /\ \A j : Held(health.published, j) => Held(store, j)
  <2>1. /\ store \in Seq({s \in S : s.id # next.id} \cup {next}) /\ Held(store, next.id)
        /\ \A j : Held(health.published, j) => Held(store, j)
    BY <1>9, PutApart DEF store
  <2>2. QED
    BY <1>5, <2>1
<1>11. \A s \in T : IsPublished(s) /\ s.id \in ProfileIds /\ Linked(s, published'[s.id])
  <2>1. \A s \in S : s.id # i => published'[s.id] = published[s.id]
    BY <1>1, <1>4, <1>9
  <2>2. published'[i] = more
    BY <1>4
  <2>3. QED
    BY <1>1, <1>5, <1>9, <2>1, <2>2
<1> HIDE DEF T
<1>12. Listed(health'.published, published')
  BY <1>6, <1>10, <1>11 DEF Listed
<1>13. ASSUME NEW j \in ProfileIds
       PROVE  /\ IsHistory(published'[j]) /\ \A n \in 2..Len(published'[j]) : Earned(published'[j], n)
              /\ ~Held(health'.published, j) => published'[j] = <<>>
  <2>1. CASE j = i
    BY <1>1, <1>4, <1>5, <1>6, <1>10, <2>1
  <2>2. CASE j # i
    <3>1. published'[j] = published[j]
      BY <1>1, <1>4, <2>2
    <3>2. /\ IsHistory(published[j]) /\ \A n \in 2..Len(published[j]) : Earned(published[j], n)
          /\ ~Held(health.published, j) => published[j] = <<>>
      BY DEF HealthInvariant
    <3>3. QED
      BY <1>6, <1>10, <3>1, <3>2
  <2>3. QED
    BY <2>1, <2>2
<1>14. DOMAIN published' = ProfileIds
  BY <1>1, <1>4
<1>15. /\ health' = [outcomes |-> health'.outcomes, published |-> health'.published,
                     snapshots |-> health'.snapshots, restricted |-> health'.restricted]
       /\ allocated' # None => Restrained(allocated')
  BY <1>2, <1>6 DEF HealthInvariant
<1>16. QED
  BY <1>8, <1>12, <1>13, <1>14, <1>15 DEF HealthInvariant, ProfileIds

\* What a multiplier restricts is no more than before.
LEMMA RestrictedShare ==
  ASSUME NEW x \in Nat, NEW m \in 0..100
  PROVE  (x * m) \div 100 <= x
<1>1. x * m \in Nat /\ x * m <= x * 100
  <2>1. 100 - m \in Nat /\ x * (100 - m) \in Nat
    OBVIOUS
  <2>2. x * 100 - x * m = x * (100 - m)
    OBVIOUS
  <2>3. x * m \in Nat
    OBVIOUS
  <2>4. QED
    BY <2>1, <2>2, <2>3
<1> DEFINE y == x * m
<1>2. \A z \in Nat : z <= x * 100 => z \div 100 <= x
  OBVIOUS
<1>3. QED
  BY <1>1, <1>2

\* allocate keeps the invariant.
LEMMA AllocateKeepsHealth ==
  ASSUME HealthInvariant, NEW exposure \in Exposures, NEW snapshot \in health.snapshots,
         NEW family \in health.snapshots, Allocate(exposure, snapshot, family)
  PROVE  HealthInvariant'
<1> DEFINE mine == HealthMultiplier(snapshot.state)
           its == HealthMultiplier(family.state)
           multiplier == Least(mine, its)
           share == IF health.restricted \/ snapshot.state = STALE THEN 0
                    ELSE (exposure * multiplier) \div 100
<1>1. /\ allocated' = [upstream |-> exposure, state |-> snapshot.state, family |-> family.state,
                       exposure |-> share]
      /\ health' = health /\ published' = published
  BY DEF Allocate
<1>2. exposure \in Nat
  BY StrategyHealthAssumption
<1>3. \A st \in StrategyHealthState :
        HealthMultiplier(st) \in 0..100 /\ (st = CRITICAL => HealthMultiplier(st) = 0)
  <2>1. QED
    BY FourMultipliers DEF HealthMultiplier, StrategyHealthState, DEFENSIVE, CRITICAL
<1>4. snapshot.state \in StrategyHealthState /\ family.state \in StrategyHealthState
  BY DEF HealthInvariant
<1>5. /\ mine \in 0..100 /\ its \in 0..100
      /\ CRITICAL \in {snapshot.state, family.state} => mine = 0 \/ its = 0
  BY <1>3, <1>4
<1> HIDE DEF mine, its
<1>6. /\ multiplier \in 0..100
      /\ CRITICAL \in {snapshot.state, family.state} => multiplier = 0
  BY <1>5 DEF Least
<1> HIDE DEF multiplier
<1>7. share <= exposure
  BY <1>2, <1>6, RestrictedShare
<1>8. CRITICAL \in {snapshot.state, family.state} => share = 0
  BY <1>2, <1>6
<1> HIDE DEF share
<1>9. Restrained(allocated')
  BY <1>1, <1>7, <1>8 DEF Restrained
<1>10. QED
  BY <1>1, <1>9 DEF HealthInvariant

\* What keeps what is published, the snapshots or some of them, and the rest.
LEMMA UntouchedHealth ==
  ASSUME HealthInvariant, NEW outcomes, NEW snapshots, snapshots \subseteq health.snapshots, NEW restricted,
         health' = [outcomes |-> outcomes, published |-> health.published,
                    snapshots |-> snapshots, restricted |-> restricted],
         allocated' = allocated, published' = published
  PROVE  HealthInvariant'
BY DEF HealthInvariant

\* The engine's steps keep the invariant.
LEMMA NextHealth ==
  ASSUME HealthInvariant, [HealthNext]_healthVars
  PROVE  HealthInvariant'
<1>1. CASE \E o \in Outcomes : Ingest(o)
  <2>1. PICK o : Ingest(o)
    BY <1>1
  <2> DEFINE outcomes == Evicted(PutNew(health.outcomes, o), MaxOutcomes)
  <2>2. /\ health' = [health EXCEPT !.outcomes = outcomes]
        /\ allocated' = allocated /\ published' = published
    BY <2>1 DEF Ingest
  <2> HIDE DEF outcomes
  <2>3. health' = [outcomes |-> outcomes, published |-> health.published,
                   snapshots |-> health.snapshots, restricted |-> health.restricted]
    BY <2>2 DEF HealthInvariant
  <2>4. QED
    BY <2>2, <2>3, UntouchedHealth
<1>2. CASE \E p \in Profiles, t \in Time : EvaluateHealth(p, t)
  BY <1>2, EvaluateKeepsHealth
<1>3. CASE \E x \in Exposures, s, f \in health.snapshots : Allocate(x, s, f)
  BY <1>3, AllocateKeepsHealth
<1>4. CASE RestartHealth
  <2>1. health' = [outcomes |-> health.outcomes, published |-> health.published,
                   snapshots |-> {}, restricted |-> FALSE]
    BY <1>4 DEF RestartHealth, HealthInvariant
  <2>2. QED
    BY <1>4, <2>1, UntouchedHealth DEF RestartHealth
<1>5. CASE RestartHealthRefused
  <2>1. health' = [outcomes |-> health.outcomes, published |-> health.published,
                   snapshots |-> health.snapshots, restricted |-> TRUE]
    BY <1>5 DEF RestartHealthRefused, HealthInvariant
  <2>2. QED
    BY <1>5, <2>1, UntouchedHealth DEF RestartHealthRefused
<1>6. CASE UNCHANGED healthVars
  BY <1>6 DEF healthVars, HealthInvariant
<1>7. QED
  BY <1>1, <1>2, <1>3, <1>4, <1>5, <1>6 DEF HealthNext

\* What the invariant says is what the property does.
LEMMA InvariantEarns == HealthInvariant => AllocationEarned
<1> SUFFICES ASSUME HealthInvariant PROVE AllocationEarned
  OBVIOUS
<1>1. HealthTypeOK
  <2>1. PICK S : /\ health.published \in Seq(S)
                 /\ \A s \in S : IsPublished(s)
    BY DEF HealthInvariant, Listed
  <2>2. \A i \in DOMAIN health.published : IsPublished(health.published[i])
    BY <2>1
  <2>3. QED
    BY <2>2 DEF HealthTypeOK, IsPublished
<1>2. ASSUME NEW i \in DOMAIN published, NEW n \in 2..Len(published[i])
      PROVE  LET seen == published[i] cur == seen[n] before == seen[n - 1]
                 fell == {k \in 2..(n - 1) : /\ seen[k].state > seen[k - 1].state
                                             /\ seen[k].raw \notin {STALE, CRITICAL}}
             IN /\ cur.raw = CRITICAL \/ Worse(seen, n, DeteriorationCount) => cur.state = cur.raw
                /\ cur.state < before.state /\ cur.raw # STALE =>
                     /\ Better(seen, n, RecoveryCount)
                     /\ fell # {} => cur.at >= seen[Max(fell)].at + HealthCooldown
  <2> DEFINE seen == published[i]
             fell == Falls(seen, n - 1)
  <2>1. Earned(seen, n) /\ IsHistory(seen)
    BY DEF HealthInvariant
  <2>2. fell = {k \in 2..(n - 1) : /\ seen[k].state > seen[k - 1].state
                                   /\ seen[k].raw \notin {STALE, CRITICAL}}
    BY DEF Falls
  <2>3. n - 1 \in Nat /\ fell \subseteq Nat /\ \A k \in fell : k <= n - 1
    <3>1. n \in Nat /\ n >= 2
      OBVIOUS
    <3>2. QED
      BY <3>1, <2>2
  <2> HIDE DEF fell
  <2>4. fell # {} => \E k \in fell : \A j \in fell : j <= k
    <3> SUFFICES ASSUME fell # {} PROVE \E k \in fell : \A j \in fell : j <= k
      OBVIOUS
    <3> DEFINE T == {m \in Nat : \A j \in fell : j <= m}
    <3>1. T # {} /\ T \subseteq Nat
      BY <2>3
    <3>2. PICK m \in T : \A l \in T : m <= l
      <4> HIDE DEF T
      <4>1. QED
        BY <3>1, LeastOf
    <3>3. m \in fell
      <4> SUFFICES ASSUME m \notin fell PROVE FALSE
        OBVIOUS
      <4>1. PICK j \in fell : TRUE
        OBVIOUS
      <4>2. m > 0
        BY <2>3, <3>2, <4>1
      <4>3. m - 1 \in T
        BY <2>3, <3>2, <4>2
      <4>4. QED
        BY <3>2, <4>3
    <3>4. QED
      BY <3>2, <3>3
  <2>5. fell # {} => LatestFall(seen, n - 1, Max(fell))
    <3>1. ASSUME fell # {} PROVE Max(fell) \in fell /\ \A j \in fell : j <= Max(fell)
      <4>1. \E k \in fell : \A j \in fell : k >= j
        BY <2>3, <2>4, <3>1
      <4>2. Max(fell) \in fell /\ \A j \in fell : Max(fell) >= j
        BY <4>1 DEF Max
      <4>3. QED
        BY <2>3, <4>2
    <3>2. QED
      BY <3>1 DEF LatestFall, fell
  <2>6. /\ seen[n].raw = CRITICAL \/ Worse(seen, n, DeteriorationCount) => seen[n].state = seen[n].raw
        /\ seen[n].state < seen[n - 1].state /\ seen[n].raw # STALE =>
             /\ Better(seen, n, RecoveryCount)
             /\ fell # {} => seen[n].at >= seen[Max(fell)].at + HealthCooldown
    BY <2>1, <2>5 DEF Earned
  <2> HIDE DEF seen
  <2>7. QED
    BY <2>2, <2>6 DEF seen
<1>3. allocated # None => Restrained(allocated)
  BY DEF HealthInvariant
<1>4. QED
  BY <1>1, <1>2, <1>3, Zenon DEF AllocationEarned, Restrained

\* AllocationEarned: what is published of a strategy gets better only as confirmed
\* and after the cooldown, and worse as soon as that is confirmed; a suspended one
\* gets nothing, and none more than correlation approved, for every number of
\* profiles, outcomes and confirmations, across restarts.
THEOREM AllocationsAreEarned == HealthSpec => []AllocationEarned
<1>1. HealthInit => HealthInvariant
  <2> SUFFICES ASSUME HealthInit PROVE HealthInvariant
    OBVIOUS
  <2>1. /\ health = FreshHealth /\ allocated = None
        /\ published = [i \in ProfileIds |-> <<>>]
    BY DEF HealthInit, ProfileIds
  <2>2. Listed(health.published, published)
    <3>1. <<>> \in Seq({}) /\ health.published = <<>>
      BY <2>1 DEF FreshHealth
    <3>2. QED
      BY <3>1 DEF Listed
  <2>3. IsHistory(<<>>)
    <3> SUFFICES \E S : <<>> \in Seq(S) /\ \A s \in S : IsEvaluation(s)
      BY DEF IsHistory
    <3> DEFINE S == {}
    <3>1. <<>> \in Seq(S) /\ \A s \in S : IsEvaluation(s)
      OBVIOUS
    <3> HIDE DEF S
    <3>2. QED
      BY <3>1
  <2>4. \A i \in ProfileIds : published[i] = <<>>
    BY <2>1
  <2>5. 2..Len(<<>>) = {}
    OBVIOUS
  <2>6. \A i \in ProfileIds : /\ IsHistory(published[i])
                             /\ \A n \in 2..Len(published[i]) : Earned(published[i], n)
                             /\ ~Held(health.published, i) => published[i] = <<>>
    BY <2>3, <2>4, <2>5
  <2>7. QED
    BY <2>1, <2>2, <2>6 DEF HealthInvariant, FreshHealth
<1>2. HealthInvariant /\ [HealthNext]_healthVars => HealthInvariant'
  BY NextHealth
<1>3. QED
  BY <1>1, <1>2, InvariantEarns, PTL DEF HealthSpec

-----------------------------------------------------------------------------
(* Arbitration: what is permitted together may be.                         *)

\* Two opinions that do not contradict each other and may be combined.
Together(a, b) ==
  /\ {a.direction, b.direction} # {"BULLISH", "BEARISH"}
  /\ a.candidate # b.candidate
  /\ {a.family, b.family} # {"BREAKOUT", "MEAN_REVERSION"}
  /\ CombineAll \/ {a.strategy, b.strategy} \in AllowedPairs

\* A resolution permits some of the opinions, any two of which go together.
SoundFor(resolved, opinions) ==
  /\ resolved.permitted \subseteq opinions
  /\ \A a, b \in resolved.permitted : a # b => Together(a, b)
  /\ resolved.permitted # {} => resolved.outcome \in {"SINGLE_PREFERRED", "MULTIPLE_COMPATIBLE"}

Resolution ==
  [outcome : {"ALL_REJECTED", "SINGLE_PREFERRED", "MULTIPLE_COMPATIBLE", "NO_ACTION", "BLOCKED"},
   permitted : SUBSET Evaluations]

\* A result that is cached is sound for the opinions of its group.
CachedResult ==
  {r \in [id : STRING \X SUBSET Evaluations, resolved : Resolution,
          health : {"UNAVAILABLE", "DEGRADED", "HEALTHY"}] : SoundFor(r.resolved, r.id[2])}

\* What is preferred is one of the opinions.
LEMMA PreferredFacts ==
  ASSUME NEW opinions, NEW r
  PROVE  Preferred(opinions, r) \subseteq opinions
<1>1. \A p \in opinions \X opinions : p[1] \in opinions
  OBVIOUS
<1>2. QED
  BY <1>1 DEF Preferred

\* Two of the opinions that coexist go together.
LEMMA CoexistFacts ==
  ASSUME NEW opinions, Coexist(opinions), NEW a \in opinions, NEW b \in opinions, a # b
  PROVE  Together(a, b)
<1> DEFINE p == {a, b}
<1>1. p \in AllPairs(opinions)
  <2>1. IsFiniteSet({b}) /\ Cardinality({b}) = 1
    BY FS_Singleton
  <2>2. IsFiniteSet({a} \cup {b}) /\ Cardinality({a} \cup {b}) = 2
    BY <2>1, FS_AddElement
  <2>3. p = {a} \cup {b} /\ p \in SUBSET opinions
    OBVIOUS
  <2>4. QED
    BY <2>2, <2>3 DEF AllPairs
<1>2. Compatible(p)
  BY <1>1 DEF Coexist
<1>3. Compatibility(a, b) = "CONDITIONALLY_COMPATIBLE"
  BY <1>2 DEF Compatible
<1>4. CombineAll \/ {o.strategy : o \in p} \in AllowedPairs
  BY <1>1 DEF Coexist
<1>5. {o.strategy : o \in p} = {a.strategy, b.strategy}
  OBVIOUS
<1>6. QED
  BY <1>3, <1>4, <1>5 DEF Compatibility, Together

\* What the opinions are resolved to is sound for them.
LEMMA ResolvedFacts ==
  ASSUME NEW opinions \in SUBSET Evaluations, IsFiniteSet(opinions), NEW r
  PROVE  /\ Resolved(opinions, r) \in Resolution
         /\ SoundFor(Resolved(opinions, r), opinions)
<1> DEFINE preferred == Preferred(opinions, r)
           first == CHOOSE o \in preferred : TRUE
<1>1. preferred \subseteq opinions /\ (preferred # {} => first \in opinions)
  BY PreferredFacts
<1>2. CASE opinions = {}
  <2>1. Resolved(opinions, r) = [outcome |-> "ALL_REJECTED", permitted |-> {}]
    BY <1>2 DEF Resolved
  <2>2. QED
    BY <2>1 DEF SoundFor, Resolution
<1>3. CASE opinions # {} /\ Cardinality(opinions) = 1
  <2>1. Resolved(opinions, r) = [outcome |-> "SINGLE_PREFERRED", permitted |-> opinions]
    BY <1>3 DEF Resolved
  <2>2. \A a, b \in opinions : a = b
    <3>1. PICK x : opinions = {x}
      BY <1>3, FS_Singleton
    <3>2. QED
      BY <3>1
  <2>3. QED
    BY <2>1, <2>2 DEF SoundFor, Resolution
<1>4. CASE opinions # {} /\ Cardinality(opinions) # 1 /\ Coexist(opinions)
  <2>1. Resolved(opinions, r) = [outcome |-> "MULTIPLE_COMPATIBLE", permitted |-> opinions]
    BY <1>4 DEF Resolved
  <2>2. \A a, b \in opinions : a # b => Together(a, b)
    BY <1>4, CoexistFacts
  <2>3. QED
    BY <2>1, <2>2 DEF SoundFor, Resolution
<1>5. CASE /\ opinions # {} /\ Cardinality(opinions) # 1 /\ ~Coexist(opinions)
           /\ preferred # {} /\ ArbitrationPolicy # "REJECT"
  <2>1. Resolved(opinions, r) = [outcome |-> "SINGLE_PREFERRED", permitted |-> {first}]
    BY <1>5 DEF Resolved
  <2> HIDE DEF first
  <2>2. QED
    BY <1>1, <1>5, <2>1 DEF SoundFor, Resolution
<1>6. CASE /\ opinions # {} /\ Cardinality(opinions) # 1 /\ ~Coexist(opinions)
           /\ ~(preferred # {} /\ ArbitrationPolicy # "REJECT")
  <2>1. Resolved(opinions, r) = [outcome |-> "NO_ACTION", permitted |-> {}]
    BY <1>6 DEF Resolved
  <2>2. QED
    BY <2>1 DEF SoundFor, Resolution
<1>7. QED
  BY <1>2, <1>3, <1>4, <1>5, <1>6

\* The inductive invariant: every cached result is sound for its group, and the
\* latest is for the opinions it was asked about.
ArbitrationInvariant ==
  /\ arbitrations \in Seq(CachedResult)
  /\ decided # None =>
       SoundFor(decided.resolved,
                {e \in decided.evaluations : Accepted(e, decided.intelligence)})

\* A request leaves sound results, whether the latest was cached or not.
LEMMA ArbitrateKeeps ==
  ASSUME ArbitrationInvariant, NEW i \in Intelligences, NEW s \in Evaluated, Arbitrate(i, s)
  PROVE  ArbitrationInvariant'
<1> DEFINE opinions == {e \in s : Accepted(e, i)}
           group == <<i.id, opinions>>
           fresh == [id |-> group, resolved |-> Resolved(opinions, i.regime),
                     health |-> IF opinions = {} THEN "UNAVAILABLE"
                                ELSE IF opinions # s THEN "DEGRADED" ELSE "HEALTHY"]
           result == IF Held(arbitrations, group) THEN Entry(arbitrations, group) ELSE fresh
<1>1. opinions \in SUBSET Evaluations /\ IsFiniteSet(opinions)
  <2>1. s \in SUBSET Evaluations /\ IsFiniteSet(s)
    BY DEF Evaluated
  <2>2. opinions \subseteq s
    OBVIOUS
  <2>3. QED
    BY <2>1, <2>2, FS_Subset
<1>2. i.id \in STRING
  BY ArbitrationAssumption DEF MarketIntelligence
<1>3. fresh \in CachedResult
  <2> DEFINE resolved == Resolved(opinions, i.regime)
  <2>1. resolved \in Resolution /\ SoundFor(resolved, opinions)
    BY <1>1, ResolvedFacts
  <2>2. group \in STRING \X SUBSET Evaluations /\ group[2] = opinions
    BY <1>1, <1>2
  <2> HIDE DEF resolved, group, opinions
  <2>3. QED
    BY <2>1, <2>2 DEF CachedResult, resolved
<1>4. result \in CachedResult /\ result.id = group
  <2>1. CASE Held(arbitrations, group)
    <3> HIDE DEF group
    <3>1. Entry(arbitrations, group) \in CachedResult /\ Entry(arbitrations, group).id = group
      BY <2>1, EntryFacts DEF ArbitrationInvariant
    <3>2. QED
      BY <2>1, <3>1
  <2>2. CASE ~Held(arbitrations, group)
    BY <1>3, <2>2
  <2>3. QED
    BY <2>1, <2>2
<1>5. SoundFor(result.resolved, opinions)
  <2>1. SoundFor(result.resolved, result.id[2])
    BY <1>4 DEF CachedResult
  <2>2. result.id[2] = opinions
    BY <1>4
  <2>3. QED
    BY <2>1, <2>2
<1>6. CASE i.available
  <2>1. /\ arbitrations' = Evicted(Append(Without(arbitrations, group), result), MaxArbitrationCache)
        /\ decided' = [intelligence |-> i, evaluations |-> s,
                       resolved |-> result.resolved, health |-> result.health]
    BY <1>6 DEF Arbitrate
  <2> HIDE DEF group, result, fresh
  <2>2. Without(arbitrations, group) \in Seq(CachedResult)
    BY WithoutFacts DEF ArbitrationInvariant
  <2>3. Append(Without(arbitrations, group), result) \in Seq(CachedResult)
    BY <1>4, <2>2
  <2>4. MaxArbitrationCache \in Nat
    BY ArbitrationAssumption DEF ArbitrationConfiguration
  <2>5. arbitrations' \in Seq(CachedResult)
    BY <2>1, <2>3, <2>4, EvictedFacts
  <2>6. SoundFor(decided'.resolved,
                 {e \in decided'.evaluations : Accepted(e, decided'.intelligence)})
    <3>1. /\ decided'.resolved = result.resolved /\ decided'.evaluations = s
          /\ decided'.intelligence = i
      BY <2>1
    <3>2. QED
      BY <1>5, <3>1
  <2>7. QED
    BY <2>5, <2>6 DEF ArbitrationInvariant
<1>7. CASE ~i.available
  <2>1. /\ arbitrations' = arbitrations
        /\ decided'.resolved.permitted = {}
    BY <1>7 DEF Arbitrate
  <2>2. QED
    BY <2>1 DEF ArbitrationInvariant, SoundFor
<1>8. QED
  BY <1>6, <1>7

\* PermittedTogether: what is permitted never contradicts itself, was accepted for
\* the intelligence that was asked about, and may be combined, for every set of
\* evaluations, policy and size of the cache, also when the result was cached.
THEOREM PermissionsAgree == ArbitrationSpec => []PermittedTogether
<1>1. ArbitrationInit => ArbitrationInvariant
  BY DEF ArbitrationInit, ArbitrationInvariant
<1>2. ArbitrationInvariant /\ [ArbitrationNext]_arbitrationVars => ArbitrationInvariant'
  <2> SUFFICES ASSUME ArbitrationInvariant, [ArbitrationNext]_arbitrationVars
               PROVE  ArbitrationInvariant'
    OBVIOUS
  <2>1. CASE \E i \in Intelligences, s \in Evaluated : Arbitrate(i, s)
    BY <2>1, ArbitrateKeeps
  <2>2. CASE RestartArbitration
    BY <2>2 DEF RestartArbitration, ArbitrationInvariant
  <2>3. CASE UNCHANGED arbitrationVars
    BY <2>3 DEF arbitrationVars, ArbitrationInvariant
  <2>4. QED
    BY <2>1, <2>2, <2>3 DEF ArbitrationNext
<1>3. ArbitrationInvariant => PermittedTogether
  BY DEF ArbitrationInvariant, SoundFor, Together, PermittedTogether
<1>4. QED
  BY <1>1, <1>2, <1>3, PTL DEF ArbitrationSpec

-----------------------------------------------------------------------------
(* Correlation: clusters are entered and released when that was confirmed. *)

\* Of the first n observations: those that released the cluster, and those that
\* retained it.
Releases(seen, n) == {k \in 1..n : seen[k].to = "COOLDOWN" /\ seen[k].from \in Retained}

Retentions(seen, n) == {k \in 1..n : seen[k].healthy /\ (seen[k].held \/ seen[k].present)}

\* Those of the first n, after all of a set, that saw the cluster, and that could
\* have released it.
Entering(seen, n, after) == {k \in 1..n : seen[k].present /\ \A r \in after : r < k}

Exiting(seen, n, after) ==
  {k \in 1..n : seen[k].healthy /\ seen[k].from \in Retained /\ \A r \in after : r < k}

\* r is the latest of a set.
IsLatest(S, r) == r \in S /\ \A k \in S : k <= r

\* What ClustersEarned says of the n-th observation, before which m were.
WellFollowed(seen, m, n) ==
  LET cur == seen[n]
  IN /\ cur.to = "COOLDOWN" /\ cur.from # "COOLDOWN" =>
          /\ cur.from \in Retained
          /\ Cardinality(Exiting(seen, n, Retentions(seen, n))) >= ExitCount
     /\ cur.from \notin Retained /\ cur.to \in Retained =>
          Cardinality(Entering(seen, n, Releases(seen, m))) >= EntryCount
     /\ cur.from = "COOLDOWN" /\ cur.to = "ABSENT" =>
          \E r : IsLatest(Releases(seen, m), r) /\ cur.at >= seen[r].at + ReleaseCooldown
     /\ cur.from = "COOLDOWN" => cur.present \/ cur.to \in {"COOLDOWN", "ABSENT"}
     /\ cur.from \in Retained /\ ~cur.healthy => cur.to = "STALE_RESTRICTED"

\* A cluster as the engine keeps it.
IsCluster(c) ==
  /\ c = [state |-> c.state, entries |-> c.entries, exits |-> c.exits, until |-> c.until,
          observation |-> c.observation]
  /\ c.state \in ClusterLifecycleState /\ c.entries \in Nat /\ c.exits \in Nat /\ c.until \in Nat

\* Its counters are no more than the observations that they stand for, and its
\* cooldown is that of its latest release.
Confirmed(c, seen) ==
  LET n == Len(seen)
  IN /\ c.entries <= Cardinality(Entering(seen, n, Releases(seen, n)))
     /\ c.state \in Retained => c.exits <= Cardinality(Exiting(seen, n, Retentions(seen, n)))
     /\ c.state = "COOLDOWN" =>
          \E r : IsLatest(Releases(seen, n), r) /\ c.until = seen[r].at + ReleaseCooldown

\* The observations of a set of members.
AreSightings(seen) == \E S : seen \in Seq(S) /\ \A s \in S : s.at \in Nat

\* The inductive invariant.
ClusterInvariant ==
  /\ correlation = [clusters |-> correlation.clusters, restricted |-> correlation.restricted]
  /\ DOMAIN correlation.clusters = Members /\ DOMAIN sightings = Members
  /\ \A m \in Members :
       /\ IsCluster(correlation.clusters[m]) /\ AreSightings(sightings[m])
       /\ Confirmed(correlation.clusters[m], sightings[m])
       /\ \A n \in 1..Len(sightings[m]) : WellFollowed(sightings[m], n - 1, n)

\* The constants.
LEMMA ClusterConstants ==
  EntryCount \in Nat /\ ExitCount \in Nat /\ ReleaseCooldown \in Nat /\ MaxTime \in Nat
BY CorrelationAssumption, EvidenceAssumption DEF CorrelationConfiguration

\* A set of observations is finite.
LEMMA FiniteSightings ==
  ASSUME NEW n \in Nat, NEW S \in SUBSET (1..n)
  PROVE  IsFiniteSet(S) /\ Cardinality(S) \in Nat
<1>1. IsFiniteSet(1..n)
  BY FS_Interval
<1>2. QED
  BY <1>1, FS_Subset, FS_CardinalityType

\* What an observation x more adds to the sets.
Grown(seen, n, more, m, x) ==
  /\ Releases(more, m) = Releases(seen, n) \cup
       (IF x.to = "COOLDOWN" /\ x.from \in Retained THEN {m} ELSE {})
  /\ Retentions(more, m) = Retentions(seen, n) \cup
       (IF x.healthy /\ (x.held \/ x.present) THEN {m} ELSE {})
  /\ Entering(more, m, Releases(seen, n)) = Entering(seen, n, Releases(seen, n)) \cup
       (IF x.present THEN {m} ELSE {})
  /\ Exiting(more, m, Retentions(seen, n)) = Exiting(seen, n, Retentions(seen, n)) \cup
       (IF x.healthy /\ x.from \in Retained THEN {m} ELSE {})
  /\ \A A : m \in A => Entering(more, m, A) = {} /\ Exiting(more, m, A) = {}

\* An observation more adds that.
LEMMA AnotherSighting ==
  ASSUME NEW S, NEW seen \in Seq(S), NEW x, NEW more, more = Append(seen, x),
         NEW n, n = Len(seen), NEW m, m = n + 1
  PROVE  Grown(seen, n, more, m, x)
<1>1. /\ n \in Nat /\ m \in Nat /\ m = n + 1 /\ Len(more) = m /\ more[m] = x /\ 1..m = (1..n) \cup {m}
      /\ \A k \in 1..n : more[k] = seen[k] /\ k < m
  OBVIOUS
<1> DEFINE releases == x.to = "COOLDOWN" /\ x.from \in Retained
           retains == x.healthy /\ (x.held \/ x.present)
           releasing == x.healthy /\ x.from \in Retained
<1>6. \A k : k \in Releases(more, m) <=> k \in Releases(seen, n) \/ (k = m /\ releases)
  BY <1>1 DEF Releases
<1>7. \A k : k \in Retentions(more, m) <=> k \in Retentions(seen, n) \/ (k = m /\ retains)
  BY <1>1 DEF Retentions
<1>8. \A r : r \in Releases(seen, n) \/ r \in Retentions(seen, n) => r \in 1..n /\ r < m
  BY <1>1 DEF Releases, Retentions
<1>9. \A k : k \in Entering(more, m, Releases(seen, n)) <=>
               k \in Entering(seen, n, Releases(seen, n)) \/ (k = m /\ x.present)
  <2> DEFINE A == Releases(seen, n)
  <2>1. \A r \in A : r < m
    BY <1>8
  <2> HIDE DEF A
  <2>2. \A k : k \in Entering(more, m, A) <=> k \in Entering(seen, n, A) \/ (k = m /\ x.present)
    BY <1>1, <2>1 DEF Entering
  <2>3. QED
    BY <2>2 DEF A
<1>10. \A k : k \in Exiting(more, m, Retentions(seen, n)) <=>
                k \in Exiting(seen, n, Retentions(seen, n)) \/ (k = m /\ releasing)
  <2> DEFINE A == Retentions(seen, n)
  <2>1. \A r \in A : r < m
    BY <1>8
  <2> HIDE DEF A
  <2>2. \A k : k \in Exiting(more, m, A) <=> k \in Exiting(seen, n, A) \/ (k = m /\ releasing)
    BY <1>1, <2>1 DEF Exiting
  <2>3. QED
    BY <2>2 DEF A
<1>11. ASSUME NEW A, m \in A PROVE Entering(more, m, A) = {} /\ Exiting(more, m, A) = {}
  <2>1. \A k \in 1..m : ~(m < k)
    BY <1>1
  <2>2. QED
    BY <1>11, <2>1 DEF Entering, Exiting
<1>12. Releases(more, m) = Releases(seen, n) \cup (IF releases THEN {m} ELSE {})
  <2> HIDE DEF releases
  <2>1. QED
    BY <1>6
<1>13. Retentions(more, m) = Retentions(seen, n) \cup (IF retains THEN {m} ELSE {})
  <2> HIDE DEF retains
  <2>1. QED
    BY <1>7
<1>14. Entering(more, m, Releases(seen, n)) = Entering(seen, n, Releases(seen, n)) \cup
          (IF x.present THEN {m} ELSE {})
  BY <1>9
<1>15. Exiting(more, m, Retentions(seen, n)) = Exiting(seen, n, Retentions(seen, n)) \cup
          (IF releasing THEN {m} ELSE {})
  <2> HIDE DEF releasing
  <2>1. QED
    BY <1>10
<1>16. QED
  BY <1>11, <1>12, <1>13, <1>14, <1>15 DEF Grown

\* What was well followed stays so.
LEMMA StaysFollowed ==
  ASSUME NEW S, NEW seen \in Seq(S), NEW x, NEW more, more = Append(seen, x),
         NEW k \in 1..Len(seen), WellFollowed(seen, k - 1, k)
  PROVE  WellFollowed(more, k - 1, k)
<1> DEFINE n == Len(seen)
<1>1. /\ n \in Nat /\ k \in 1..n /\ k - 1 \in 0..n /\ k \in 0..n
      /\ \A j \in 1..n : more[j] = seen[j]
  OBVIOUS
<1>2. /\ Releases(more, k - 1) = Releases(seen, k - 1) /\ Retentions(more, k) = Retentions(seen, k)
      /\ \A A : Entering(more, k, A) = Entering(seen, k, A) /\ Exiting(more, k, A) = Exiting(seen, k, A)
  <2>1. k \in 0..Len(seen) /\ k - 1 \in 0..Len(seen)
    BY <1>1
  <2>2. \A i \in 0..Len(seen) : \A j \in 1..i : more[j] = seen[j]
    OBVIOUS
  <2>3. ASSUME NEW j \in 0..Len(seen), NEW A
        PROVE  /\ Releases(more, j) = Releases(seen, j) /\ Retentions(more, j) = Retentions(seen, j)
               /\ Entering(more, j, A) = Entering(seen, j, A) /\ Exiting(more, j, A) = Exiting(seen, j, A)
    <3>1. \A i \in 1..j : more[i] = seen[i]
      BY <2>2
    <3>2. QED
      BY <3>1 DEF Releases, Retentions, Entering, Exiting
  <2>4. QED
    BY <2>1, <2>3
<1>3. \A r \in Releases(seen, k - 1) : more[r] = seen[r]
  BY <1>1 DEF Releases
<1>4. more[k] = seen[k]
  BY <1>1
<1>5. more[k].from = "COOLDOWN" /\ more[k].to = "ABSENT" =>
          \E r : IsLatest(Releases(more, k - 1), r) /\ more[k].at >= more[r].at + ReleaseCooldown
  <2> SUFFICES ASSUME more[k].from = "COOLDOWN", more[k].to = "ABSENT"
               PROVE  \E r : IsLatest(Releases(more, k - 1), r) /\ more[k].at >= more[r].at + ReleaseCooldown
    OBVIOUS
  <2>1. PICK r : IsLatest(Releases(seen, k - 1), r) /\ seen[k].at >= seen[r].at + ReleaseCooldown
    BY <1>4 DEF WellFollowed
  <2>2. more[r] = seen[r]
    BY <1>3, <2>1 DEF IsLatest
  <2>3. QED
    BY <1>2, <1>4, <2>1, <2>2
<1>6. QED
  BY <1>2, <1>4, <1>5 DEF WellFollowed

\* new follows old after an observation.
Led(new, old, present, held, healthy, asOf) ==
  LET Same(state)    == new.state = state /\ new.until = old.until
      Counts(en, ex) == new.entries = en /\ new.exits = ex
      retained       == old.state \in Retained
  IN \/ ~healthy /\ retained /\ Same("STALE_RESTRICTED") /\ Counts(old.entries, old.exits)
     \/ /\ (healthy \/ ~retained) /\ present /\ Counts(old.entries + 1, 0)
        /\ \/ Same("ACTIVE") /\ (retained \/ old.entries + 1 >= EntryCount)
           \/ Same("ENTRY_PENDING") /\ ~(old.state \in {"ACTIVE", "STALE_RESTRICTED"})
     \/ healthy /\ ~present /\ held /\ retained /\ Same("ACTIVE") /\ Counts(old.entries, 0)
     \/ /\ healthy /\ ~present /\ ~held /\ retained /\ old.exits + 1 >= ExitCount
        /\ Counts(0, old.exits + 1) /\ new.state = "COOLDOWN" /\ new.until = asOf + ReleaseCooldown
     \/ /\ healthy /\ ~present /\ ~held /\ retained
        /\ Counts(0, old.exits + 1) /\ Same("EXIT_PENDING")
     \/ /\ ~retained /\ ~present /\ Counts(old.entries, old.exits)
        /\ \/ Same("COOLDOWN") /\ old.state = "COOLDOWN"
           \/ Same("ABSENT") /\ (old.state = "COOLDOWN" => asOf >= old.until)

Cluster(state, entries, misses, until, observation) ==
  [state |-> state, entries |-> entries, exits |-> misses, until |-> until, observation |-> observation]

\* The lifecycle of a cluster leads to the next in that way.
LEMMA LedFacts ==
  ASSUME NEW old, IsCluster(old), NEW present \in BOOLEAN, NEW held \in BOOLEAN, NEW healthy,
         NEW asOf \in Nat, NEW observed,
         NEW new, new = [Lifecycle(old, present, held, healthy, asOf) EXCEPT !.observation = observed]
  PROVE  IsCluster(new) /\ Led(new, old, present, held, healthy, asOf)
<1> DEFINE o == old.observation
           retained == old.state \in Retained
           again == IF old.state \in {"ACTIVE", "STALE_RESTRICTED"} \/ old.entries + 1 >= EntryCount
                    THEN "ACTIVE" ELSE "ENTRY_PENDING"
           next == LifecycleOf(old, present, held, healthy, asOf)
<1>1. /\ old.state \in ClusterLifecycleState /\ old.entries \in Nat /\ old.exits \in Nat /\ old.until \in Nat
      /\ asOf + ReleaseCooldown \in Nat /\ EntryCount \in Nat /\ ExitCount \in Nat
  BY ClusterConstants DEF IsCluster
<1>2. next =
        IF ~healthy /\ retained THEN Cluster("STALE_RESTRICTED", old.entries, old.exits, old.until, o)
        ELSE IF present THEN Cluster(again, old.entries + 1, 0, old.until, o)
        ELSE IF held /\ retained THEN Cluster("ACTIVE", old.entries, 0, old.until, o)
        ELSE IF retained /\ old.exits + 1 >= ExitCount
        THEN Cluster("COOLDOWN", 0, old.exits + 1, asOf + ReleaseCooldown, o)
        ELSE IF retained THEN Cluster("EXIT_PENDING", 0, old.exits + 1, old.until, o)
        ELSE IF old.state = "COOLDOWN" /\ asOf < old.until
        THEN Cluster(old.state, old.entries, old.exits, old.until, o)
        ELSE Cluster("ABSENT", old.entries, old.exits, old.until, o)
  <2> HIDE DEF again
  <2>1. /\ DOMAIN old = {"state", "entries", "exits", "until", "observation"}
        /\ old = Cluster(old.state, old.entries, old.exits, old.until, o)
    BY DEF IsCluster, Cluster
  <2>2. [old EXCEPT !.state = "STALE_RESTRICTED"]
          = Cluster("STALE_RESTRICTED", old.entries, old.exits, old.until, o)
    BY <2>1 DEF Cluster
  <2>3. [old EXCEPT !.exits = 0, !.entries = old.entries + 1, !.state = again]
          = Cluster(again, old.entries + 1, 0, old.until, o)
    <3> DEFINE changed == [old EXCEPT !.exits = 0, !.entries = old.entries + 1, !.state = again]
    <3>1. changed = [f \in DOMAIN old |-> IF f = "state" THEN again ELSE IF f = "entries" THEN old.entries + 1 ELSE IF f = "exits" THEN 0 ELSE old[f]]
      BY <2>1
    <3> HIDE DEF changed
    <3>2. changed = Cluster(again, old.entries + 1, 0, old.until, o)
      BY <2>1, <3>1 DEF Cluster
    <3>3. QED
      BY <3>2 DEF changed
  <2>4. [old EXCEPT !.exits = 0, !.state = "ACTIVE"] = Cluster("ACTIVE", old.entries, 0, old.until, o)
    <3> DEFINE changed == [old EXCEPT !.exits = 0, !.state = "ACTIVE"]
    <3>1. changed = [f \in DOMAIN old |-> IF f = "state" THEN "ACTIVE" ELSE IF f = "exits" THEN 0 ELSE old[f]]
      BY <2>1
    <3> HIDE DEF changed
    <3>2. changed = Cluster("ACTIVE", old.entries, 0, old.until, o)
      BY <2>1, <3>1 DEF Cluster
    <3>3. QED
      BY <3>2 DEF changed
  <2>5. [old EXCEPT !.exits = old.exits + 1, !.entries = 0, !.state = "COOLDOWN",
                  !.until = asOf + ReleaseCooldown]
          = Cluster("COOLDOWN", 0, old.exits + 1, asOf + ReleaseCooldown, o)
    <3> DEFINE changed == [old EXCEPT !.exits = old.exits + 1, !.entries = 0, !.state = "COOLDOWN",
                  !.until = asOf + ReleaseCooldown]
    <3>1. changed = [f \in DOMAIN old |-> IF f = "state" THEN "COOLDOWN" ELSE IF f = "entries" THEN 0 ELSE IF f = "exits" THEN old.exits + 1 ELSE IF f = "until" THEN asOf + ReleaseCooldown ELSE old[f]]
      BY <2>1
    <3> HIDE DEF changed
    <3>2. changed = Cluster("COOLDOWN", 0, old.exits + 1, asOf + ReleaseCooldown, o)
      BY <2>1, <3>1 DEF Cluster
    <3>3. QED
      BY <3>2 DEF changed
  <2>6. [old EXCEPT !.exits = old.exits + 1, !.entries = 0, !.state = "EXIT_PENDING"]
          = Cluster("EXIT_PENDING", 0, old.exits + 1, old.until, o)
    <3> DEFINE changed == [old EXCEPT !.exits = old.exits + 1, !.entries = 0, !.state = "EXIT_PENDING"]
    <3>1. changed = [f \in DOMAIN old |-> IF f = "state" THEN "EXIT_PENDING" ELSE IF f = "entries" THEN 0 ELSE IF f = "exits" THEN old.exits + 1 ELSE old[f]]
      BY <2>1
    <3> HIDE DEF changed
    <3>2. changed = Cluster("EXIT_PENDING", 0, old.exits + 1, old.until, o)
      BY <2>1, <3>1 DEF Cluster
    <3>3. QED
      BY <3>2 DEF changed
  <2>7. [old EXCEPT !.state = "ABSENT"] = Cluster("ABSENT", old.entries, old.exits, old.until, o)
    BY <2>1 DEF Cluster
  <2>8. next =
          IF ~healthy /\ retained THEN [old EXCEPT !.state = "STALE_RESTRICTED"]
          ELSE IF present THEN [old EXCEPT !.exits = 0, !.entries = old.entries + 1, !.state = again]
          ELSE IF held /\ retained THEN [old EXCEPT !.exits = 0, !.state = "ACTIVE"]
          ELSE IF retained /\ old.exits + 1 >= ExitCount
          THEN [old EXCEPT !.exits = old.exits + 1, !.entries = 0, !.state = "COOLDOWN",
                           !.until = asOf + ReleaseCooldown]
          ELSE IF retained
          THEN [old EXCEPT !.exits = old.exits + 1, !.entries = 0, !.state = "EXIT_PENDING"]
          ELSE IF old.state = "COOLDOWN" /\ asOf < old.until THEN old
          ELSE [old EXCEPT !.state = "ABSENT"]
    BY Zenon DEF LifecycleOf, again
  <2> HIDE DEF next
  <2>9. QED
    BY <2>1, <2>2, <2>3, <2>4, <2>5, <2>6, <2>7, <2>8, Zenon
<1> HIDE DEF next, again
<1>3. /\ new = [next EXCEPT !.observation = observed]
      /\ again \in {"ACTIVE", "ENTRY_PENDING"}
      /\ again = "ACTIVE" => retained \/ old.entries + 1 >= EntryCount
      /\ again = "ENTRY_PENDING" => ~(old.state \in {"ACTIVE", "STALE_RESTRICTED"})
  BY DEF Lifecycle, next, again, Retained
<1>4. ASSUME NEW s \in ClusterLifecycleState, NEW en \in Nat, NEW ex \in Nat, NEW u \in Nat,
             next = Cluster(s, en, ex, u, o)
      PROVE  IsCluster(new) /\ new.state = s /\ new.entries = en /\ new.exits = ex /\ new.until = u
  <2>1. new = Cluster(s, en, ex, u, observed)
    <3>1. next = [state |-> s, entries |-> en, exits |-> ex, until |-> u, observation |-> o]
      BY <1>4 DEF Cluster
    <3>2. QED
      BY <1>3, <3>1 DEF Cluster
  <2>2. /\ new.state = s /\ new.entries = en /\ new.exits = ex /\ new.until = u
        /\ new.observation = observed
    BY <2>1 DEF Cluster
  <2>3. new = [state |-> new.state, entries |-> new.entries, exits |-> new.exits,
               until |-> new.until, observation |-> new.observation]
    BY <2>1, <2>2 DEF Cluster
  <2>4. QED
    BY <2>2, <2>3 DEF IsCluster
<1> DEFINE Done == IsCluster(new) /\ Led(new, old, present, held, healthy, asOf)
<1>5. CASE ~healthy /\ retained
  <2>1. next = Cluster("STALE_RESTRICTED", old.entries, old.exits, old.until, o)
    BY <1>2, <1>5
  <2>2. QED
    BY <1>1, <1>4, <1>5, <2>1 DEF Led, ClusterLifecycleState
<1>6. CASE (healthy \/ ~retained) /\ present
  <2>1. next = Cluster(again, old.entries + 1, 0, old.until, o)
    BY <1>2, <1>6
  <2>2. again \in ClusterLifecycleState
    BY <1>3 DEF ClusterLifecycleState
  <2>3. /\ IsCluster(new) /\ new.state = again /\ new.entries = old.entries + 1 /\ new.exits = 0
        /\ new.until = old.until
    <3> DEFINE en == old.entries + 1
    <3>1. en \in Nat /\ 0 \in Nat
      BY <1>1
    <3> HIDE DEF en
    <3>2. next = Cluster(again, en, 0, old.until, o)
      BY <2>1 DEF en
    <3>3. IsCluster(new) /\ new.state = again /\ new.entries = en /\ new.exits = 0 /\ new.until = old.until
      BY <1>1, <1>4, <2>2, <3>1, <3>2
    <3>4. QED
      BY <3>3 DEF en
  <2>4. QED
    BY <1>3, <1>6, <2>3 DEF Led
<1>7. CASE healthy /\ ~present /\ held /\ retained
  <2>1. next = Cluster("ACTIVE", old.entries, 0, old.until, o)
    BY <1>2, <1>7
  <2>2. QED
    BY <1>1, <1>4, <1>7, <2>1 DEF Led, ClusterLifecycleState
<1>8. CASE healthy /\ ~present /\ ~held /\ retained /\ old.exits + 1 >= ExitCount
  <2> DEFINE ex == old.exits + 1
             u == asOf + ReleaseCooldown
  <2>1. next = Cluster("COOLDOWN", 0, ex, u, o)
    BY <1>2, <1>8
  <2>2. ex \in Nat /\ u \in Nat
    BY <1>1
  <2> HIDE DEF ex, u
  <2>3. /\ IsCluster(new) /\ new.state = "COOLDOWN" /\ new.entries = 0 /\ new.exits = ex /\ new.until = u
    BY <1>4, <2>1, <2>2 DEF ClusterLifecycleState
  <2>4. QED
    BY <1>8, <2>3 DEF Led, ex, u
<1>9. CASE healthy /\ ~present /\ ~held /\ retained /\ ~(old.exits + 1 >= ExitCount)
  <2> DEFINE ex == old.exits + 1
  <2>1. next = Cluster("EXIT_PENDING", 0, ex, old.until, o)
    BY <1>2, <1>9
  <2>2. ex \in Nat
    BY <1>1
  <2> HIDE DEF ex
  <2>3. IsCluster(new) /\ new.state = "EXIT_PENDING" /\ new.entries = 0 /\ new.exits = ex /\ new.until = old.until
    BY <1>1, <1>4, <2>1, <2>2 DEF ClusterLifecycleState
  <2>4. QED
    BY <1>9, <2>3 DEF Led, ex
<1>10. CASE ~retained /\ ~present /\ old.state = "COOLDOWN" /\ asOf < old.until
  <2>1. next = Cluster(old.state, old.entries, old.exits, old.until, o)
    BY <1>2, <1>10
  <2>2. QED
    BY <1>1, <1>4, <1>10, <2>1 DEF Led, ClusterLifecycleState
<1>11. CASE ~retained /\ ~present /\ ~(old.state = "COOLDOWN" /\ asOf < old.until)
  <2>1. next = Cluster("ABSENT", old.entries, old.exits, old.until, o)
    BY <1>2, <1>11
  <2>2. old.state = "COOLDOWN" => asOf >= old.until
    BY <1>1, <1>11
  <2>3. QED
    BY <1>1, <1>4, <1>11, <2>1, <2>2 DEF Led, ClusterLifecycleState
<1>12. QED
  BY <1>5, <1>6, <1>7, <1>8, <1>9, <1>10, <1>11

\* A set with one more member, or none.
LEMMA OneMore ==
  ASSUME NEW n \in Nat, NEW S \in SUBSET (1..n), NEW m, m = n + 1,
         NEW T, T = S \/ T = S \cup {m}
  PROVE  /\ Cardinality(S) \in Nat /\ Cardinality(T) \in Nat
         /\ T = S => Cardinality(T) = Cardinality(S)
         /\ m \in T => Cardinality(T) = Cardinality(S) + 1
<1>1. IsFiniteSet(S) /\ Cardinality(S) \in Nat
  BY FiniteSightings
<1>2. m \notin S
  OBVIOUS
<1>3. CASE T = S \cup {m}
  <2>1. Cardinality(T) = Cardinality(S) + 1
    BY <1>1, <1>2, <1>3, FS_AddElement
  <2>2. T # S
    BY <1>2, <1>3
  <2>3. QED
    BY <1>1, <2>1, <2>2
<1>4. CASE T = S
  BY <1>1, <1>2, <1>4
<1>5. QED
  BY <1>3, <1>4

\* What the invariant says of one set of members.
SoundCluster(c, seen) ==
  /\ IsCluster(c) /\ AreSightings(seen) /\ Confirmed(c, seen)
  /\ \A n \in 1..Len(seen) : WellFollowed(seen, n - 1, n)

\* x is an observation that leads from old to new.
Observes(new, old, x) ==
  /\ x.present \in BOOLEAN /\ x.held \in BOOLEAN /\ x.at \in Time
  /\ x.from = old.state /\ x.to = new.state
  /\ \E observed :
       new = [Lifecycle(old, x.present, x.held, x.healthy, x.at) EXCEPT !.observation = observed]

\* What follows a confirmed cluster is well followed, and confirmed in turn.
LEMMA LedFollowed ==
  ASSUME NEW S, NEW seen \in Seq(S), NEW old, SoundCluster(old, seen), NEW x, NEW new, Observes(new, old, x),
         NEW more, more = Append(seen, x), NEW n, n = Len(seen), NEW m, m = n + 1
  PROVE  IsCluster(new) /\ Confirmed(new, more) /\ WellFollowed(more, n, m)
<1> DEFINE present == x.present
           held == x.held
           healthy == x.healthy
           asOf == x.at
<1>old. IsCluster(old) /\ Confirmed(old, seen)
  BY DEF SoundCluster
<1>seen. /\ present \in BOOLEAN /\ held \in BOOLEAN /\ asOf \in Nat
      /\ x.from = old.state /\ x.to = new.state
  BY ClusterConstants DEF Observes, Time
<1>led. IsCluster(new) /\ Led(new, old, present, held, healthy, asOf)
  <2>1. PICK observed :
          new = [Lifecycle(old, present, held, healthy, asOf) EXCEPT !.observation = observed]
    BY DEF Observes
  <2> HIDE DEF present, held, healthy, asOf
  <2>2. QED
    BY <1>old, <1>seen, <2>1, LedFacts
<1> DEFINE R == Releases(seen, n)
           K == Retentions(seen, n)
           E == Entering(seen, n, R)
           X == Exiting(seen, n, K)
           retained == old.state \in Retained
           releases == new.state = "COOLDOWN" /\ retained
           retains == healthy /\ (held \/ present)
           releasing == healthy /\ retained
           EM == Entering(more, m, R)
           XM == Exiting(more, m, K)
<1>1. /\ n \in Nat /\ m \in Nat /\ m = n + 1 /\ Len(more) = m /\ more[m] = x
      /\ \A k \in 1..n : more[k] = seen[k] /\ k < m
  OBVIOUS
<1>2. /\ Releases(more, m) = R \cup (IF releases THEN {m} ELSE {})
      /\ Retentions(more, m) = K \cup (IF retains THEN {m} ELSE {})
      /\ EM = E \cup (IF present THEN {m} ELSE {})
      /\ XM = X \cup (IF releasing THEN {m} ELSE {})
      /\ \A A : m \in A => Entering(more, m, A) = {} /\ Exiting(more, m, A) = {}
  <2>1. Grown(seen, n, more, m, x)
    BY AnotherSighting
  <2>2. /\ releases <=> x.to = "COOLDOWN" /\ x.from \in Retained
        /\ retains <=> x.healthy /\ (x.held \/ x.present)
        /\ present <=> x.present
        /\ releasing <=> x.healthy /\ x.from \in Retained
    BY <1>seen
  <2> HIDE DEF releases, retains, releasing
  <2>3. QED
    BY <2>1, <2>2 DEF Grown
<1>3. Releases(more, n) = R
  BY <1>1 DEF Releases
<1>4. /\ R \subseteq 1..n /\ K \subseteq 1..n /\ E \subseteq 1..n /\ X \subseteq 1..n
  BY DEF Releases, Retentions, Entering, Exiting
<1>5. /\ old.entries <= Cardinality(E)
      /\ retained => old.exits <= Cardinality(X)
      /\ old.state = "COOLDOWN" => \E r : IsLatest(R, r) /\ old.until = seen[r].at + ReleaseCooldown
  BY <1>old DEF Confirmed
<1> HIDE DEF R, K, E, X, EM, XM
<1>6. /\ Cardinality(E) \in Nat /\ Cardinality(EM) \in Nat
      /\ Cardinality(EM) = Cardinality(E) + (IF present THEN 1 ELSE 0)
  <2>1. (EM = E \/ EM = E \cup {m}) /\ (present => m \in EM) /\ (~present => EM = E)
    BY <1>2
  <2>2. E \in SUBSET (1..n)
    BY <1>4
  <2>3. /\ Cardinality(E) \in Nat /\ Cardinality(EM) \in Nat
        /\ EM = E => Cardinality(EM) = Cardinality(E)
        /\ m \in EM => Cardinality(EM) = Cardinality(E) + 1
    BY <1>1, <2>1, <2>2, OneMore
  <2>4. QED
    BY <2>1, <2>3
<1>7. /\ Cardinality(X) \in Nat /\ Cardinality(XM) \in Nat
      /\ Cardinality(XM) = Cardinality(X) + (IF releasing THEN 1 ELSE 0)
  <2> HIDE DEF releasing
  <2>1. (XM = X \/ XM = X \cup {m}) /\ (releasing => m \in XM) /\ (~releasing => XM = X)
    BY <1>2
  <2>2. X \in SUBSET (1..n)
    BY <1>4
  <2>3. /\ Cardinality(X) \in Nat /\ Cardinality(XM) \in Nat
        /\ XM = X => Cardinality(XM) = Cardinality(X)
        /\ m \in XM => Cardinality(XM) = Cardinality(X) + 1
    BY <1>1, <2>1, <2>2, OneMore
  <2>4. QED
    BY <2>1, <2>3
<1>8. Cardinality({}) = 0
  BY FS_EmptySet
<1>9. /\ old.state \in ClusterLifecycleState /\ old.entries \in Nat /\ old.exits \in Nat
      /\ new.state \in ClusterLifecycleState /\ new.entries \in Nat /\ new.exits \in Nat
      /\ EntryCount \in Nat /\ ExitCount \in Nat
  BY <1>old, <1>led, ClusterConstants DEF IsCluster
<1>10. new.entries <= Cardinality(Entering(more, m, Releases(more, m)))
  <2>1. CASE releases
    <3>1. new.entries = 0
      BY <1>led, <2>1 DEF Led, Retained
    <3>2. Entering(more, m, Releases(more, m)) = {}
      BY <1>2, <2>1
    <3>3. Cardinality(Entering(more, m, Releases(more, m))) = 0
      BY <1>8, <3>2, Zenon
    <3>4. QED
      BY <3>1, <3>3
  <2>2. CASE ~releases
    <3>1. Entering(more, m, Releases(more, m)) = EM
      BY <1>2, <2>2 DEF EM
    <3>2. new.entries <= old.entries + (IF present THEN 1 ELSE 0)
      BY <1>led, <1>9 DEF Led
    <3>3. QED
      BY <1>5, <1>6, <1>9, <3>1, <3>2
  <2>3. QED
    BY <2>1, <2>2
<1>11. ASSUME new.state \in Retained
       PROVE  new.exits <= Cardinality(Exiting(more, m, Retentions(more, m)))
  <2>1. CASE retains
    <3>1. new.exits = 0
      BY <1>led, <1>11, <2>1 DEF Led, Retained
    <3>2. Exiting(more, m, Retentions(more, m)) = {}
      BY <1>2, <2>1
    <3>3. Cardinality(Exiting(more, m, Retentions(more, m))) = 0
      BY <1>8, <3>2, Zenon
    <3>4. QED
      BY <3>1, <3>3
  <2>2. CASE ~retains
    <3>1. Exiting(more, m, Retentions(more, m)) = XM
      BY <1>2, <2>2 DEF XM
    <3>2. new.exits = 0 \/ (retained /\ new.exits <= old.exits + (IF releasing THEN 1 ELSE 0))
      BY <1>led, <1>9, <1>11, <2>2 DEF Led, Retained
    <3>3. QED
      BY <1>5, <1>7, <1>9, <3>1, <3>2
  <2>3. QED
    BY <2>1, <2>2
<1>12. ASSUME new.state = "COOLDOWN"
       PROVE  \E r : IsLatest(Releases(more, m), r) /\ new.until = more[r].at + ReleaseCooldown
  <2>1. CASE retained
    <3>1. new.until = asOf + ReleaseCooldown
      BY <1>led, <1>12, <2>1 DEF Led
    <3>2. IsLatest(Releases(more, m), m)
      <4>1. Releases(more, m) = R \cup {m}
        BY <1>2, <1>12, <2>1
      <4>2. \A k \in 1..n : k <= m
        BY <1>1
      <4>3. \A k \in R : k <= m
        BY <1>4, <4>2
      <4>4. QED
        BY <1>1, <4>1, <4>3 DEF IsLatest
    <3>3. more[m].at = asOf
      BY <1>1
    <3>4. QED
      BY <3>1, <3>2, <3>3
  <2>2. CASE ~retained
    <3>1. old.state = "COOLDOWN" /\ new.until = old.until
      BY <1>led, <1>12, <2>2 DEF Led
    <3>2. PICK r : IsLatest(R, r) /\ old.until = seen[r].at + ReleaseCooldown
      BY <1>5, <3>1
    <3>3. Releases(more, m) = R
      BY <1>2, <2>2
    <3>4. r \in 1..n
      BY <1>4, <3>2 DEF IsLatest
    <3>5. QED
      BY <1>1, <3>1, <3>2, <3>3, <3>4
  <2>3. QED
    BY <2>1, <2>2
<1>13. Confirmed(new, more)
  BY <1>1, <1>10, <1>11, <1>12 DEF Confirmed
<1>14. ASSUME new.state = "COOLDOWN", old.state # "COOLDOWN"
       PROVE  retained /\ Cardinality(Exiting(more, m, Retentions(more, m))) >= ExitCount
  <2>1. retained /\ healthy /\ ~present /\ ~held /\ old.exits + 1 >= ExitCount
    BY <1>led, <1>14 DEF Led
  <2>2. Exiting(more, m, Retentions(more, m)) = XM
    BY <1>2, <2>1 DEF XM
  <2>3. QED
    BY <1>5, <1>7, <1>9, <2>1, <2>2
<1>15. ASSUME ~retained, new.state \in Retained
       PROVE  Cardinality(EM) >= EntryCount
  <2>1. present /\ old.entries + 1 >= EntryCount
    BY <1>led, <1>15 DEF Led, Retained
  <2>2. QED
    BY <1>5, <1>6, <1>9, <2>1
<1>16. ASSUME old.state = "COOLDOWN", new.state = "ABSENT"
       PROVE  \E r : IsLatest(R, r) /\ asOf >= more[r].at + ReleaseCooldown
  <2>1. asOf >= old.until
    BY <1>led, <1>16 DEF Led, Retained
  <2>2. PICK r : IsLatest(R, r) /\ old.until = seen[r].at + ReleaseCooldown
    BY <1>5, <1>16
  <2>3. r \in 1..n
    BY <1>4, <2>2 DEF IsLatest
  <2>4. QED
    BY <1>1, <2>1, <2>2, <2>3
<1>17. old.state = "COOLDOWN" => present \/ new.state \in {"COOLDOWN", "ABSENT"}
  BY <1>led DEF Led, Retained
<1>18. retained /\ ~healthy => new.state = "STALE_RESTRICTED"
  BY <1>led DEF Led
<1>19. WellFollowed(more, n, m)
  BY <1>seen, <1>1, <1>3, <1>14, <1>15, <1>16, <1>17, <1>18 DEF WellFollowed, EM
<1>20. QED
  BY <1>led, <1>13, <1>19

\* One set of members that is observed stays sound.
LEMMA ObservedStaysSound ==
  ASSUME NEW old, NEW seen, SoundCluster(old, seen), NEW x, NEW new, Observes(new, old, x)
  PROVE  SoundCluster(new, Append(seen, x))
<1> DEFINE more == Append(seen, x)
           n == Len(seen)
           m == n + 1
<1>1. PICK S : seen \in Seq(S) /\ \A s \in S : s.at \in Nat
  BY DEF SoundCluster, AreSightings
<1>2. x.at \in Nat
  BY ClusterConstants DEF Observes, Time
<1>3. more = Append(seen, x) /\ n = Len(seen) /\ m = n + 1 /\ n \in Nat /\ Len(more) = m
  BY <1>1
<1>4. AreSightings(more)
  <2> DEFINE T == S \cup {x}
  <2>1. more \in Seq(T) /\ \A s \in T : s.at \in Nat
    BY <1>1, <1>2
  <2> HIDE DEF T, more
  <2>2. QED
    BY <2>1 DEF AreSightings
<1> HIDE DEF more, n, m
<1>5. IsCluster(new) /\ Confirmed(new, more) /\ WellFollowed(more, n, m)
  BY <1>1, <1>3, LedFollowed
<1>6. ASSUME NEW k \in 1..Len(more) PROVE WellFollowed(more, k - 1, k)
  <2>1. CASE k \in 1..n
    <3>1. k \in 1..Len(seen) /\ WellFollowed(seen, k - 1, k)
      BY <1>3, <2>1 DEF SoundCluster
    <3>2. QED
      BY <1>1, <1>3, <3>1, StaysFollowed
  <2>2. CASE k \notin 1..n
    <3>1. k = m /\ k - 1 = n
      BY <1>3, <1>6, <2>2
    <3>2. QED
      BY <1>5, <3>1
  <2>3. QED
    BY <2>1, <2>2
<1>7. SoundCluster(new, more)
  BY <1>4, <1>5, <1>6 DEF SoundCluster
<1>8. QED
  BY <1>7 DEF more

\* A snapshot keeps the invariant.
LEMMA SightedKeeps ==
  ASSUME ClusterInvariant, NEW raw, NEW held, NEW healthy, NEW observed, NEW asOf \in Time,
         Sighted(raw, held, healthy, observed, asOf)
  PROVE  ClusterInvariant'
<1> DEFINE old == correlation.clusters
           counted == {m \in Members : LET c == correlation.clusters[m]
                                       IN /\ m \in raw \cup held \/ c.observation # None
                                          /\ c.observation # observed}
           next == [m \in counted |-> [Lifecycle(old[m], m \in raw, m \in held, healthy, asOf)
                                         EXCEPT !.observation = observed]]
           row(m) == [present |-> m \in raw, held |-> m \in held, healthy |-> healthy,
                      from |-> old[m].state, to |-> next[m].state, at |-> asOf]
           clusters == [m \in Members |-> IF m \in counted THEN next[m] ELSE old[m]]
<1>1. /\ correlation' = [correlation EXCEPT !.clusters = clusters]
      /\ sightings' = [m \in Members |-> IF m \notin counted THEN sightings[m]
                                         ELSE Append(sightings[m], row(m))]
  BY DEF Sighted
<1>2. counted \subseteq Members /\ DOMAIN next = counted
  OBVIOUS
<1>3. \A m \in counted : next[m] = [Lifecycle(old[m], m \in raw, m \in held, healthy, asOf)
                                      EXCEPT !.observation = observed]
  OBVIOUS
<1>4. \A m \in counted : row(m) = [present |-> m \in raw, held |-> m \in held, healthy |-> healthy,
                                   from |-> old[m].state, to |-> next[m].state, at |-> asOf]
  OBVIOUS
<1>5. DOMAIN old = Members /\ DOMAIN sightings = Members /\ \A m \in Members : SoundCluster(old[m], sightings[m])
  BY DEF ClusterInvariant, SoundCluster
<1>next. /\ DOMAIN clusters = Members
      /\ \A m \in Members : clusters[m] = IF m \in counted THEN next[m] ELSE old[m]
  OBVIOUS
<1> HIDE DEF counted, next, row, old, clusters
<1>6. /\ correlation'.clusters = clusters
      /\ correlation' = [clusters |-> correlation'.clusters, restricted |-> correlation'.restricted]
  BY <1>1 DEF ClusterInvariant, old
<1>7. /\ DOMAIN correlation'.clusters = Members
      /\ \A m \in Members : correlation'.clusters[m] = IF m \in counted THEN next[m] ELSE old[m]
  BY <1>next, <1>6
<1>8. ASSUME NEW m \in Members PROVE SoundCluster(correlation'.clusters[m], sightings'[m])
  <2>1. CASE m \notin counted
    BY <1>1, <1>5, <1>7, <2>1
  <2>2. CASE m \in counted
    <3> DEFINE x == row(m)
    <3>1. x = [present |-> m \in raw, held |-> m \in held, healthy |-> healthy,
               from |-> old[m].state, to |-> next[m].state, at |-> asOf]
      BY <1>4, <2>2
    <3> HIDE DEF x
    <3>2. /\ x.present = (m \in raw) /\ x.held = (m \in held) /\ x.healthy = healthy
          /\ x.from = old[m].state /\ x.to = next[m].state /\ x.at = asOf
      BY <3>1
    <3>3. correlation'.clusters[m] = next[m] /\ sightings'[m] = Append(sightings[m], x)
      BY <1>1, <1>7, <2>2 DEF x
    <3>4. SoundCluster(next[m], Append(sightings[m], x))
      <4>1. next[m] = [Lifecycle(old[m], x.present, x.held, x.healthy, x.at) EXCEPT !.observation = observed]
        BY <1>3, <2>2, <3>2
      <4>2. x.present \in BOOLEAN /\ x.held \in BOOLEAN /\ x.at \in Time
        BY <3>2
      <4>3. \E o : next[m] = [Lifecycle(old[m], x.present, x.held, x.healthy, x.at) EXCEPT !.observation = o]
        BY <4>1, Zenon
      <4>4. Observes(next[m], old[m], x)
        BY <3>2, <4>2, <4>3, Zenon DEF Observes
      <4>5. QED
        BY <1>5, <4>4, ObservedStaysSound
    <3>5. QED
      BY <3>3, <3>4
  <2>3. QED
    BY <2>1, <2>2
<1>9. DOMAIN sightings' = Members
  BY <1>1
<1>10. QED
  BY <1>6, <1>7, <1>8, <1>9 DEF ClusterInvariant, SoundCluster, Members

\* The engine's steps keep the invariant.
LEMMA NextCorrelation ==
  ASSUME ClusterInvariant, [CorrelationNext]_correlationVars
  PROVE  ClusterInvariant'
<1>1. ASSUME NEW b \in DOMAIN Books, NEW s \in DOMAIN SeriesBooks, NEW t \in Time, Snapshot(b, s, t)
      PROVE  ClusterInvariant'
  <2>1. PICK raw, held, healthy, observed : Sighted(raw, held, healthy, observed, t)
    BY <1>1, Zenon DEF Snapshot
  <2>2. QED
    BY <2>1, SightedKeeps
<1>2. ASSUME NEW b \in DOMAIN Books, NEW s \in DOMAIN SeriesBooks, NEW c \in Admissions, Assess(c, b, s)
      PROVE  ClusterInvariant'
  <2>1. correlation' = correlation /\ sightings' = sightings
    BY <1>2 DEF Assess
  <2>2. QED
    BY <2>1 DEF ClusterInvariant
<1>3. CASE RestartCorrelation \/ RestartCorrelationRefused
  <2>1. PICK r : correlation' = [correlation EXCEPT !.restricted = r] /\ sightings' = sightings
    BY <1>3 DEF RestartCorrelation, RestartCorrelationRefused
  <2>2. correlation'.clusters = correlation.clusters
        /\ correlation' = [clusters |-> correlation'.clusters, restricted |-> correlation'.restricted]
    BY <2>1 DEF ClusterInvariant
  <2>3. QED
    BY <2>1, <2>2 DEF ClusterInvariant
<1>4. CASE UNCHANGED correlationVars
  BY <1>4 DEF correlationVars, ClusterInvariant
<1>5. QED
  BY <1>1, <1>2, <1>3, <1>4 DEF CorrelationNext

\* What comes since the latest of a set.
LEMMA SinceTheLatest ==
  ASSUME NEW n \in Nat, NEW S \in SUBSET (1..n), NEW m \in Nat
  PROVE  {k \in 1..m : \A r \in S : r < k} = (IF S = {} THEN 1 ELSE Max(S) + 1)..m
<1>1. CASE S = {}
  BY <1>1
<1>2. CASE S # {}
  <2> DEFINE g == Max(S)
  <2>1. g \in S /\ \A r \in S : r <= g
    <3>1. S \in SUBSET (0..n)
      OBVIOUS
    <3>2. QED
      BY <1>2, <3>1, GreatestOf
  <2> HIDE DEF g
  <2>2. g \in Nat /\ g >= 1 /\ \A r \in S : r \in Nat
    BY <2>1
  <2>3. ASSUME NEW k \in 1..m PROVE (\A r \in S : r < k) <=> k \in (g + 1)..m
    BY <2>1, <2>2
  <2>4. \A k \in (g + 1)..m : k \in 1..m
    BY <2>2
  <2>5. {k \in 1..m : \A r \in S : r < k} = (g + 1)..m
    BY <2>3, <2>4
  <2>6. QED
    BY <1>2, <2>5 DEF g
<1>3. QED
  BY <1>1, <1>2

\* What the invariant says is what the property does.
LEMMA InvariantConfirms == ClusterInvariant => ClustersEarned
<1> SUFFICES ASSUME ClusterInvariant PROVE ClustersEarned
  OBVIOUS
<1>1. CorrelationTypeOK
  BY DEF ClusterInvariant, IsCluster, CorrelationTypeOK
<1>2. ASSUME NEW m \in DOMAIN sightings, NEW n \in DOMAIN sightings[m]
      PROVE  LET seen     == sightings[m]
                 cur      == seen[n]
                 released == {k \in 1..(n - 1) : seen[k].to = "COOLDOWN" /\ seen[k].from \in Retained}
                 kept     == {k \in 1..n : seen[k].healthy /\ (seen[k].held \/ seen[k].present)}
                 since(S) == IF S = {} THEN 1 ELSE Max(S) + 1
             IN /\ cur.to = "COOLDOWN" /\ cur.from # "COOLDOWN" =>
                     /\ cur.from \in Retained
                     /\ Cardinality({k \in since(kept)..n : seen[k].healthy /\ seen[k].from \in Retained})
                          >= ExitCount
                /\ cur.from \notin Retained /\ cur.to \in Retained =>
                     Cardinality({k \in since(released)..n : seen[k].present}) >= EntryCount
                /\ cur.from = "COOLDOWN" /\ cur.to = "ABSENT" =>
                     cur.at >= seen[Max(released)].at + ReleaseCooldown
                /\ cur.from = "COOLDOWN" => cur.present \/ cur.to \in {"COOLDOWN", "ABSENT"}
                /\ cur.from \in Retained /\ ~cur.healthy => cur.to = "STALE_RESTRICTED"
  <2> DEFINE seen == sightings[m]
             released == Releases(seen, n - 1)
             kept == Retentions(seen, n)
             since(S) == IF S = {} THEN 1 ELSE Max(S) + 1
  <2>1. n \in 1..Len(seen) /\ n \in Nat /\ n - 1 \in Nat /\ WellFollowed(seen, n - 1, n)
    <3>1. m \in Members /\ AreSightings(seen)
      BY DEF ClusterInvariant
    <3>2. PICK S : seen \in Seq(S)
      BY <3>1 DEF AreSightings
    <3>3. n \in 1..Len(seen)
      BY <3>2
    <3>4. QED
      BY <3>1, <3>3 DEF ClusterInvariant
  <2>2. /\ released = {k \in 1..(n - 1) : seen[k].to = "COOLDOWN" /\ seen[k].from \in Retained}
        /\ kept = {k \in 1..n : seen[k].healthy /\ (seen[k].held \/ seen[k].present)}
    BY DEF Releases, Retentions
  <2>3. released \in SUBSET (1..n) /\ kept \in SUBSET (1..n)
    BY <2>1 DEF Releases, Retentions
  <2> HIDE DEF seen, released, kept
  <2>4. {k \in since(kept)..n : seen[k].healthy /\ seen[k].from \in Retained} = Exiting(seen, n, kept)
    <3>1. {k \in 1..n : \A r \in kept : r < k} = since(kept)..n
      BY <2>1, <2>3, SinceTheLatest
    <3> HIDE DEF since
    <3>2. QED
      BY <3>1 DEF Exiting
  <2>5. {k \in since(released)..n : seen[k].present} = Entering(seen, n, released)
    <3>1. {k \in 1..n : \A r \in released : r < k} = since(released)..n
      BY <2>1, <2>3, SinceTheLatest
    <3> HIDE DEF since
    <3>2. QED
      BY <3>1 DEF Entering
  <2>6. \A r : IsLatest(released, r) => r = Max(released)
    <3> SUFFICES ASSUME NEW r, IsLatest(released, r) PROVE r = Max(released)
      OBVIOUS
    <3>1. released # {} /\ released \in SUBSET (0..n)
      BY <2>3 DEF IsLatest
    <3>2. Max(released) \in released /\ \A k \in released : k <= Max(released)
      BY <2>1, <3>1, GreatestOf
    <3>3. r \in released /\ r <= Max(released) /\ Max(released) <= r
      BY <3>2 DEF IsLatest
    <3> DEFINE g == Max(released)
    <3>4. r \in released /\ g \in released /\ r <= g /\ g <= r
      BY <3>2, <3>3
    <3> HIDE DEF g
    <3>5. r \in Int /\ g \in Int
      BY <2>3, <3>4
    <3>6. QED
      BY <3>4, <3>5 DEF g
  <2>7. /\ seen[n].to = "COOLDOWN" /\ seen[n].from # "COOLDOWN" =>
             /\ seen[n].from \in Retained
             /\ Cardinality(Exiting(seen, n, kept)) >= ExitCount
        /\ seen[n].from \notin Retained /\ seen[n].to \in Retained =>
             Cardinality(Entering(seen, n, released)) >= EntryCount
        /\ seen[n].from = "COOLDOWN" /\ seen[n].to = "ABSENT" =>
             seen[n].at >= seen[Max(released)].at + ReleaseCooldown
        /\ seen[n].from = "COOLDOWN" => seen[n].present \/ seen[n].to \in {"COOLDOWN", "ABSENT"}
        /\ seen[n].from \in Retained /\ ~seen[n].healthy => seen[n].to = "STALE_RESTRICTED"
    BY <2>1, <2>6 DEF WellFollowed, released, kept
  <2> HIDE DEF since
  <2>8. /\ seen[n].to = "COOLDOWN" /\ seen[n].from # "COOLDOWN" =>
             /\ seen[n].from \in Retained
             /\ Cardinality({k \in since(kept)..n : seen[k].healthy /\ seen[k].from \in Retained})
                  >= ExitCount
        /\ seen[n].from \notin Retained /\ seen[n].to \in Retained =>
             Cardinality({k \in since(released)..n : seen[k].present}) >= EntryCount
    BY <2>4, <2>5, <2>7
  <2>9. QED
    BY <2>2, <2>7, <2>8, Zenon DEF seen, since
<1>3. QED
  BY <1>1, <1>2, Zenon DEF ClustersEarned

\* ClustersEarned: a cluster is entered and released only as confirmed, its cooldown
\* is served, and observations that are not healthy only restrict it, for every
\* book, series, window and number of confirmations, across restarts.
THEOREM ClustersAreEarned == CorrelationSpec => []ClustersEarned
<1>1. CorrelationInit => ClusterInvariant
  <2> SUFFICES ASSUME CorrelationInit PROVE ClusterInvariant
    OBVIOUS
  <2>1. /\ correlation = [clusters |-> [m \in Members |-> NewCluster], restricted |-> FALSE]
        /\ sightings = [m \in Members |-> <<>>]
    BY DEF CorrelationInit
  <2>2. IsCluster(NewCluster)
    BY DEF IsCluster, NewCluster, ClusterLifecycleState
  <2>3. AreSightings(<<>>)
    <3> SUFFICES \E S : <<>> \in Seq(S) /\ \A s \in S : s.at \in Nat
      BY DEF AreSightings
    <3> DEFINE S == {}
    <3>1. <<>> \in Seq(S) /\ \A s \in S : s.at \in Nat
      OBVIOUS
    <3> HIDE DEF S
    <3>2. QED
      BY <3>1
  <2>4. Confirmed(NewCluster, <<>>)
    <3>1. Entering(<<>>, 0, Releases(<<>>, 0)) = {}
      BY DEF Entering
    <3>2. Cardinality(Entering(<<>>, 0, Releases(<<>>, 0))) = 0
      BY <3>1, FS_EmptySet, Zenon
    <3>3. Len(<<>>) = 0
      OBVIOUS
    <3>4. NewCluster.entries = 0 /\ NewCluster.state = "ABSENT"
      BY DEF NewCluster
    <3>5. QED
      BY <3>2, <3>3, <3>4 DEF Confirmed, Retained
  <2>5. 1..Len(<<>>) = {}
    OBVIOUS
  <2>6. \A m \in Members : correlation.clusters[m] = NewCluster /\ sightings[m] = <<>>
    BY <2>1
  <2>7. DOMAIN correlation.clusters = Members /\ DOMAIN sightings = Members
    BY <2>1
  <2>8. correlation = [clusters |-> correlation.clusters, restricted |-> correlation.restricted]
    BY <2>1
  <2>9. QED
    BY <2>2, <2>3, <2>4, <2>5, <2>6, <2>7, <2>8 DEF ClusterInvariant
<1>2. ClusterInvariant /\ [CorrelationNext]_correlationVars => ClusterInvariant'
  BY NextCorrelation
<1>3. QED
  BY <1>1, <1>2, InvariantConfirms, PTL DEF CorrelationSpec

-----------------------------------------------------------------------------
(* Theses and their risk: what is given of the budget is earned.           *)

SnapshotIds == {s.id : s \in Snapshots}

Distances == (Nat \ {0}) \cup {None}

\* A decision about a thesis: the identity is that of the content.
ThesisDecision ==
  [id : SnapshotIds \X Distances, snapshot : SnapshotIds, distance : Distances,
   status : InvalidationLifecycle]

ThesisKey == SnapshotIds \X (Structures \cup {None}) \X (Atrs \cup {None}) \X Additions

ThesisEvent == [id : (SnapshotIds \X Distances) \X Time, decision : SnapshotIds \X Distances]

Theses ==
  [decisions : Seq(ThesisDecision), events : Seq(ThesisEvent), states : Seq(ThesisDecision),
   cache : Seq([id : ThesisKey, decision : ThesisDecision])]

RiskState == [id : SnapshotIds, state : AdaptiveRiskState, count : Nat, cooldown : Nat]

Judgement == [proposed : AdaptiveRiskState, accepted : AdaptiveRiskState]

\* What RestrictionEarned says of a result.
SoundResult(r) ==
  /\ RiskOf(r.exposure, r.decision.distance, r.decision.cost) <= r.risk
  /\ 100 * r.risk <= StateCap[r.state] * r.decision.budget
  /\ r.exposure <= r.decision.exposure

\* What RestrictionEarned says of the n-th judgement.
WellJudged(history, n) ==
  LET cur == history[n] before == history[n - 1]
  IN IF cur.proposed >= before.accepted THEN cur.accepted = cur.proposed
     ELSE /\ cur.accepted \in {before.accepted, before.accepted - 1}
          /\ cur.accepted < before.accepted =>
               /\ n > RiskConfirmations
               /\ \A k \in (n - RiskConfirmations + 1)..n :
                    history[k].proposed < history[k - 1].accepted

\* A risk state is the last that was accepted, and counts milder proposals in a row.
AsJudged(s, history) ==
  /\ s.count < Len(history) /\ s.state = history[Len(history)].accepted
  /\ \A k \in (Len(history) - s.count + 1)..Len(history) :
       history[k].proposed < history[k - 1].accepted

\* Results callers may get again.
SoundCache(cache) == \E S : cache \in Seq(S) /\ \A e \in S : SoundResult(e.result)

\* The inductive invariant.
RiskInvariant ==
  /\ theses \in Theses
  /\ adaptive = [peak |-> adaptive.peak, states |-> adaptive.states, cache |-> adaptive.cache]
  /\ adaptive.peak = highest
  /\ adaptive.states \in Seq({s \in RiskState : AsJudged(s, judged[s.id])})
  /\ SoundCache(adaptive.cache) /\ (given # None => SoundResult(given))
  /\ judged \in [SnapshotIds -> Seq(Judgement)]
  /\ \A i \in SnapshotIds :
       /\ Held(adaptive.states, i) \/ judged[i] = <<>>
       /\ \A n \in 2..Len(judged[i]) : WellJudged(judged[i], n)

\* A part of an amount.
LEMMA PartOf ==
  ASSUME NEW x \in Nat, NEW p \in 0..100
  PROVE  /\ (x * p) \div 100 \in Nat /\ (x * p) \div 100 <= x
         /\ 100 * ((x * p) \div 100) <= x * p
<1>1. x * p \in Nat /\ x * p <= 100 * x
  OBVIOUS
<1> DEFINE y == x * p
<1>2. y \in Nat /\ y <= 100 * x
  BY <1>1
<1> HIDE DEF y
<1>3. y \div 100 \in Nat /\ y \div 100 <= x /\ 100 * (y \div 100) <= y
  BY <1>2
<1>4. QED
  BY <1>3 DEF y

\* An exposure within what is quantized loses no more than the risk.
LEMMA QuantizedFacts ==
  ASSUME NEW risk \in Nat, NEW distance \in Nat \ {0}, NEW cost \in Nat
  PROVE  /\ Quantized(risk, distance, cost) \in Nat
         /\ \A x \in Nat : x > 0 /\ x <= Quantized(risk, distance, cost) =>
              x * distance + cost <= risk
<1> DEFINE free == Greatest(0, risk - cost)
           whole == free \div distance
<1>1. MaxExposure \in Nat /\ MinExposure \in Nat
  BY AdaptiveAssumption DEF RiskSizingConfiguration
<1>2. free \in Nat /\ (free > 0 => free = risk - cost)
  BY DEF Greatest
<1> HIDE DEF free
<1>3. whole \in Nat /\ whole * distance <= free
  BY <1>2
<1> HIDE DEF whole
<1>4. Quantized(risk, distance, cost) \in Nat /\ Quantized(risk, distance, cost) <= whole
  <2>1. \/ Quantized(risk, distance, cost) = 0
        \/ Quantized(risk, distance, cost) = Least(whole, MaxExposure)
    BY DEF Quantized, whole, free
  <2>2. QED
    BY <1>1, <1>3, <2>1 DEF Least
<1>5. ASSUME NEW x \in Nat, x > 0, x <= Quantized(risk, distance, cost) PROVE x * distance + cost <= risk
  <2>1. x <= whole /\ x * distance <= whole * distance /\ x * distance > 0
    BY <1>3, <1>4, <1>5
  <2>2. x * distance \in Nat /\ whole * distance \in Nat
    BY <1>3
  <2>3. QED
    BY <1>2, <1>3, <2>1, <2>2
<1>6. QED
  BY <1>4, <1>5

\* What is given of a budget is sound.
LEMMA GivenFacts ==
  ASSUME NEW d, d.budget \in Nat, d.exposure \in Nat, d.distance \in Nat \ {0}, d.cost \in Nat,
         NEW capped \in Nat, NEW state \in AdaptiveRiskState
  PROVE  SoundResult(Given(d, capped, state))
<1> DEFINE p == StateCap[state]
           risk == Least(capped, (d.budget * p) \div 100)
           exposure == IF risk = 0 THEN 0 ELSE Least(Quantized(risk, d.distance, d.cost), d.exposure)
<1>1. p \in 0..100
  BY DEF StateCap, AdaptiveRiskState
<1>2. Given(d, capped, state) = [decision |-> d, risk |-> risk, state |-> state, exposure |-> exposure]
  BY DEF Given
<1> HIDE DEF p
<1>3. (d.budget * p) \div 100 \in Nat /\ 100 * ((d.budget * p) \div 100) <= d.budget * p
  BY <1>1, PartOf
<1>4. risk \in Nat /\ 100 * risk <= d.budget * p
  <2> DEFINE whole == d.budget * p
             part == whole \div 100
  <2>1. whole \in Nat /\ part \in Nat /\ 100 * part <= whole
    BY <1>1, <1>3
  <2>2. risk = Least(capped, part)
    OBVIOUS
  <2> HIDE DEF risk, part, whole
  <2>3. risk \in Nat /\ 100 * risk <= whole
    BY <2>1, <2>2 DEF Least
  <2>4. QED
    BY <2>3 DEF whole
<1> HIDE DEF risk
<1>5. d.budget * p = p * d.budget
  BY <1>1
<1>6. Quantized(risk, d.distance, d.cost) \in Nat
  BY <1>4, QuantizedFacts
<1>7. /\ exposure \in Nat /\ exposure <= d.exposure
      /\ exposure > 0 => exposure <= Quantized(risk, d.distance, d.cost)
  BY <1>4, <1>6 DEF Least
<1> HIDE DEF exposure
<1>8. RiskOf(exposure, d.distance, d.cost) <= risk
  <2>1. CASE exposure = 0
    BY <1>4, <2>1 DEF RiskOf
  <2>2. CASE exposure > 0
    <3>1. exposure \in Nat /\ exposure <= Quantized(risk, d.distance, d.cost)
      BY <1>7, <2>2
    <3>2. exposure * d.distance + d.cost <= risk
      BY <1>4, <2>2, <3>1, QuantizedFacts
    <3>3. QED
      BY <2>2, <3>2 DEF RiskOf
  <2>3. QED
    BY <1>7, <2>1, <2>2
<1>9. QED
  BY <1>2, <1>4, <1>5, <1>7, <1>8 DEF SoundResult, p

\* The state that a part of a budget is classified as.
LEMMA ClassifyFacts ==
  ASSUME NEW amount \in Nat, NEW budget \in Nat, amount <= budget
  PROVE  Classify(amount, budget) \in AdaptiveRiskState
<1> DEFINE within(t) == 100 * amount <= <<100, 99, 60, 30, 10>>[t + 1] * budget
           good(s) == within(s) /\ (s < 4 => ~within(s + 1))
<1>1. within(0)
  OBVIOUS
<1>2. \E s \in 0..4 : good(s)
  <2> HIDE DEF within
  <2>1. QED
    BY <1>1
<1>3. Classify(amount, budget) = IF amount = 0 THEN 5 ELSE CHOOSE s \in 0..4 : good(s)
  BY DEF Classify
<1> HIDE DEF good
<1>4. QED
  BY <1>2, <1>3 DEF AdaptiveRiskState

Groups == {"DRAWDOWN", "PORTFOLIO", "PROTECTION"} \cup STRING

Modifier == [group : Groups, modifier : Percent]

\* A modifier is made of a group and a percentage.
LEMMA ModifierFacts ==
  ASSUME NEW g \in Groups, NEW p \in Percent
  PROVE  [group |-> g, modifier |-> p] \in Modifier
BY DEF Modifier

\* The percentages of modifiers.
LEMMA PercentFacts ==
  ASSUME NEW all \in Seq(Modifier)
  PROVE  /\ Len(all) \in Nat /\ DOMAIN all = 1..Len(all)
         /\ \A i \in DOMAIN all : all[i].modifier \in Nat /\ all[i].modifier \in 0..100
<1>1. Len(all) \in Nat /\ DOMAIN all = 1..Len(all)
  OBVIOUS
<1>2. ASSUME NEW i \in DOMAIN all PROVE all[i].modifier \in Nat /\ all[i].modifier \in 0..100
  <2>1. all[i] \in Modifier
    OBVIOUS
  <2> DEFINE x == all[i].modifier
  <2>2. x \in 0..100
    BY <2>1 DEF Modifier, Percent
  <2> HIDE DEF x
  <2>3. x \in Nat /\ x \in 0..100
    BY <2>2
  <2>4. QED
    BY <2>3 DEF x
<1>3. QED
  BY <1>1, <1>2

\* Percentages are natural numbers.
LEMMA PercentSet == ASSUME NEW M, \A x \in M : x \in 0..100 PROVE M \in SUBSET Nat
OBVIOUS

\* The drawdown modifier is one of its bands.
LEMMA DrawdownFacts ==
  ASSUME NEW history, NEW s
  PROVE  DrawdownModifier(history, s) \in Percent
<1> DEFINE lost == Peak(history, s) - Last(Known(history, s)).equity
           T == {i \in DOMAIN Bands : 100 * lost >= Bands[i] * Peak(history, s)}
<1>1. /\ Len(Bands) \in Nat /\ DOMAIN Bands = 1..Len(Bands) /\ Len(BandModifiers) = Len(Bands) + 1
      /\ BandModifiers \in Seq(Percent)
  BY AdaptiveAssumption DEF AdaptiveRiskConfiguration
<1>2. T \subseteq 1..Len(Bands)
  BY <1>1
<1>3. \/ DrawdownModifier(history, s) = 0
      \/ DrawdownModifier(history, s) = BandModifiers[Cardinality(T) + 1]
  BY DEF DrawdownModifier
<1> HIDE DEF T
<1>4. Cardinality(T) \in Nat /\ Cardinality(T) <= Len(Bands)
  <2>1. IsFiniteSet(1..Len(Bands)) /\ Cardinality(1..Len(Bands)) = Len(Bands)
    <3>1. 1 \in Int /\ Len(Bands) \in Int
      BY <1>1
    <3>2. /\ IsFiniteSet(1..Len(Bands))
          /\ Cardinality(1..Len(Bands)) = IF 1 > Len(Bands) THEN 0 ELSE Len(Bands) - 1 + 1
      BY <3>1, FS_Interval
    <3>3. QED
      BY <1>1, <3>2
  <2>2. IsFiniteSet(T) /\ Cardinality(T) <= Cardinality(1..Len(Bands))
    BY <1>2, <2>1, FS_Subset
  <2>3. QED
    BY <2>1, <2>2, FS_CardinalityType
<1>5. BandModifiers[Cardinality(T) + 1] \in Percent
  BY <1>1, <1>4
<1>6. QED
  BY <1>3, <1>5 DEF Percent

\* The modifiers are percentages, and there is one at least.
LEMMA ModifiersFacts ==
  ASSUME NEW history, NEW s, NEW evidence \in Evidences
  PROVE  Modifiers(history, s, evidence) \in Seq(Modifier) /\ Modifiers(history, s, evidence) # <<>>
<1> DEFINE first == [group |-> "DRAWDOWN", modifier |-> DrawdownModifier(history, s)]
           own == [i \in DOMAIN evidence |-> [group |-> evidence[i].group, modifier |-> evidence[i].modifier]]
           policies == <<[group |-> "PORTFOLIO", modifier |-> ProviderModifier],
                         [group |-> "PROTECTION", modifier |-> ProviderModifier]>>
<1>1. first \in Modifier
  <2>1. DrawdownModifier(history, s) \in Percent /\ "DRAWDOWN" \in Groups
    BY DrawdownFacts DEF Groups
  <2>2. QED
    BY <2>1, ModifierFacts
<1>2. ProviderModifier \in Percent /\ evidence \in Seq(RiskModifierResult)
  BY AdaptiveAssumption DEF AdaptiveRiskConfiguration
<1>3. own \in Seq(Modifier)
  <2>1. DOMAIN evidence = 1..Len(evidence) /\ Len(evidence) \in Nat
    BY <1>2
  <2>2. \A i \in 1..Len(evidence) : evidence[i] \in RiskModifierResult
    BY <1>2
  <2>3. own \in [1..Len(evidence) -> Modifier]
    BY <2>1, <2>2 DEF RiskModifierResult, Modifier, Groups
  <2> HIDE DEF own
  <2>4. QED
    BY <2>1, <2>3
<1>4. policies \in Seq(Modifier)
  <2> DEFINE a == [group |-> "PORTFOLIO", modifier |-> ProviderModifier]
             b == [group |-> "PROTECTION", modifier |-> ProviderModifier]
  <2>1. a \in Modifier /\ b \in Modifier
    <3>1. "PORTFOLIO" \in Groups /\ "PROTECTION" \in Groups
      BY DEF Groups
    <3>2. QED
      BY <1>2, <3>1, ModifierFacts
  <2> HIDE DEF a, b
  <2>2. <<a, b>> \in Seq(Modifier)
    BY <2>1
  <2>3. QED
    BY <2>2 DEF a, b
<1>5. Modifiers(history, s, evidence) = <<first>> \o own \o policies
  BY DEF Modifiers
<1> HIDE DEF first, own, policies
<1>6. /\ <<first>> \o own \in Seq(Modifier) /\ Len(<<first>> \o own) = 1 + Len(own) /\ Len(own) \in Nat
  BY <1>1, <1>3
<1> DEFINE most == <<first>> \o own
<1> HIDE DEF most
<1>7. most \o policies \in Seq(Modifier) /\ Len(most \o policies) > 0
  BY <1>4, <1>6 DEF most
<1>8. QED
  BY <1>5, <1>7 DEF most

\* Of some modifiers one takes part at least.
LEMMA OneParticipates ==
  ASSUME NEW all \in Seq(Modifier), all # <<>>
  PROVE  Participating(all) # {}
<1> DEFINE M == {all[i].modifier : i \in DOMAIN all}
           least == Min(M)
           L == {i \in DOMAIN all : all[i].modifier = least}
<1>1. /\ DOMAIN all = 1..Len(all) /\ Len(all) \in Nat /\ 1 \in DOMAIN all
      /\ \A i \in DOMAIN all : all[i].modifier \in Nat
  <2>1. 1 \in DOMAIN all
    OBVIOUS
  <2>2. QED
    BY <2>1, PercentFacts
<1>2. M \in SUBSET Nat /\ M # {}
  BY <1>1
<1>3. least \in M /\ \A m \in M : least <= m
  <2> HIDE DEF M
  <2>1. QED
    BY <1>2, LeastOf
<1>4. L \in SUBSET Nat /\ L # {}
  <2> HIDE DEF least
  <2>1. QED
    BY <1>1, <1>3
<1> HIDE DEF least
<1>5. Min(L) \in L /\ \A i \in L : Min(L) <= i
  <2> HIDE DEF L
  <2>1. QED
    BY <1>4, LeastOf
<1>6. Min(L) \in Participating(all)
  <2> DEFINE i == Min(L)
  <2>1. i \in DOMAIN all /\ all[i].modifier = least /\ i \in Nat /\ least \in Nat
    BY <1>1, <1>3, <1>5
  <2>2. \A j \in DOMAIN all : j \in Nat /\ all[j].modifier \in Nat /\ all[j].modifier >= least
    BY <1>1, <1>3, <2>1
  <2>3. \A j \in DOMAIN all : all[j].modifier = least => j >= i
    BY <1>1, <1>5, <2>1
  <2> HIDE DEF i
  <2>4. i \in Participating(all)
    BY <2>1, <2>2, <2>3 DEF Participating
  <2>5. QED
    BY <2>4 DEF i
<1>7. QED
  BY <1>6

\* What a modifier leaves of an amount, if it takes part.
PartWith(x, all, n) == IF n \in Participating(all) THEN (x * all[n].modifier) \div 100 ELSE x

\* The amounts left by the first modifiers.
Parts(amount, all) ==
  CHOOSE part : part =
    [i \in 0..Len(all) |->
       IF i = 0 THEN amount
       ELSE IF i \in Participating(all) THEN (part[i - 1] * all[i].modifier) \div 100
       ELSE part[i - 1]]

\* A composition leaves a part of the amount.
LEMMA ComposedFacts ==
  ASSUME NEW amount \in Nat, NEW all \in Seq(Modifier), all # <<>>
  PROVE  Composed(amount, all) \in Nat /\ Composed(amount, all) <= amount
<1> DEFINE V == 0..amount
           N == Len(all)
           Is(f, m) == f[0] = amount /\ \A n \in 1..m : f[n] = PartWith(f[n - 1], all, n)
           P == {m \in Nat : m <= N => \E f \in [0..m -> V] : Is(f, m)}
<1>1. N \in Nat /\ DOMAIN all = 1..N /\ \A n \in 1..N : all[n].modifier \in 0..100
  BY PercentFacts
<1>2. ASSUME NEW x \in V, NEW n \in 1..N PROVE PartWith(x, all, n) \in V
  <2>1. all[n].modifier \in 0..100 /\ x \in Nat /\ x <= amount
    BY <1>1
  <2>2. (x * all[n].modifier) \div 100 \in Nat /\ (x * all[n].modifier) \div 100 <= x
    BY <2>1, PartOf
  <2>3. PartWith(x, all, n) \in Nat /\ PartWith(x, all, n) <= x
    BY <2>1, <2>2 DEF PartWith
  <2>4. QED
    BY <2>1, <2>3
<1>3. 0 \in P
  <2>1. [n \in 0..0 |-> amount] \in [0..0 -> V] /\ Is([n \in 0..0 |-> amount], 0)
    OBVIOUS
  <2>2. QED
    BY <2>1
<1>4. ASSUME NEW m \in Nat, m \in P PROVE m + 1 \in P
  <2> HIDE DEF Is, V
  <2>1. SUFFICES ASSUME m + 1 <= N PROVE \E f \in [0..(m + 1) -> V] : Is(f, m + 1)
    OBVIOUS
  <2>2. PICK f \in [0..m -> V] : Is(f, m)
    BY <1>1, <1>4, <2>1
  <2> USE DEF Is
  <2> DEFINE g == [n \in 0..(m + 1) |-> IF n <= m THEN f[n] ELSE PartWith(f[m], all, m + 1)]
  <2>3. f[m] \in V /\ PartWith(f[m], all, m + 1) \in V
    BY <1>1, <1>2, <2>1, <2>2
  <2>4. g \in [0..(m + 1) -> V]
    BY <2>2, <2>3
  <2>5. g[0] = amount /\ g[m + 1] = PartWith(f[m], all, m + 1) /\ \A n \in 0..m : g[n] = f[n]
    BY <2>2, <2>3
  <2> HIDE DEF g
  <2>6. Is(g, m + 1)
    <3>1. ASSUME NEW n \in 1..(m + 1) PROVE g[n] = PartWith(g[n - 1], all, n)
      <4>1. CASE n <= m
        BY <2>2, <2>5, <4>1
      <4>2. CASE n = m + 1
        BY <2>5, <4>2
      <4>3. QED
        BY <4>1, <4>2
    <3>2. QED
      BY <2>5, <3>1
  <2>7. QED
    BY <2>4, <2>6
<1>5. Nat \subseteq P
  <2> HIDE DEF P
  <2> QED
    BY <1>3, <1>4, InductiveSet
<1>6. PICK f \in [0..N -> V] : Is(f, N)
  <2> HIDE DEF Is, V
  <2> QED
    BY <1>1, <1>5
<1>7. f = [i \in 0..N |->
             IF i = 0 THEN amount
             ELSE IF i \in Participating(all) THEN (f[i - 1] * all[i].modifier) \div 100
             ELSE f[i - 1]]
  BY <1>1, <1>6 DEF PartWith
<1>8. Parts(amount, all) =
        [i \in 0..N |->
           IF i = 0 THEN amount
           ELSE IF i \in Participating(all) THEN (Parts(amount, all)[i - 1] * all[i].modifier) \div 100
           ELSE Parts(amount, all)[i - 1]]
  BY <1>7, Zenon DEF Parts
<1> DEFINE Q == {m \in Nat : m <= N => Parts(amount, all)[m] \in V}
<1>9. 0 \in Q
  BY <1>1, <1>8
<1>10. ASSUME NEW m \in Nat, m \in Q PROVE m + 1 \in Q
  <2> HIDE DEF V
  <2>1. SUFFICES ASSUME m + 1 <= N PROVE Parts(amount, all)[m + 1] \in V
    OBVIOUS
  <2>2. m + 1 \in 1..N /\ m + 1 \in 0..N /\ (m + 1) - 1 = m /\ Parts(amount, all)[m] \in V
    BY <1>1, <1>10, <2>1
  <2>3. Parts(amount, all)[m + 1] = PartWith(Parts(amount, all)[m], all, m + 1)
    BY <1>8, <2>2 DEF PartWith
  <2>4. QED
    BY <1>2, <2>2, <2>3
<1>11. Parts(amount, all)[N] \in V
  <2>1. Nat \subseteq Q
    <3> HIDE DEF Q
    <3> QED
      BY <1>9, <1>10, InductiveSet
  <2>2. QED
    BY <1>1, <2>1
<1>12. Composed(amount, all) =
         IF MinimumModifier
         THEN (amount * Min({all[i].modifier : i \in Participating(all)})) \div 100
         ELSE Parts(amount, all)[Len(all)]
  BY Zenon DEF Composed, Parts
<1> DEFINE M == {all[i].modifier : i \in Participating(all)}
<1>13. Min(M) \in 0..100
  <2>1. Participating(all) # {} /\ Participating(all) \subseteq 1..N
    BY <1>1, OneParticipates DEF Participating
  <2>2. M # {} /\ \A x \in M : x \in 0..100
    BY <1>1, <2>1
  <2> HIDE DEF M
  <2>3. M \in SUBSET Nat
    BY <2>2, PercentSet
  <2>4. QED
    BY <2>2, <2>3, LeastOf
<1> HIDE DEF M
<1>14. (amount * Min(M)) \div 100 \in Nat /\ (amount * Min(M)) \div 100 <= amount
  BY <1>13, PartOf
<1>15. QED
  BY <1>11, <1>12, <1>14 DEF M

\* What was well judged stays so.
LEMMA StaysJudged ==
  ASSUME NEW history \in Seq(Judgement), NEW x, NEW n \in 2..Len(history), WellJudged(history, n)
  PROVE  WellJudged(Append(history, x), n)
<1> DEFINE more == Append(history, x)
<1>1. \A k \in 1..Len(history) : more[k] = history[k]
  OBVIOUS
<1> HIDE DEF more
<1>2. RiskConfirmations \in Nat /\ RiskConfirmations > 0
  BY AdaptiveAssumption DEF AdaptiveRiskConfiguration
<1>3. more[n] = history[n] /\ more[n - 1] = history[n - 1]
  BY <1>1
<1>4. n > RiskConfirmations =>
        \A k \in (n - RiskConfirmations + 1)..n : more[k] = history[k] /\ more[k - 1] = history[k - 1]
  BY <1>1, <1>2
<1>5. WellJudged(more, n)
  BY <1>3, <1>4 DEF WellJudged
<1>6. QED
  BY <1>5 DEF more

\* The history of a decision that a risk state stands for.
History(states, i, history) ==
  /\ history \in Seq(Judgement)
  /\ \A n \in 2..Len(history) : WellJudged(history, n)
  /\ Held(states, i) =>
       LET old == Entry(states, i)
       IN old \in RiskState /\ old.id = i /\ AsJudged(old, history)
  /\ ~Held(states, i) => history = <<>>

\* A transition is as the history says, and is its next entry.
LEMMA TransitionFacts ==
  ASSUME NEW i \in SnapshotIds, NEW history, History(adaptive.states, i, history),
         NEW proposed \in AdaptiveRiskState, NEW at \in Time, NEW new, new = Transition(i, proposed, at)
  PROVE  LET more == Append(history, [proposed |-> proposed, accepted |-> new.state])
         IN /\ new \in RiskState /\ new.id = i /\ AsJudged(new, more) /\ more \in Seq(Judgement)
            /\ \A n \in 2..Len(more) : WellJudged(more, n)
<1> DEFINE known == Held(adaptive.states, i)
           old == Entry(adaptive.states, i)
           milder == known /\ proposed < old.state
           count == IF milder THEN old.count + 1 ELSE 0
           stepped == milder /\ count >= RiskConfirmations /\ at >= old.cooldown
           accepted == IF stepped THEN old.state - 1 ELSE IF milder THEN old.state ELSE proposed
           until == IF known THEN old.cooldown ELSE 0
           x == [proposed |-> proposed, accepted |-> accepted]
           more == Append(history, x)
           n == Len(history)
           m == n + 1
<1>1. new = [id |-> i, state |-> accepted, count |-> IF stepped THEN 0 ELSE count,
             cooldown |-> IF accepted >= 3 THEN Greatest(until, at + RiskCooldown) ELSE until]
  BY DEF Transition
<1>2. /\ RiskConfirmations \in Nat /\ RiskConfirmations > 0 /\ RiskCooldown \in Nat
      /\ at \in Nat /\ proposed \in 0..5
  BY AdaptiveAssumption, EvidenceAssumption DEF AdaptiveRiskConfiguration, Time, AdaptiveRiskState
<1>3. /\ history \in Seq(Judgement) /\ n \in Nat
      /\ known => /\ old.state \in 0..5 /\ old.count \in Nat /\ old.cooldown \in Nat
                  /\ old.count < n /\ old.state = history[n].accepted
                  /\ \A k \in (n - old.count + 1)..n : history[k].proposed < history[k - 1].accepted
      /\ ~known => history = <<>>
  <2>1. /\ history \in Seq(Judgement)
        /\ known => old \in RiskState /\ AsJudged(old, history)
        /\ ~known => history = <<>>
    BY DEF History
  <2> HIDE DEF known, old
  <2>2. known => old.state \in 0..5 /\ old.count \in Nat /\ old.cooldown \in Nat
    BY <2>1 DEF RiskState, AdaptiveRiskState
  <2>3. QED
    BY <2>1, <2>2 DEF AsJudged
<1> HIDE DEF known, old
<1>4. accepted \in 0..5 /\ until \in Nat /\ count \in Nat
  BY <1>2, <1>3
<1>5. new \in RiskState /\ new.id = i /\ new.state = accepted /\ new.count = IF stepped THEN 0 ELSE count
  <2> HIDE DEF accepted, until, stepped, count
  <2>1. QED
    BY <1>1, <1>2, <1>4 DEF RiskState, AdaptiveRiskState, Greatest
<1>6. x \in Judgement
  <2> HIDE DEF accepted
  <2>1. QED
    BY <1>2, <1>4 DEF Judgement, AdaptiveRiskState
<1>7. x.proposed = proposed /\ x.accepted = accepted
  OBVIOUS
<1> HIDE DEF x
<1>8. /\ more \in Seq(Judgement) /\ Len(more) = m /\ more[m] = x
      /\ \A k \in 1..n : more[k] = history[k]
  BY <1>3, <1>6
<1> HIDE DEF more
<1>9. milder => /\ more[m].proposed < more[m - 1].accepted
                /\ \A k \in (m - count + 1)..m : more[k].proposed < more[k - 1].accepted
  <2> SUFFICES ASSUME milder
               PROVE  /\ more[m].proposed < more[m - 1].accepted
                      /\ \A k \in (m - count + 1)..m : more[k].proposed < more[k - 1].accepted
    OBVIOUS
  <2>1. known /\ proposed < old.state /\ count = old.count + 1 /\ m - 1 = n /\ m - count + 1 = n - old.count + 1
    BY <1>3
  <2> HIDE DEF milder, count, accepted, stepped
  <2>2. more[m].proposed < more[m - 1].accepted
    BY <1>3, <1>7, <1>8, <2>1
  <2>3. ASSUME NEW k \in (n - old.count + 1)..n PROVE more[k].proposed < more[k - 1].accepted
    <3>1. k \in 1..n /\ k - 1 \in 1..n
      BY <1>3, <2>1
    <3>2. QED
      BY <1>3, <1>8, <2>1, <2>3, <3>1
  <2>4. QED
    BY <1>3, <2>1, <2>2, <2>3
<1>10. AsJudged(new, more)
  <2>1. count < m /\ new.count < m
    BY <1>3, <1>5
  <2>2. \A k \in (m - new.count + 1)..m : more[k].proposed < more[k - 1].accepted
    BY <1>3, <1>5, <1>9
  <2>3. QED
    BY <1>5, <1>7, <1>8, <2>1, <2>2 DEF AsJudged
<1>11. m >= 2 => WellJudged(more, m)
  <2> SUFFICES ASSUME m >= 2 PROVE WellJudged(more, m)
    OBVIOUS
  <2>1. known /\ m - 1 = n /\ n \in 1..n
    BY <1>3
  <2>2. more[m - 1].accepted = old.state /\ more[m].proposed = proposed /\ more[m].accepted = accepted
    BY <1>3, <1>7, <1>8, <2>1
  <2>3. CASE ~milder
    BY <1>2, <1>3, <2>1, <2>2, <2>3 DEF WellJudged
  <2>4. CASE milder /\ ~stepped
    BY <1>2, <1>3, <2>1, <2>2, <2>4 DEF WellJudged
  <2>5. CASE stepped
    <3>1. m > RiskConfirmations /\ count >= RiskConfirmations /\ count \in Nat
      BY <1>2, <1>3, <2>5
    <3>2. \A k \in (m - RiskConfirmations + 1)..m : more[k].proposed < more[k - 1].accepted
      <4> HIDE DEF count, accepted, stepped
      <4>1. milder
        BY <2>5 DEF stepped
      <4> HIDE DEF milder
      <4>2. \A k \in (m - RiskConfirmations + 1)..m : k \in (m - count + 1)..m
        BY <1>2, <1>3, <3>1
      <4>3. QED
        BY <1>9, <4>1, <4>2
    <3>3. more[m].accepted = more[m - 1].accepted - 1 /\ more[m].proposed < more[m - 1].accepted
      BY <2>2, <2>5
    <3>4. more[m - 1].accepted \in Int /\ more[m].proposed \in Int
      BY <1>2, <1>3, <2>1, <2>2
    <3> HIDE DEF m, n
    <3>5. QED
      BY <3>1, <3>2, <3>3, <3>4 DEF WellJudged
  <2>6. QED
    BY <2>3, <2>4, <2>5
<1>12. ASSUME NEW k \in 2..m PROVE WellJudged(more, k)
  <2>1. CASE k = m
    BY <1>11, <2>1
  <2>2. CASE k # m
    <3>1. k \in 2..Len(history) /\ WellJudged(history, k)
      BY <1>3, <2>2 DEF History
    <3>2. QED
      BY <1>3, <3>1, StaysJudged DEF more
  <2>3. QED
    BY <2>1, <2>2
<1>13. Append(history, [proposed |-> proposed, accepted |-> new.state]) = more
  BY <1>5 DEF more, x
<1>14. QED
  BY <1>5, <1>8, <1>10, <1>12, <1>13

\* The greatest of at most three numbers is one of them.
LEMMA GreatestOfThree ==
  ASSUME NEW a \in Int, NEW b \in Int, NEW c \in Int, NEW S, S \subseteq {a, b, c}, S # {}
  PROVE  Max(S) \in S
<1> DEFINE Most(x) == x \in S /\ \A y \in S : x >= y
<1>1. \/ Most(a) \/ Most(b) \/ Most(c)
  <2>1. CASE a \in S /\ (b \in S => a >= b) /\ (c \in S => a >= c)
    BY <2>1
  <2>2. CASE b \in S /\ (a \in S => b >= a) /\ (c \in S => b >= c)
    BY <2>2
  <2>3. CASE c \in S /\ (a \in S => c >= a) /\ (b \in S => c >= b)
    BY <2>3
  <2>4. a \in S \/ b \in S \/ c \in S
    OBVIOUS
  <2>5. QED
    BY <2>1, <2>2, <2>3, <2>4
<1>2. \E x \in S : \A y \in S : x >= y
  BY <1>1
<1>3. QED
  BY <1>2, Zenon DEF Max

\* A distance is None or a positive number.
LEMMA DistanceFacts ==
  ASSUME NEW s \in Snapshots, NEW e \in Structures \cup {None}, NEW a \in Atrs \cup {None},
         NEW added \in Additions
  PROVE  Distance(s, e, a, added) \in Distances
<1> DEFINE offered == ThesisCandidates(s, e, a)
           eligible == Eligible(offered)
           raws == {c.raw : c \in eligible}
           wide == Max(raws) + added
           distance == IF wide < MinimumDistance /\ Widen THEN MinimumDistance ELSE wide
           both == IF AddVolatility THEN e.raw + a.raw ELSE Greatest(e.raw, a.raw)
           x == IF Usable(e, s) THEN e.raw ELSE 0
           y == IF Usable(a, s) THEN a.raw ELSE 0
           z == IF Usable(e, s) /\ Usable(a, s) THEN both ELSE 0
<1>1. MinimumDistance \in Nat /\ MinimumDistance > 0 /\ added \in Nat
  BY ThesisAssumption DEF InvalidationConfiguration
<1>2. /\ Usable(e, s) => e.raw \in Int
      /\ Usable(a, s) => a.raw \in Int
  BY ThesisAssumption DEF Usable, DistanceEvidence
<1>3. x \in Int /\ y \in Int /\ z \in Int
  BY <1>2 DEF Greatest
<1>4. \A c \in offered : c.raw \in {x, y, z}
  BY DEF ThesisCandidates
<1> HIDE DEF offered, x, y, z
<1>5. raws \subseteq {x, y, z}
  BY <1>4 DEF Eligible
<1>6. \/ Distance(s, e, a, added) = None
      \/ /\ eligible # {} /\ ~(distance < MinimumDistance)
         /\ Distance(s, e, a, added) = distance
  BY DEF Distance, offered
<1>7. eligible # {} => Max(raws) \in Int
  <2>1. eligible # {} => raws # {}
    OBVIOUS
  <2> HIDE DEF eligible, raws
  <2>2. raws # {} => Max(raws) \in raws
    BY <1>3, <1>5, GreatestOfThree
  <2>3. QED
    BY <1>3, <1>5, <2>1, <2>2
<1> HIDE DEF eligible, raws
<1>8. eligible # {} /\ ~(distance < MinimumDistance) => distance \in Nat \ {0}
  BY <1>1, <1>7
<1>9. QED
  BY <1>6, <1>8 DEF Distances

\* A sequence without its first elements.
LEMMA LaterFacts ==
  ASSUME NEW S, NEW s \in Seq(S), NEW k \in Nat
  PROVE  SubSeq(s, k + 1, Len(s)) \in Seq(S)
<1>1. /\ k + 1 \in Int /\ Len(s) \in Int
      /\ \A j \in (k + 1)..Len(s) : s[j] \in S
  OBVIOUS
<1>2. QED
  BY <1>1, SubSeqProperties

\* The engine's ledger stays bounded, and of its kind.
LEMMA BoundKeeps ==
  ASSUME NEW l \in Theses
  PROVE  ThesisBound(l) \in Theses
<1> DEFINE excess == Greatest(0, Len(l.decisions) + Len(l.events) - MaxTheses)
           n == Least(excess, Len(l.events))
           events == SubSeq(l.events, n + 1, Len(l.events))
           decisions == SubSeq(l.decisions, excess - n + 1, Len(l.decisions))
           cache == Evicted(l.cache, MaxThesisCache)
           D == ThesisDecision
           E == ThesisEvent
           C == [id : ThesisKey, decision : ThesisDecision]
<1>1. MaxTheses \in Nat /\ MaxThesisCache \in Nat
  BY ThesisAssumption DEF InvalidationConfiguration
<1>2. l.decisions \in Seq(D) /\ l.events \in Seq(E) /\ l.states \in Seq(D) /\ l.cache \in Seq(C)
  BY DEF Theses
<1>3. ThesisBound(l) = [decisions |-> decisions, events |-> events, states |-> l.states, cache |-> cache]
  BY DEF ThesisBound
<1> HIDE DEF D, E, C
<1>4. excess \in Nat /\ n \in Nat /\ excess - n \in Nat
  <2>1. Len(l.decisions) \in Nat /\ Len(l.events) \in Nat
    BY <1>2
  <2>2. excess \in Nat
    <3> DEFINE x == Len(l.decisions) + Len(l.events) - MaxTheses
    <3>1. x \in Int
      BY <1>1, <2>1
    <3> HIDE DEF x
    <3>2. Greatest(0, x) \in Nat
      BY <3>1 DEF Greatest
    <3>3. QED
      BY <3>2 DEF x
  <2> HIDE DEF excess
  <2>3. QED
    BY <2>1, <2>2 DEF Least
<1> HIDE DEF n, excess
<1>5. events \in Seq(E) /\ decisions \in Seq(D)
  BY <1>2, <1>4, LaterFacts
<1>6. cache \in Seq(C)
  BY <1>1, <1>2, EvictedFacts
<1> HIDE DEF events, decisions, cache
<1>7. QED
  BY <1>2, <1>3, <1>5, <1>6 DEF Theses, D, E, C

\* The decisions that callers hold are decisions.
LEMMA HeldFacts ==
  ASSUME theses \in Theses
  PROVE  HeldDecisions \subseteq ThesisDecision
<1> DEFINE C == [id : ThesisKey, decision : ThesisDecision]
<1>1. theses.decisions \in Seq(ThesisDecision) /\ theses.cache \in Seq(C)
  BY DEF Theses
<1>2. \A i \in DOMAIN theses.decisions : theses.decisions[i] \in ThesisDecision
  BY <1>1
<1>3. \A i \in DOMAIN theses.cache : theses.cache[i].decision \in ThesisDecision
  <2>1. ASSUME NEW i \in DOMAIN theses.cache PROVE theses.cache[i].decision \in ThesisDecision
    <3> HIDE DEF C
    <3>1. theses.cache[i] \in C
      BY <1>1
    <3>2. QED
      BY <3>1 DEF C
  <2>2. QED
    BY <2>1
<1>4. QED
  BY <1>2, <1>3 DEF HeldDecisions

\* A decision with another status.
LEMMA StatusFacts ==
  ASSUME NEW d \in ThesisDecision, NEW status \in InvalidationLifecycle
  PROVE  [d EXCEPT !.status = status] \in ThesisDecision /\ [d EXCEPT !.status = status].id = d.id
BY DEF ThesisDecision

\* The operations on theses keep their kind.
LEMMA EvaluateThesisKeeps ==
  ASSUME theses \in Theses, NEW s \in Snapshots, NEW e \in Structures \cup {None},
         NEW a \in Atrs \cup {None}, NEW added \in Additions,
         EvaluateThesis(s, e, a, added) \/ EvaluateThesisAgain(<<s.id, e, a, added>>)
  PROVE  theses' \in Theses
<1> DEFINE key == <<s.id, e, a, added>>
           distance == Distance(s, e, a, added)
           d == [id |-> <<s.id, distance>>, snapshot |-> s.id, distance |-> distance,
                 status |-> IF distance = None THEN "BLOCKED" ELSE "ACTIVE"]
           entry == [id |-> key, decision |-> d]
           D == ThesisDecision
           C == [id : ThesisKey, decision : ThesisDecision]
<1>1. /\ theses = [decisions |-> theses.decisions, events |-> theses.events,
                   states |-> theses.states, cache |-> theses.cache]
      /\ theses.decisions \in Seq(D) /\ theses.events \in Seq(ThesisEvent)
      /\ theses.states \in Seq(D) /\ theses.cache \in Seq(C)
  BY DEF Theses
<1>2. CASE EvaluateThesis(s, e, a, added)
  <2>1. distance \in Distances /\ s.id \in SnapshotIds
    BY DistanceFacts DEF SnapshotIds
  <2>2. d \in D
    <3> HIDE DEF distance
    <3>1. QED
      BY <2>1 DEF ThesisDecision, InvalidationLifecycle
  <2>3. key \in ThesisKey
    BY <2>1 DEF ThesisKey
  <2>4. entry \in C
    <3> HIDE DEF key, d
    <3>1. QED
      BY <2>2, <2>3
  <2> DEFINE next == [theses EXCEPT !.decisions = Put(theses.decisions, d), !.states = Put(theses.states, d),
                                    !.cache = Append(theses.cache, entry)]
  <2>5. theses' = ThesisBound(next)
    BY <1>2 DEF EvaluateThesis
  <2> HIDE DEF d, entry, C, D
  <2>6. Put(theses.decisions, d) \in Seq(D) /\ Put(theses.states, d) \in Seq(D)
    BY <1>1, <2>2, PutFacts
  <2>7. Append(theses.cache, entry) \in Seq(C)
    BY <1>1, <2>4
  <2>8. next \in Theses
    BY <1>1, <2>6, <2>7 DEF Theses, C, D
  <2> HIDE DEF next
  <2>9. QED
    BY <2>5, <2>8, BoundKeeps
<1>3. CASE EvaluateThesisAgain(key)
  <2> DEFINE cache == Append(Without(theses.cache, key), Entry(theses.cache, key))
  <2>1. Held(theses.cache, key) /\ theses' = [theses EXCEPT !.cache = cache]
    BY <1>3 DEF EvaluateThesisAgain
  <2> HIDE DEF C, D, key
  <2>2. Without(theses.cache, key) \in Seq(C) /\ Entry(theses.cache, key) \in C
    BY <1>1, <2>1, WithoutFacts, EntryFacts
  <2>3. cache \in Seq(C)
    BY <2>2
  <2> HIDE DEF cache
  <2>4. QED
    BY <1>1, <2>1, <2>3 DEF Theses, C, D
<1>4. QED
  BY <1>2, <1>3

LEMMA FollowThesisKeeps ==
  ASSUME theses \in Theses, NEW d \in HeldDecisions,
         (\E t \in Time : ObserveThesis(d, t)) \/ ExpireThesis(d) \/ SupersedeThesis(d)
  PROVE  theses' \in Theses
<1>1. /\ theses = [decisions |-> theses.decisions, events |-> theses.events,
                   states |-> theses.states, cache |-> theses.cache]
      /\ theses.decisions \in Seq(ThesisDecision) /\ theses.events \in Seq(ThesisEvent)
      /\ theses.states \in Seq(ThesisDecision)
      /\ theses.cache \in Seq([id : ThesisKey, decision : ThesisDecision])
  BY DEF Theses
<1>2. d \in ThesisDecision
  BY HeldFacts
<1>3. ASSUME NEW status \in InvalidationLifecycle
      PROVE  Put(theses.states, [d EXCEPT !.status = status]) \in Seq(ThesisDecision)
  <2> DEFINE x == [d EXCEPT !.status = status]
  <2>1. x \in ThesisDecision
    BY <1>2, StatusFacts
  <2> HIDE DEF x
  <2>2. Put(theses.states, x) \in Seq(ThesisDecision)
    BY <1>1, <2>1, PutFacts
  <2>3. QED
    BY <2>2 DEF x
<1>4. ASSUME NEW states \in Seq(ThesisDecision) PROVE [theses EXCEPT !.states = states] \in Theses
  BY <1>1 DEF Theses
<1>5. CASE \E t \in Time : ObserveThesis(d, t)
  <2>1. PICK t \in Time : ObserveThesis(d, t)
    BY <1>5
  <2> DEFINE e == [id |-> <<d.id, t>>, decision |-> d.id]
             events == PutNew(theses.events, e)
             states == Put(theses.states, [d EXCEPT !.status = "INVALIDATED"])
             next == [theses EXCEPT !.events = events, !.states = states]
  <2>2. theses' = ThesisBound(next)
    BY <2>1 DEF ObserveThesis
  <2>3. e \in ThesisEvent
    BY <1>2 DEF ThesisEvent, ThesisDecision
  <2> HIDE DEF e
  <2>4. events \in Seq(ThesisEvent)
    BY <1>1, <2>3 DEF PutNew
  <2>5. states \in Seq(ThesisDecision)
    BY <1>3 DEF InvalidationLifecycle
  <2> HIDE DEF events, states
  <2>6. next \in Theses
    BY <1>1, <2>4, <2>5 DEF Theses
  <2> HIDE DEF next
  <2>7. QED
    BY <2>2, <2>6, BoundKeeps
<1>6. CASE ExpireThesis(d)
  <2> DEFINE later == Put(theses.states, [d EXCEPT !.status = "EXPIRED"])
  <2>1. later \in Seq(ThesisDecision)
    BY <1>3 DEF InvalidationLifecycle
  <2>2. \/ theses' = [theses EXCEPT !.states = theses.states]
        \/ theses' = [theses EXCEPT !.states = later]
    BY <1>6 DEF ExpireThesis
  <2> HIDE DEF later
  <2>3. QED
    BY <1>1, <1>4, <2>1, <2>2
<1>7. CASE SupersedeThesis(d)
  <2> DEFINE later == Put(theses.states, [d EXCEPT !.status = "SUPERSEDED"])
  <2>1. later \in Seq(ThesisDecision)
    BY <1>3 DEF InvalidationLifecycle
  <2>2. theses' = [theses EXCEPT !.states = later]
    BY <1>7 DEF SupersedeThesis
  <2> HIDE DEF later
  <2>3. QED
    BY <1>4, <2>1, <2>2
<1>8. QED
  BY <1>5, <1>6, <1>7

LEMMA RestartThesesKeeps ==
  ASSUME theses \in Theses, RestartTheses
  PROVE  theses' \in Theses
<1>1. /\ theses = [decisions |-> theses.decisions, events |-> theses.events,
                   states |-> theses.states, cache |-> theses.cache]
      /\ theses.events \in Seq(ThesisEvent) /\ theses.states \in Seq(ThesisDecision)
  BY DEF Theses
<1>2. theses' = [theses EXCEPT !.decisions = <<>>, !.cache = <<>>]
  BY DEF RestartTheses
<1>3. theses' = [decisions |-> <<>>, events |-> theses.events, states |-> theses.states, cache |-> <<>>]
  BY <1>1, <1>2
<1>4. <<>> \in Seq(ThesisDecision) /\ <<>> \in Seq([id : ThesisKey, decision : ThesisDecision])
  OBVIOUS
<1>5. QED
  BY <1>1, <1>3, <1>4 DEF Theses

\* A decision that is sized, about a snapshot, with a distance.
IsSized(d) ==
  /\ d.snapshot \in Snapshots /\ d.budget \in Nat /\ d.capital \in Nat /\ d.exposure \in Nat
  /\ d.distance \in Nat \ {0} /\ d.cost \in Nat

LEMMA SizedFacts ==
  ASSUME NEW s \in Snapshots, NEW capital \in Capitals, NEW distance \in Nat \ {0}, NEW cost \in Costs
  PROVE  IsSized(Sized(s, capital, distance, cost)) /\ Sized(s, capital, distance, cost).snapshot = s
<1> DEFINE budget == (capital.amount * BaseFraction) \div 100
           exposure == IF distance = None THEN 0 ELSE Quantized(budget, distance, cost)
<1>1. capital.amount \in Nat /\ BaseFraction \in 0..100 /\ cost \in Nat
  BY AdaptiveAssumption DEF RiskSizingConfiguration, Percent
<1>2. budget \in Nat
  BY <1>1, PartOf
<1> HIDE DEF budget
<1>3. exposure \in Nat
  BY <1>1, <1>2, QuantizedFacts
<1> HIDE DEF exposure
<1>4. \/ Sized(s, capital, distance, cost) =
           [snapshot |-> s, budget |-> 0, capital |-> 0, exposure |-> 0, distance |-> distance, cost |-> cost]
      \/ Sized(s, capital, distance, cost) =
           [snapshot |-> s, budget |-> budget, capital |-> capital.amount, exposure |-> exposure,
            distance |-> distance, cost |-> cost]
  BY DEF Sized, budget, exposure
<1>5. QED
  BY <1>1, <1>2, <1>3, <1>4 DEF IsSized

\* The modifiers leave a part of the budget.
LEMMA CappedFacts ==
  ASSUME NEW d, IsSized(d), NEW history, NEW evidence \in Evidences, NEW all,
         all \in Seq(Modifier), all # <<>>
  PROVE  Capped(d, history, evidence, all) \in Nat /\ Capped(d, history, evidence, all) <= d.budget
<1> DEFINE composed == IF Hard(d, history, evidence, all) THEN 0 ELSE Composed(d.budget, all)
           most == (d.capital * HardMaximum) \div 100
<1>1. d.budget \in Nat /\ d.capital \in Nat /\ HardMaximum \in 0..100
  BY AdaptiveAssumption DEF IsSized, AdaptiveRiskConfiguration, Percent
<1>2. composed \in Nat /\ composed <= d.budget
  BY <1>1, ComposedFacts
<1>3. most \in Nat
  BY <1>1, PartOf
<1>4. Capped(d, history, evidence, all) = Least(composed, most)
  BY DEF Capped
<1> HIDE DEF composed, most
<1>5. QED
  BY <1>1, <1>2, <1>3, <1>4 DEF Least

\* A sequence over a set is one over a larger set.
LEMMA WiderSequence ==
  ASSUME NEW S, NEW T, S \subseteq T, NEW s \in Seq(S)
  PROVE  s \in Seq(T)
OBVIOUS

\* What the invariant says of one decision.
LEMMA DecisionHistory ==
  ASSUME RiskInvariant, NEW i \in SnapshotIds
  PROVE  History(adaptive.states, i, judged[i])
<1> DEFINE S == {s \in RiskState : AsJudged(s, judged[s.id])}
<1>1. adaptive.states \in Seq(S) /\ judged[i] \in Seq(Judgement)
  BY DEF RiskInvariant
<1>2. ASSUME Held(adaptive.states, i)
      PROVE  /\ Entry(adaptive.states, i) \in RiskState /\ Entry(adaptive.states, i).id = i
             /\ AsJudged(Entry(adaptive.states, i), judged[i])
  <2> DEFINE e == Entry(adaptive.states, i)
  <2>1. e \in S /\ e.id = i
    <3> HIDE DEF S
    <3>1. QED
      BY <1>1, <1>2, EntryFacts
  <2> HIDE DEF e
  <2>2. QED
    BY <2>1 DEF e
<1>3. QED
  BY <1>1, <1>2 DEF RiskInvariant, History

\* An empty cache has nothing that is not sound.
LEMMA NothingCached == SoundCache(<<>>)
<1> DEFINE S == {}
<1>1. <<>> \in Seq(S) /\ \A e \in S : SoundResult(e.result)
  OBVIOUS
<1> HIDE DEF S
<1>2. QED
  BY <1>1 DEF SoundCache

\* A cached result more.
LEMMA CacheMore ==
  ASSUME NEW cache, SoundCache(cache), NEW e, SoundResult(e.result), NEW limit \in Nat
  PROVE  SoundCache(Evicted(Append(cache, e), limit))
<1>1. PICK S : cache \in Seq(S) /\ \A x \in S : SoundResult(x.result)
  BY DEF SoundCache
<1> DEFINE T == S \cup {e}
<1>2. \A x \in T : SoundResult(x.result)
  BY <1>1
<1>3. Append(cache, e) \in Seq(T)
  <2>1. cache \in Seq(T) /\ e \in T
    BY <1>1
  <2> HIDE DEF T
  <2>2. QED
    BY <2>1
<1> HIDE DEF T
<1>4. Evicted(Append(cache, e), limit) \in Seq(T)
  BY <1>3, EvictedFacts
<1>5. QED
  BY <1>2, <1>4 DEF SoundCache

\* A cached result is again given, and becomes the latest.
LEMMA CacheAgain ==
  ASSUME NEW cache, SoundCache(cache), NEW key, Held(cache, key)
  PROVE  /\ SoundCache(Append(Without(cache, key), Entry(cache, key)))
         /\ SoundResult(Entry(cache, key).result)
<1>1. PICK S : cache \in Seq(S) /\ \A x \in S : SoundResult(x.result)
  BY DEF SoundCache
<1>2. Without(cache, key) \in Seq(S) /\ Entry(cache, key) \in S
  BY <1>1, WithoutFacts, EntryFacts
<1>3. Append(Without(cache, key), Entry(cache, key)) \in Seq(S)
  BY <1>2
<1>4. QED
  BY <1>1, <1>2, <1>3 DEF SoundCache

\* What is restricted keeps the invariant.
LEMMA RestrictRiskKeeps ==
  ASSUME RiskInvariant, NEW d, IsSized(d), NEW history, NEW evidence \in Evidences,
         RestrictRisk(d, history, evidence), UNCHANGED theses
  PROVE  RiskInvariant'
<1> DEFINE s == d.snapshot
           i == s.id
           all == Modifiers(history, s, evidence)
           capped == Capped(d, history, evidence, all)
           proposed == Classify(capped, d.budget)
           state == Transition(i, proposed, s.at)
           key == <<d, history, evidence>>
           x == [proposed |-> proposed, accepted |-> state.state]
           more == Append(judged[i], x)
           entry == [id |-> key, result |-> given']
           cache == Evicted(Append(adaptive.cache, entry), MaxAdaptiveCache)
           states == Put(adaptive.states, state)
           peak == Peak(history, s)
           S == {r \in RiskState : AsJudged(r, judged[r.id])}
           T == {r \in RiskState : AsJudged(r, judged'[r.id])}
<1>1. /\ given' = Given(d, capped, state.state)
      /\ adaptive' = [peak |-> peak, states |-> states, cache |-> cache]
      /\ judged' = [judged EXCEPT ![i] = more]
      /\ highest' = Greatest(highest, PeakOf(history, s))
  BY DEF RestrictRisk
<1>2. d.budget \in Nat /\ s \in Snapshots /\ i \in SnapshotIds /\ s.at \in Time
  BY ThesisAssumption DEF IsSized, SnapshotIds, StrategyDecisionSnapshot
<1>3. capped \in Nat /\ capped <= d.budget
  <2>1. all \in Seq(Modifier) /\ all # <<>>
    BY ModifiersFacts
  <2> HIDE DEF all
  <2>2. QED
    BY <2>1, CappedFacts
<1> HIDE DEF capped, s
<1>4. proposed \in AdaptiveRiskState
  BY <1>2, <1>3, ClassifyFacts
<1> HIDE DEF proposed
<1>5. History(adaptive.states, i, judged[i])
  BY <1>2, DecisionHistory
<1>6. /\ state \in RiskState /\ state.id = i /\ AsJudged(state, more) /\ more \in Seq(Judgement)
      /\ \A n \in 2..Len(more) : WellJudged(more, n)
  BY <1>2, <1>4, <1>5, TransitionFacts
<1>7. judged \in [SnapshotIds -> Seq(Judgement)] /\ adaptive.states \in Seq(S)
  BY DEF RiskInvariant
<1> HIDE DEF more, state, i
<1>8. /\ judged' \in [SnapshotIds -> Seq(Judgement)] /\ judged'[i] = more
      /\ \A j \in SnapshotIds \ {i} : judged'[j] = judged[j]
  BY <1>1, <1>2, <1>6, <1>7
<1>9. states \in Seq(T) /\ Held(states, i) /\ \A j : Held(adaptive.states, j) => Held(states, j)
  <2> DEFINE U == {r \in S : r.id # state.id} \cup {state}
  <2>1. states \in Seq(U) /\ Held(states, i) /\ \A j : Held(adaptive.states, j) => Held(states, j)
    <3> HIDE DEF S
    <3>1. QED
      BY <1>6, <1>7, PutApart
  <2>2. U \subseteq T
    <3>1. state \in T
      BY <1>6, <1>8
    <3>2. ASSUME NEW r \in S, r.id # state.id PROVE r \in T
      <4>1. r \in RiskState /\ AsJudged(r, judged[r.id]) /\ r.id \in SnapshotIds \ {i}
        BY <1>6, <3>2 DEF RiskState
      <4>2. QED
        BY <1>8, <4>1
    <3> HIDE DEF S, T
    <3>3. QED
      BY <3>1, <3>2
  <2> HIDE DEF U, T, states
  <2>3. states \in Seq(T)
    BY <2>1, <2>2, WiderSequence
  <2>4. QED
    BY <2>1, <2>3
<1>10. SoundResult(given')
  <2>1. state.state \in AdaptiveRiskState
    BY <1>6 DEF RiskState
  <2>2. SoundResult(Given(d, capped, state.state))
    BY <1>3, <2>1, GivenFacts DEF IsSized
  <2>3. QED
    BY <1>1, <2>2
<1>11. SoundCache(cache)
  <2>1. MaxAdaptiveCache \in Nat /\ SoundCache(adaptive.cache)
    BY AdaptiveAssumption DEF AdaptiveRiskConfiguration, RiskInvariant
  <2>2. SoundResult(entry.result)
    BY <1>10
  <2> HIDE DEF entry
  <2>3. QED
    BY <2>1, <2>2, CacheMore
<1>12. peak = highest'
  BY <1>1 DEF Peak, RiskInvariant
<1>13. ASSUME NEW j \in SnapshotIds
       PROVE  /\ Held(states, j) \/ judged'[j] = <<>>
              /\ \A n \in 2..Len(judged'[j]) : WellJudged(judged'[j], n)
  <2>1. CASE j = i
    BY <1>6, <1>8, <1>9, <2>1
  <2>2. CASE j # i
    BY <1>8, <1>9, <2>2 DEF RiskInvariant
  <2>3. QED
    BY <2>1, <2>2
<1>14. theses' \in Theses
  BY DEF RiskInvariant
<1> HIDE DEF states, cache, peak
<1>15. adaptive'.peak = peak /\ adaptive'.states = states /\ adaptive'.cache = cache
  BY <1>1
<1>16. QED
  BY <1>1, <1>8, <1>9, <1>10, <1>11, <1>12, <1>13, <1>14, <1>15 DEF RiskInvariant

LEMMA RestrictAgainKeeps ==
  ASSUME RiskInvariant, NEW d, NEW history, NEW evidence,
         RestrictRiskAgain(d, history, evidence), UNCHANGED theses
  PROVE  RiskInvariant'
<1> DEFINE key == <<d, history, evidence>>
           cache == Append(Without(adaptive.cache, key), Entry(adaptive.cache, key))
<1>1. /\ Held(adaptive.cache, key) /\ given' = Entry(adaptive.cache, key).result
      /\ adaptive' = [adaptive EXCEPT !.cache = cache]
      /\ UNCHANGED <<judged, highest>>
  BY DEF RestrictRiskAgain
<1> HIDE DEF key
<1>2. SoundCache(cache) /\ SoundResult(given')
  BY <1>1, CacheAgain DEF RiskInvariant
<1> HIDE DEF cache
<1>3. adaptive' = [peak |-> adaptive.peak, states |-> adaptive.states, cache |-> cache]
  BY <1>1 DEF RiskInvariant
<1>4. adaptive'.peak = adaptive.peak /\ adaptive'.states = adaptive.states /\ adaptive'.cache = cache
  BY <1>3
<1>5. QED
  BY <1>1, <1>2, <1>3, <1>4 DEF RiskInvariant

\* The invariant, when only theses change.
LEMMA OtherTheses ==
  ASSUME RiskInvariant, theses' \in Theses, UNCHANGED <<adaptive, given, judged, highest>>
  PROVE  RiskInvariant'
BY DEF RiskInvariant

LEMMA NextRisk ==
  ASSUME RiskInvariant, [RiskNext]_riskVars
  PROVE  RiskInvariant'
<1>1. theses \in Theses
  BY DEF RiskInvariant
<1>2. CASE MakeThesis
  BY <1>1, <1>2, EvaluateThesisKeeps, OtherTheses DEF MakeThesis
<1>3. CASE FollowThesis
  BY <1>1, <1>3, FollowThesisKeeps, OtherTheses DEF FollowThesis
<1>4. CASE Reconciliation
  <2>1. PICK d \in HeldDecisions, c \in Capitals, n \in Costs, h \in Equities, e \in Evidences :
          ReconcileThesis(d, c, n, h, e)
    BY <1>4 DEF Reconciliation
  <2> DEFINE s == CHOOSE x \in Snapshots : x.id = d.snapshot
             sized == Sized(s, c, d.distance, n)
  <2>2. d \in ThesisDecision /\ d.distance # None
    BY <1>1, <2>1, HeldFacts DEF ReconcileThesis
  <2>3. s \in Snapshots /\ d.distance \in Nat \ {0}
    BY <2>2 DEF ThesisDecision, SnapshotIds, Distances
  <2>4. RestrictRisk(sized, h, e) \/ RestrictRiskAgain(sized, h, e)
    BY <2>1 DEF ReconcileThesis
  <2>5. UNCHANGED theses
    BY <2>1 DEF ReconcileThesis
  <2> HIDE DEF s
  <2>6. IsSized(sized)
    BY <2>3, SizedFacts
  <2> HIDE DEF sized
  <2>7. QED
    BY <2>4, <2>5, <2>6, RestrictRiskKeeps, RestrictAgainKeeps
<1>5. CASE RestartRisk
  <2>1. theses' \in Theses
    BY <1>1, <1>5, RestartThesesKeeps DEF RestartRisk
  <2>2. adaptive' = [adaptive EXCEPT !.cache = <<>>] /\ UNCHANGED <<given, judged, highest>>
    BY <1>5 DEF RestartRisk
  <2>3. adaptive' = [peak |-> adaptive.peak, states |-> adaptive.states, cache |-> <<>>]
    BY <2>2 DEF RiskInvariant
  <2>4. adaptive'.peak = adaptive.peak /\ adaptive'.states = adaptive.states /\ adaptive'.cache = <<>>
    BY <2>3
  <2>5. SoundCache(<<>>)
    BY NothingCached
  <2>6. QED
    BY <2>1, <2>2, <2>3, <2>4, <2>5 DEF RiskInvariant
<1>6. CASE UNCHANGED riskVars
  BY <1>6 DEF RiskInvariant, riskVars
<1>7. QED
  BY <1>2, <1>3, <1>4, <1>5, <1>6 DEF RiskNext

\* The invariant is what the run checks.
LEMMA InvariantRestricts == RiskInvariant => RestrictionEarned
<1> SUFFICES ASSUME RiskInvariant PROVE RestrictionEarned
  OBVIOUS
<1>1. \A i \in DOMAIN theses.states : theses.states[i].status \in InvalidationLifecycle
  <2>1. theses.states \in Seq(ThesisDecision)
    BY DEF RiskInvariant, Theses
  <2>2. ASSUME NEW i \in DOMAIN theses.states PROVE theses.states[i].status \in InvalidationLifecycle
    <3>1. theses.states[i] \in ThesisDecision
      BY <2>1
    <3>2. QED
      BY <3>1 DEF ThesisDecision
  <2>3. QED
    BY <2>2
<1>2. \A i \in DOMAIN adaptive.states : adaptive.states[i].state \in AdaptiveRiskState
  <2> DEFINE S == {s \in RiskState : AsJudged(s, judged[s.id])}
  <2>1. adaptive.states \in Seq(S)
    BY DEF RiskInvariant
  <2>2. ASSUME NEW i \in DOMAIN adaptive.states PROVE adaptive.states[i].state \in AdaptiveRiskState
    <3> HIDE DEF S
    <3>1. adaptive.states[i] \in S
      BY <2>1
    <3>2. adaptive.states[i] \in RiskState
      BY <3>1 DEF S
    <3>3. QED
      BY <3>2 DEF RiskState
  <2>3. QED
    BY <2>2
<1>3. \A i \in DOMAIN judged : \A n \in 2..Len(judged[i]) : WellJudged(judged[i], n)
  BY DEF RiskInvariant
<1>4. given # None => SoundResult(given)
  BY DEF RiskInvariant
<1>5. adaptive.peak = highest
  BY DEF RiskInvariant
<1>6. QED
  BY <1>1, <1>2, <1>3, <1>4, <1>5 DEF RestrictionEarned, RiskTypeOK, WellJudged, SoundResult

\* What is given of a budget is within it and within the risk it names; a decision's
\* risk state gets worse at once, and milder by one step, after as many milder
\* proposals in a row as are configured; no drawdown is measured from less than the
\* highest equity that was seen.
THEOREM RestrictionsAreEarned == RiskSpec => []RestrictionEarned
<1>1. RiskInit => RiskInvariant
  <2> SUFFICES ASSUME RiskInit PROVE RiskInvariant
    OBVIOUS
  <2>1. /\ theses = FreshTheses /\ adaptive = FreshAdaptive /\ given = None
        /\ judged = [i \in SnapshotIds |-> <<>>] /\ highest = 0
    BY DEF RiskInit, SnapshotIds
  <2>2. theses \in Theses
    BY <2>1 DEF FreshTheses, Theses
  <2>3. /\ adaptive = [peak |-> 0, states |-> <<>>, cache |-> <<>>]
        /\ adaptive.peak = 0 /\ adaptive.states = <<>> /\ adaptive.cache = <<>>
    BY <2>1 DEF FreshAdaptive
  <2>4. SoundCache(<<>>)
    BY NothingCached
  <2>5. judged \in [SnapshotIds -> Seq(Judgement)] /\ \A i \in SnapshotIds : judged[i] = <<>>
    BY <2>1
  <2>6. 2..Len(<<>>) = {}
    OBVIOUS
  <2>7. <<>> \in Seq({s \in RiskState : AsJudged(s, judged[s.id])})
    OBVIOUS
  <2>8. QED
    BY <2>1, <2>2, <2>3, <2>4, <2>5, <2>6, <2>7 DEF RiskInvariant
<1>2. RiskInvariant /\ [RiskNext]_riskVars => RiskInvariant'
  BY NextRisk
<1>3. QED
  BY <1>1, <1>2, InvariantRestricts, PTL DEF RiskSpec
=============================================================================
