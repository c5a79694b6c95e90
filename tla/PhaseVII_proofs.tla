--------------------------- MODULE PhaseVII_proofs ---------------------------
(***************************************************************************)
(* Proofs about the reliability monitor and about systemic safety, each    *)
(* alone; that what is proved of one engine holds of the engines together; *)
(* what a restart and the loss of records leave of each; that a cooldown   *)
(* is served and no block is averaged away; that a scope has one incident; *)
(* and that the index and the budgets are what the evidence adds up to.    *)
(* They hold for every set of outcomes, results and signals, every         *)
(* starting value, every configuration and every bound.                    *)
(***************************************************************************)
EXTENDS PhaseVII, Store, SequenceTheorems, FiniteSetTheorems, TLAPS

(***************************************************************************)
(* Reliability.                                                            *)
(***************************************************************************)

\* The state kept outside the engine.
BackupState == [current : Index \cup {None}, versions : Seq(Index),
                events : Seq(OutcomeEvent), evidence : SUBSET Outcomes]

\* Version i is no better than its own deterioration, and its progress counts
\* the outcomes in a row that were better than its stage and left it as it is.
Sound(vs, i) ==
  /\ vs[i].stage >= RawStage(vs[i].value, vs[i].best)
  /\ vs[i].progress < Confirmations
  /\ vs[i].progress < i
  /\ \A j \in (i - vs[i].progress + 1)..i :
       /\ RawStage(vs[j].value, vs[j].best) < vs[i].stage
       /\ vs[j - 1].stage = vs[i].stage

\* What ImprovementConfirmed says of version i.
Confirmed(vs, i) ==
  vs[i].stage < vs[i - 1].stage =>
    /\ vs[i].stage = vs[i - 1].stage - 1
    /\ i > Confirmations
    /\ \A j \in (i - Confirmations + 1)..i :
         /\ RawStage(vs[j].value, vs[j].best) < vs[i - 1].stage
         /\ vs[j - 1].stage = vs[i - 1].stage

\* An index and its versions, in the engine or outside.
Coherent(current, vs) ==
  /\ current = None => vs = <<>>
  /\ current # None => Len(vs) > 0 /\ current = vs[Len(vs)]
  /\ \A i \in 1..Len(vs) : Sound(vs, i)
  /\ \A i \in 2..Len(vs) : Confirmed(vs, i)

\* The inductive invariants.
TInv ==
  /\ ReliabilityTypeOK
  /\ reliabilityBackup # None => reliabilityBackup \in BackupState

IInv ==
  /\ Coherent(index, indexVersions)
  /\ reliabilityBackup # None =>
       Coherent(reliabilityBackup.current, reliabilityBackup.versions)

-----------------------------------------------------------------------------
(* Lemmas about the helpers.                                               *)

\* _stage returns a stage, whatever the thresholds it compares with.
LEMMA RawStageIsStage ==
  ASSUME NEW value, NEW best
  PROVE  RawStage(value, best) \in Stage
<1> DEFINE S == {NORMAL} \cup {k \in 1..SUSPENDED : Reaches(k, value, best)}
<1>1. S \subseteq Stage /\ 0 \in S
  BY DEF Stage, NORMAL, SUSPENDED
<1>2. \E s \in S : \A r \in S : r <= s
  <2>1. \A r \in S : r \in {0, 1, 2, 3, 4}
    BY <1>1 DEF Stage, NORMAL, SUSPENDED
  <2> HIDE DEF S
  <2>2. CASE 4 \in S
    BY <2>1, <2>2
  <2>3. CASE 4 \notin S /\ 3 \in S
    BY <2>1, <2>3
  <2>4. CASE 4 \notin S /\ 3 \notin S /\ 2 \in S
    BY <2>1, <2>4
  <2>5. CASE 4 \notin S /\ 3 \notin S /\ 2 \notin S /\ 1 \in S
    BY <2>1, <2>5
  <2>6. CASE 4 \notin S /\ 3 \notin S /\ 2 \notin S /\ 1 \notin S
    BY <1>1, <2>1, <2>6
  <2>7. QED
    BY <2>2, <2>3, <2>4, <2>5, <2>6
<1>3. Worst(S) \in S
  BY <1>2 DEF Worst
<1>4. RawStage(value, best) = Worst(S)
  BY DEF RawStage
<1>5. QED
  BY <1>1, <1>3, <1>4

\* _publish: never better than the raw stage; up by one stage only, and then the
\* progress was at its end.
LEMMA PublishProperties ==
  ASSUME NEW raw \in Stage, NEW current \in Index, current.progress < Confirmations
  PROVE  LET p == Publish(raw, current)
         IN /\ p.stage \in Stage /\ p.progress \in Nat
            /\ p.stage >= raw
            /\ p.progress < Confirmations
            /\ p.progress # 0 =>
                 /\ p.progress = current.progress + 1
                 /\ p.stage = current.stage
                 /\ raw < current.stage
            /\ p.stage < current.stage =>
                 /\ p.stage = current.stage - 1
                 /\ p.progress = 0
                 /\ raw < current.stage
                 /\ current.progress + 1 = Confirmations
<1>1. Confirmations \in Nat \ {0}
  BY ReliabilityAssumption DEF ReliabilityAssumption, ReliabilityConfiguration
<1>2. current.stage \in Stage /\ current.progress \in Nat
  BY DEF Index
<1>3. raw \in 0..4 /\ current.stage \in 0..4
  BY <1>2 DEF Stage, NORMAL, SUSPENDED
<1>4. CASE raw >= current.stage
  BY <1>1, <1>2, <1>3, <1>4 DEF Publish
<1>5. CASE raw < current.stage /\ current.progress + 1 < Confirmations
  BY <1>1, <1>2, <1>3, <1>5 DEF Publish
<1>6. CASE raw < current.stage /\ ~(current.progress + 1 < Confirmations)
  <2>1. Greatest(raw, current.stage - 1) = current.stage - 1
    BY <1>3, <1>6 DEF Greatest
  <2>2. Publish(raw, current) = [stage |-> current.stage - 1, progress |-> 0]
    BY <1>2, <1>3, <1>6, <2>1 DEF Publish
  <2>3. current.stage - 1 \in Stage
    BY <1>3, <1>6 DEF Stage, NORMAL, SUSPENDED
  <2>4. QED
    BY <1>1, <1>2, <1>3, <1>6, <2>2, <2>3
<1>7. QED
  BY <1>3, <1>4, <1>5, <1>6

\* The version an outcome makes is a version.
LEMMA MovedIsIndex ==
  ASSUME NEW current \in Index, NEW o \in Outcomes, o.observed \in Time,
         current.progress < Confirmations
  PROVE  Moved(current, o) \in Index
<1> DEFINE value == Shifted(current.value, o)
           best  == Greatest(current.best, value)
           raw   == RawStage(value, best)
           p     == Publish(raw, current)
<1>1. current.value \in Nat /\ current.best \in Nat /\ current.count \in Nat
  BY DEF Index
<1>2. o.delta \in Int
  BY ReliabilityAssumption DEF ReliabilityAssumption, ReliabilityConfiguration, Outcome
<1>3. value \in Nat
  BY <1>1, <1>2 DEF Shifted, Greatest
<1>4. best \in Nat
  BY <1>1, <1>3 DEF Greatest
<1>5. raw \in Stage
  BY RawStageIsStage
<1>6. p.stage \in Stage /\ p.progress \in Nat
  <2> HIDE DEF raw
  <2> QED
    BY <1>5, PublishProperties
<1>7. Moved(current, o) =
        [value |-> value, best |-> best, raw |-> raw, stage |-> p.stage,
         progress |-> p.progress, count |-> current.count + 1, observed |-> o.observed]
  BY DEF Moved
<1> HIDE DEF value, best, raw, p
<1>8. QED
  BY <1>1, <1>3, <1>4, <1>5, <1>6, <1>7 DEF Index

\* Versions that are sound and confirmed are still with the one an outcome adds.
LEMMA MovedCoherent ==
  ASSUME NEW vs \in Seq(Index), Coherent(vs[Len(vs)], vs), Len(vs) > 0,
         NEW o \in Outcomes, o.observed \in Time
  PROVE  Coherent(Moved(vs[Len(vs)], o), Append(vs, Moved(vs[Len(vs)], o)))
<1> DEFINE n   == Len(vs)
           cur == vs[n]
           new == Moved(cur, o)
           ws  == Append(vs, new)
           raw == RawStage(new.value, new.best)
<1>1. n \in Nat /\ n > 0 /\ cur \in Index
  OBVIOUS
<1>2. cur.stage >= RawStage(cur.value, cur.best) /\ cur.progress < Confirmations
      /\ cur.progress < n
  BY <1>1 DEF Coherent, Sound
<1>3. new \in Index
  BY <1>1, <1>2, MovedIsIndex
<1>4. raw \in Stage
  BY RawStageIsStage
<1>5. new.stage = Publish(raw, cur).stage /\ new.progress = Publish(raw, cur).progress
  BY DEF Moved
<1>6. Len(ws) = n + 1 /\ ws[n + 1] = new /\ (\A i \in 1..n : ws[i] = vs[i])
  BY <1>1, <1>3
<1>7. cur.stage \in Stage /\ cur.progress \in Nat /\ new.stage \in Stage
      /\ new.progress \in Nat
  BY <1>1, <1>3 DEF Index
<1>8. /\ new.stage >= raw
      /\ new.progress < Confirmations
      /\ new.progress # 0 =>
           /\ new.progress = cur.progress + 1
           /\ new.stage = cur.stage
           /\ raw < cur.stage
      /\ new.stage < cur.stage =>
           /\ new.stage = cur.stage - 1
           /\ new.progress = 0
           /\ raw < cur.stage
           /\ cur.progress + 1 = Confirmations
  <2> HIDE DEF raw, new, cur
  <2>1. cur \in Index /\ cur.progress < Confirmations
    BY <1>1, <1>2
  <2>2. QED
    BY <1>4, <1>5, <2>1, PublishProperties
<1>9. Confirmations \in Nat \ {0}
  BY ReliabilityAssumption DEF ReliabilityAssumption, ReliabilityConfiguration
<1>10. \A i \in 1..n : vs[i].progress \in Nat /\ vs[i].stage \in Stage
  <2>1. \A i \in 1..n : vs[i] \in Index
    BY <1>1
  <2>2. QED
    BY <2>1 DEF Index
<1>11. \A j \in (n - cur.progress + 1)..n :
         RawStage(ws[j].value, ws[j].best) < cur.stage /\ ws[j - 1].stage = cur.stage
  <2> SUFFICES ASSUME NEW j \in (n - cur.progress + 1)..n
               PROVE  RawStage(ws[j].value, ws[j].best) < cur.stage
                      /\ ws[j - 1].stage = cur.stage
    OBVIOUS
  <2>1. j \in 1..n /\ j - 1 \in 1..n
    BY <1>1, <1>2, <1>7
  <2>2. Sound(vs, n)
    BY <1>1 DEF Coherent
  <2>3. RawStage(vs[j].value, vs[j].best) < cur.stage /\ vs[j - 1].stage = cur.stage
    BY <2>2 DEF Sound
  <2> HIDE DEF ws
  <2>4. QED
    BY <1>6, <2>1, <2>3
<1> HIDE DEF new, ws, raw, cur
<1>12. \A i \in 1..(n + 1) : Sound(ws, i)
  <2> SUFFICES ASSUME NEW i \in 1..(n + 1) PROVE Sound(ws, i)
    OBVIOUS
  <2>1. CASE i \in 1..n
    <3>1. Sound(vs, i)
      BY <2>1 DEF Coherent
    <3>2. ws[i] = vs[i]
      BY <1>6, <2>1
    <3>3. ASSUME NEW j \in (i - vs[i].progress + 1)..i
          PROVE  ws[j] = vs[j] /\ ws[j - 1] = vs[j - 1]
      <4>1. j \in 1..n /\ j - 1 \in 1..n
        BY <1>1, <1>10, <2>1, <3>1 DEF Sound
      <4>2. QED
        BY <1>6, <4>1
    <3>4. QED
      BY <3>1, <3>2, <3>3 DEF Sound
  <2>2. CASE i = n + 1
    <3>1. ws[i] = new /\ ws[i - 1] = cur
      BY <1>1, <1>6, <2>2 DEF cur
    <3>2. new.stage >= RawStage(new.value, new.best) /\ new.progress < Confirmations
      BY <1>8 DEF raw
    <3>3. new.progress < i
      BY <1>1, <1>2, <1>7, <1>8, <2>2
    <3>4. ASSUME NEW j \in (i - new.progress + 1)..i
          PROVE  RawStage(ws[j].value, ws[j].best) < new.stage /\ ws[j - 1].stage = new.stage
      <4>1. new.progress = cur.progress + 1 /\ new.stage = cur.stage /\ raw < cur.stage
        BY <1>1, <1>7, <1>8, <2>2, <3>4
      <4>2. CASE j = n + 1
        BY <2>2, <3>1, <4>1, <4>2 DEF raw
      <4>3. CASE j # n + 1
        <5>1. j \in (n - cur.progress + 1)..n
          BY <1>1, <1>7, <2>2, <4>1, <4>3
        <5>2. QED
          BY <1>11, <4>1, <5>1
      <4>4. QED
        BY <4>2, <4>3
    <3>5. QED
      BY <3>1, <3>2, <3>3, <3>4 DEF Sound
  <2>3. QED
    BY <1>1, <2>1, <2>2
<1>13. \A i \in 2..(n + 1) : Confirmed(ws, i)
  <2> SUFFICES ASSUME NEW i \in 2..(n + 1) PROVE Confirmed(ws, i)
    OBVIOUS
  <2>1. CASE i \in 2..n
    <3>1. Confirmed(vs, i)
      BY <2>1 DEF Coherent
    <3>2. ws[i] = vs[i] /\ ws[i - 1] = vs[i - 1]
      BY <1>1, <1>6, <2>1
    <3>3. ASSUME NEW j \in (i - Confirmations + 1)..i, i > Confirmations
          PROVE  ws[j] = vs[j] /\ ws[j - 1] = vs[j - 1]
      <4>1. j \in 1..n /\ j - 1 \in 1..n
        BY <1>1, <1>9, <2>1, <3>3
      <4>2. QED
        BY <1>6, <4>1
    <3>4. QED
      BY <3>1, <3>2, <3>3 DEF Confirmed
  <2>2. CASE i = n + 1
    <3>1. ws[i] = new /\ ws[i - 1] = cur
      BY <1>1, <1>6, <2>2 DEF cur
    <3>2. CASE new.stage < cur.stage
      <4>1. /\ new.stage = cur.stage - 1 /\ raw < cur.stage
            /\ cur.progress = Confirmations - 1
        BY <1>7, <1>8, <1>9, <3>2
      <4>2. i > Confirmations
        BY <1>1, <1>2, <1>9, <2>2, <4>1
      <4>3. ASSUME NEW j \in (i - Confirmations + 1)..i
            PROVE  RawStage(ws[j].value, ws[j].best) < cur.stage
                   /\ ws[j - 1].stage = cur.stage
        <5>1. CASE j = n + 1
          BY <2>2, <3>1, <4>1, <5>1 DEF raw
        <5>2. CASE j # n + 1
          <6>1. j \in (n - cur.progress + 1)..n
            BY <1>1, <1>7, <1>9, <2>2, <4>1, <5>2
          <6>2. QED
            BY <1>11, <6>1
        <5>3. QED
          BY <5>1, <5>2
      <4>4. QED
        BY <3>1, <4>1, <4>2, <4>3 DEF Confirmed
    <3>3. CASE ~(new.stage < cur.stage)
      BY <3>1, <3>3 DEF Confirmed
    <3>4. QED
      BY <3>2, <3>3
  <2>3. QED
    BY <1>1, <2>1, <2>2
<1>14. new # None
  BY <1>3, NoIndexIsNone
<1>15. Coherent(new, ws)
  BY <1>1, <1>6, <1>12, <1>13, <1>14 DEF Coherent
<1>16. QED
  BY <1>15 DEF new, ws, cur

LEMMA PositiveProduct ==
  ASSUME NEW a \in Nat, NEW b \in Nat, a > 0, b > 0
  PROVE  a * b > 0
OBVIOUS

\* A version as initialize makes it is sound, and alone there is nothing to confirm.
LEMMA FreshCoherent ==
  ASSUME NEW asOf \in Time
  PROVE  FreshIndex(asOf) \in Index /\ Coherent(FreshIndex(asOf), <<FreshIndex(asOf)>>)
<1> DEFINE f == FreshIndex(asOf)
<1>1. Start \in Nat \ {0} /\ Confirmations \in Nat \ {0} /\ Threshold \in [1..SUSPENDED -> 1..99]
  BY ReliabilityAssumption DEF ReliabilityAssumption, ReliabilityConfiguration
<1>2. f \in Index
  <2>1. NORMAL \in Stage
    BY DEF NORMAL, Stage, SUSPENDED
  <2>2. QED
    BY <1>1, <2>1 DEF FreshIndex, Index
<1>3. RawStage(Start, Start) <= NORMAL
  <2>1. {k \in 1..SUSPENDED : Reaches(k, Start, Start)} = {}
    <3> SUFFICES ASSUME NEW k \in 1..SUSPENDED PROVE ~Reaches(k, Start, Start)
      OBVIOUS
    <3>1. Threshold[k] \in 1..99
      BY <1>1
    <3>2. Threshold[k] \in Nat /\ Threshold[k] > 0 /\ Start \in Nat /\ Start > 0
      <4>1. Threshold[k] \in Nat /\ Threshold[k] > 0
        BY <3>1
      <4>2. Start \in Nat /\ Start > 0
        BY <1>1
      <4>3. QED
        BY <4>1, <4>2
    <3>3. Threshold[k] * Start > 0
      BY <3>2, PositiveProduct
    <3>4. 100 * (Start - Start) = 0
      BY <3>2
    <3>5. Reaches(k, Start, Start) <=> 0 >= Threshold[k] * Start
      BY <3>4 DEF Reaches
    <3>6. Threshold[k] * Start \in Int
      BY <3>2
    <3>7. QED
      BY <3>3, <3>5, <3>6
  <2>2. RawStage(Start, Start) = Worst({NORMAL})
    BY <2>1 DEF RawStage
  <2>3. Worst({NORMAL}) = NORMAL
    BY DEF Worst, NORMAL
  <2>4. QED
    BY <2>2, <2>3 DEF NORMAL
<1>4. Sound(<<f>>, 1)
  <2>1. /\ f.stage = NORMAL /\ f.progress = 0 /\ f.value = Start /\ f.best = Start
    BY DEF FreshIndex
  <2>2. f.stage >= RawStage(f.value, f.best)
    BY <1>3, <2>1, RawStageIsStage DEF Stage, NORMAL, SUSPENDED
  <2> HIDE DEF f
  <2>3. QED
    BY <1>1, <2>1, <2>2 DEF Sound
<1> HIDE DEF f
<1>5. f # None
  BY <1>2, NoIndexIsNone
<1>6. Coherent(f, <<f>>)
  BY <1>4, <1>5 DEF Coherent
<1>7. QED
  BY <1>2, <1>6 DEF f

\* Removing an element of a sequence leaves a sequence.
LEMMA WithoutIsSeq ==
  ASSUME NEW S, NEW s \in Seq(S), NEW i \in DOMAIN s
  PROVE  [j \in 1..(Len(s) - 1) |-> IF j < i THEN s[j] ELSE s[j + 1]] \in Seq(S)
<1> DEFINE n == Len(s) - 1
<1>1. n \in Nat /\ DOMAIN s = 1..Len(s) /\ Len(s) \in Nat
  OBVIOUS
<1>2. \A j \in 1..n : (IF j < i THEN s[j] ELSE s[j + 1]) \in S
  BY <1>1
<1>3. QED
  BY <1>1, <1>2, IsASeq

\* A state that has lost a record is a state, with the versions of its index.
LEMMA DamagedState ==
  ASSUME NEW b \in BackupState, NEW d \in Damaged(b), Coherent(b.current, b.versions)
  PROVE  d \in BackupState /\ Coherent(d.current, d.versions)
<1> DEFINE without(i) == [j \in 1..(Len(b.events) - 1) |->
                            IF j < i THEN b.events[j] ELSE b.events[j + 1]]
<1>1. /\ b.current \in Index \cup {None} /\ b.versions \in Seq(Index)
      /\ b.events \in Seq(OutcomeEvent) /\ b.evidence \in SUBSET Outcomes
  BY DEF BackupState
<1>2. CASE \E i \in DOMAIN b.events : d = [b EXCEPT !.events = without(i)]
  <2>1. PICK i \in DOMAIN b.events : d = [b EXCEPT !.events = without(i)]
    BY <1>2
  <2>2. without(i) \in Seq(OutcomeEvent)
    BY <1>1, WithoutIsSeq
  <2> HIDE DEF without
  <2>3. d.current = b.current /\ d.versions = b.versions
    BY <2>1 DEF BackupState
  <2>4. d = [current |-> b.current, versions |-> b.versions, events |-> without(i),
             evidence |-> b.evidence]
    BY <2>1 DEF BackupState
  <2>5. d \in BackupState
    BY <1>1, <2>2, <2>4 DEF BackupState
  <2>6. QED
    BY <2>3, <2>5
<1>3. CASE \E e \in b.evidence : d = [b EXCEPT !.evidence = @ \ {e}]
  <2>1. PICK e \in b.evidence : d = [b EXCEPT !.evidence = @ \ {e}]
    BY <1>3
  <2>2. d.current = b.current /\ d.versions = b.versions
    BY <2>1 DEF BackupState
  <2>3. d = [current |-> b.current, versions |-> b.versions, events |-> b.events,
             evidence |-> b.evidence \ {e}]
    BY <2>1 DEF BackupState
  <2>4. d \in BackupState
    BY <1>1, <2>3 DEF BackupState
  <2>5. QED
    BY <2>2, <2>4
<1>4. CASE d = [b EXCEPT !.current = None, !.versions = <<>>]
  <2>1. d.current = None /\ d.versions = <<>>
    BY <1>4 DEF BackupState
  <2>2. d = [current |-> None, versions |-> <<>>, events |-> b.events,
             evidence |-> b.evidence]
    BY <1>4 DEF BackupState
  <2>3. <<>> \in Seq(Index)
    OBVIOUS
  <2>4. d \in BackupState
    BY <1>1, <2>2, <2>3 DEF BackupState
  <2>5. Coherent(None, <<>>)
    BY DEF Coherent
  <2>6. QED
    BY <2>1, <2>4, <2>5
<1>5. QED
  BY <1>2, <1>3, <1>4 DEF Damaged

-----------------------------------------------------------------------------
(* Every step preserves the invariants.                                    *)

LEMMA InitInv == ReliabilityInit => TInv /\ IInv
<1> SUFFICES ASSUME ReliabilityInit PROVE TInv /\ IInv
  OBVIOUS
<1>1. MaxLosses \in Nat /\ MaxOutcomes \in Nat \ {0}
  BY EvidenceAssumption, ReliabilityAssumption
     DEF EvidenceAssumption, ReliabilityAssumption, ReliabilityConfiguration
<1>2. TInv
  BY <1>1 DEF TInv, ReliabilityInit, ReliabilityTypeOK
<1>3. IInv
  BY DEF IInv, ReliabilityInit, Coherent
<1>4. QED
  BY <1>2, <1>3

\* Taking the state, losing records of it and restoring it.
LEMMA OutsideInv ==
  ASSUME TInv, IInv,
         StopReliability \/ RestoreReliability \/ StartReliabilityAfresh \/ DamageReliability
  PROVE  TInv' /\ IInv'
<1>1. MaxLosses \in Nat /\ MaxOutcomes \in Nat \ {0}
  BY EvidenceAssumption, ReliabilityAssumption
     DEF EvidenceAssumption, ReliabilityAssumption, ReliabilityConfiguration
<1>2. CASE StopReliability
  <2>1. reliabilityBackup' \in BackupState
    BY <1>2 DEF StopReliability, TInv, ReliabilityTypeOK, BackupState
  <2>2. reliabilityBackup'.current = index /\ reliabilityBackup'.versions = indexVersions
    BY <1>2 DEF StopReliability
  <2>3. TInv'
    BY <1>1, <1>2, <2>1 DEF StopReliability, TInv, ReliabilityTypeOK
  <2>4. Coherent(None, <<>>)
    BY DEF Coherent
  <2>5. IInv'
    BY <1>2, <2>2, <2>4 DEF StopReliability, IInv
  <2>6. QED
    BY <2>3, <2>5
<1>3. CASE RestoreReliability
  <2>1. reliabilityBackup \in BackupState /\ Len(reliabilityBackup.events) <= MaxOutcomes
    BY <1>3 DEF RestoreReliability, AcceptableReliability, TInv
  <2>2. TInv'
    BY <1>3, <2>1 DEF RestoreReliability, TInv, ReliabilityTypeOK, BackupState
  <2>3. IInv'
    BY <1>3 DEF RestoreReliability, IInv
  <2>4. QED
    BY <2>2, <2>3
<1>4. CASE StartReliabilityAfresh
  <2>1. TInv'
    BY <1>4 DEF StartReliabilityAfresh, TInv, ReliabilityTypeOK, reliabilityEngine
  <2>2. IInv'
    BY <1>4 DEF StartReliabilityAfresh, IInv, reliabilityEngine
  <2>3. QED
    BY <2>1, <2>2
<1>5. CASE DamageReliability
  <2>1. /\ reliabilityBackup \in BackupState
        /\ Coherent(reliabilityBackup.current, reliabilityBackup.versions)
        /\ reliabilityBackup' \in Damaged(reliabilityBackup)
    BY <1>5 DEF DamageReliability, TInv, IInv
  <2>2. /\ reliabilityBackup' \in BackupState
        /\ Coherent(reliabilityBackup'.current, reliabilityBackup'.versions)
    BY <2>1, DamagedState
  <2>3. TInv'
    BY <1>1, <1>5, <2>2
       DEF DamageReliability, TInv, ReliabilityTypeOK, reliabilityEngine
  <2>4. IInv'
    BY <1>5, <2>2 DEF DamageReliability, IInv, reliabilityEngine
  <2>5. QED
    BY <2>3, <2>4
<1>6. QED
  BY <1>2, <1>3, <1>4, <1>5

LEMMA InitializeInv ==
  ASSUME TInv, IInv, NEW asOf \in Time, reliabilityBackup = None, InitializeIndex(asOf)
  PROVE  TInv' /\ IInv'
<1>1. index' = FreshIndex(asOf) /\ indexVersions' = <<FreshIndex(asOf)>>
  BY DEF InitializeIndex
<1>2. FreshIndex(asOf) \in Index /\ Coherent(FreshIndex(asOf), <<FreshIndex(asOf)>>)
  BY FreshCoherent
<1>3. index' \in Index /\ indexVersions' \in Seq(Index)
  BY <1>1, <1>2
<1>4. TInv'
  BY <1>3 DEF InitializeIndex, TInv, ReliabilityTypeOK
<1>5. IInv'
  BY <1>1, <1>2 DEF InitializeIndex, IInv
<1>6. QED
  BY <1>4, <1>5

LEMMA ProcessInv ==
  ASSUME TInv, IInv, NEW asOf \in Time, NEW o \in Outcomes, reliabilityBackup = None,
         ProcessOutcome(o, asOf)
  PROVE  TInv' /\ IInv'
<1>1. /\ indexVersions \in Seq(Index) /\ Len(indexVersions) > 0
      /\ index = indexVersions[Len(indexVersions)] /\ index \in Index
  BY DEF ProcessOutcome, TInv, ReliabilityTypeOK, IInv, Coherent
<1>2. o \in Outcome
  BY ReliabilityAssumption DEF ReliabilityAssumption, ReliabilityConfiguration
<1>3. o.observed \in Time
  BY <1>2 DEF Outcome
<1>4. index.progress < Confirmations
  BY <1>1 DEF IInv, Coherent, Sound
<1>5. Moved(index, o) \in Index
  BY <1>1, <1>3, <1>4, MovedIsIndex
<1>6. Coherent(Moved(index, o), Append(indexVersions, Moved(index, o)))
  <2>1. Coherent(indexVersions[Len(indexVersions)], indexVersions)
    BY <1>1 DEF IInv
  <2>2. QED
    BY <1>1, <1>3, <2>1, MovedCoherent
<1>7. index' = Moved(index, o) /\ indexVersions' = Append(indexVersions, Moved(index, o))
  BY DEF ProcessOutcome
<1>8. index' \in Index /\ indexVersions' \in Seq(Index)
  BY <1>1, <1>5, <1>7
<1>9. outcomeEvents' \in Seq(OutcomeEvent) /\ Len(outcomeEvents') <= MaxOutcomes
  <2>1. outcomeEvents \in Seq(OutcomeEvent) /\ Len(outcomeEvents) < MaxOutcomes
    BY DEF ProcessOutcome, TInv, ReliabilityTypeOK
  <2>2. [sequence |-> Len(outcomeEvents) + 1, evidence |-> o] \in OutcomeEvent
    BY <1>2, <2>1 DEF OutcomeEvent
  <2>3. outcomeEvents' =
          Append(outcomeEvents, [sequence |-> Len(outcomeEvents) + 1, evidence |-> o])
    BY DEF ProcessOutcome
  <2>4. MaxOutcomes \in Nat
    BY ReliabilityAssumption DEF ReliabilityAssumption, ReliabilityConfiguration
  <2>5. QED
    BY <2>1, <2>2, <2>3, <2>4
<1>10. TInv'
  <2>1. outcomes' \subseteq Outcomes
    BY DEF ProcessOutcome, TInv, ReliabilityTypeOK
  <2>2. reliabilityLosses' \in 0..MaxLosses /\ reliabilityBackup' = None
    BY DEF ProcessOutcome, TInv, ReliabilityTypeOK
  <2>3. QED
    BY <1>8, <1>9, <2>1, <2>2 DEF TInv, ReliabilityTypeOK
<1>11. IInv'
  BY <1>6, <1>7 DEF ProcessOutcome, IInv
<1>12. QED
  BY <1>10, <1>11

\* The invariants hold in every reachable state.
LEMMA Invariants == ReliabilitySpec => [](TInv /\ IInv)
<1>1. TInv /\ IInv /\ [ReliabilityNext]_reliabilityVars => (TInv /\ IInv)'
  <2> SUFFICES ASSUME TInv, IInv, [ReliabilityNext]_reliabilityVars
               PROVE  TInv' /\ IInv'
    OBVIOUS
  <2>1. CASE ReliabilityNext
    BY <2>1, OutsideInv, InitializeInv, ProcessInv DEF ReliabilityNext
  <2>2. CASE UNCHANGED reliabilityVars
    <3>1. TInv'
      BY <2>2 DEF reliabilityVars, reliabilityEngine, TInv, ReliabilityTypeOK
    <3>2. IInv'
      BY <2>2 DEF reliabilityVars, reliabilityEngine, IInv
    <3>3. QED
      BY <3>1, <3>2
  <2>3. QED
    BY <2>1, <2>2
<1>2. QED
  BY InitInv, <1>1, PTL DEF ReliabilitySpec

-----------------------------------------------------------------------------
(* The theorems.                                                           *)

\* The index, its versions, the events and the outcomes have their types, the
\* events stay within their bound, with any thresholds and any outcomes.
THEOREM ReliabilityTypeCorrect == ReliabilitySpec => []ReliabilityTypeOK
BY Invariants, PTL DEF TInv

\* "Deterioration applies immediately; improvement requires configured
\* confirmation and recovers at most one stage per confirmation cycle": whatever
\* the number of confirmations, across stops, losses and restores.
THEOREM ImprovementIsConfirmed == ReliabilitySpec => []ImprovementConfirmed
<1>1. TInv /\ IInv => ImprovementConfirmed
  <2> SUFFICES ASSUME TInv, IInv, NEW i \in 2..Len(indexVersions)
               PROVE  LET now  == indexVersions[i]
                          last == indexVersions[i - 1]
                      IN /\ now.stage >= RawStage(now.value, now.best)
                         /\ now.stage < last.stage =>
                              /\ now.stage = last.stage - 1
                              /\ i > Confirmations
                              /\ \A j \in (i - Confirmations + 1)..i :
                                   /\ RawStage(indexVersions[j].value, indexVersions[j].best)
                                        < last.stage
                                   /\ indexVersions[j - 1].stage = last.stage
    BY DEF ImprovementConfirmed
  <2>1. Len(indexVersions) \in Nat
    BY DEF TInv, ReliabilityTypeOK
  <2>2. Sound(indexVersions, i) /\ Confirmed(indexVersions, i)
    BY <2>1 DEF IInv, Coherent
  <2>3. QED
    BY <2>2 DEF Sound, Confirmed
<1>2. QED
  BY Invariants, <1>1, PTL

(***************************************************************************)
(* SystemSafety.                                                           *)
(***************************************************************************)

\* The state kept outside the engine.
SafetyBackup == [current : Status \cup {None}, versions : Seq(Status),
                 events : Seq(SignalEvent), evidence : SUBSET Signals,
                 incidents : [Signals -> IncidentState \cup {None}]]

\* A latched status is severe or on its way out.
LatchHolds(st) ==
  st.circuit \/ st.emergency => st.state \in Severe \cup {"RECOVERY_PENDING", "PROBATION"}

\* The progress of a probation counts healthy confirmations only.
Sane(st, confirmations) ==
  st # None => /\ st.progress <= confirmations
               /\ LatchHolds(st)

\* The inductive invariant.
SInv ==
  /\ SafetyTypeOK
  /\ Sane(status, clean)
  /\ safetyBackup # None =>
       /\ status = None
       /\ safetyBackup \in SafetyBackup
       /\ Len(safetyBackup.events) <= MaxSignals
       /\ safetyTaken.clean \in Nat
       /\ Sane(safetyBackup.current, safetyTaken.clean)

-----------------------------------------------------------------------------
(* Lemmas.                                                                 *)

LEMMA InitSInv == SafetyInit => SInv
<1> SUFFICES ASSUME SafetyInit PROVE SInv
  OBVIOUS
<1>1. MaxLosses \in Nat /\ MaxSignals \in Nat
  BY EvidenceAssumption, SafetyAssumption DEF EvidenceAssumption, SafetyAssumption, SystemSafetyConfiguration
<1>2. NoIncidents \in [Signals -> IncidentState \cup {None}]
  BY DEF NoIncidents
<1>3. SafetyTypeOK
  BY <1>1, <1>2 DEF SafetyInit, SafetyTypeOK
<1>4. QED
  BY <1>3 DEF SafetyInit, SInv, Sane

\* _raw returns a state that a signal alone can lead to.
LEMMA EscalatedState ==
  ASSUME NEW signal \in Signals
  PROVE  Escalated(signal) \in {"NORMAL", "CAUTION", "RESTRICTED"} \cup Severe
<1>1. signal.severity \in Severity
  BY SafetyAssumption DEF SafetyAssumption, SystemSafetyConfiguration, Signal
<1>2. QED
  BY <1>1 DEF Escalated, Severity, Severe

\* The worse of two states by _rank: a state that is severe or recovering gives
\* way to a severe one only.
LEMMA WorseState ==
  ASSUME NEW state \in SafetyState,
         NEW raw \in {"NORMAL", "CAUTION", "RESTRICTED"} \cup Severe,
         state \in Severe \cup {"RECOVERY_PENDING", "PROBATION"},
         Rank[raw] > Rank[state]
  PROVE  raw \in Severe
<1>1. raw \in SafetyState
  BY DEF SafetyState
<1>2. Rank[state] \in {3, 4, 5}
  BY DEF Rank, SafetyState, Severe
<1>3. raw \notin Severe => Rank[raw] \in {0, 1, 2}
  BY <1>1 DEF Rank, SafetyState, Severe
<1>4. QED
  BY <1>2, <1>3

\* What the incident of a status is: an incident state, or None.
LEMMA IncidentType ==
  ASSUME SafetyTypeOK, status # None
  PROVE  IncidentOf(status) \in IncidentState \cup {None}
<1>1. status.incident \in Signals \cup {None}
  BY DEF SafetyTypeOK, Status
<1>2. incidents \in [Signals -> IncidentState \cup {None}]
  BY DEF SafetyTypeOK
<1>3. QED
  BY <1>1, <1>2 DEF IncidentOf

\* A recovery call that makes a sane version of the status.
LEMMA AmendInv ==
  ASSUME SInv, safetyBackup = None, status # None,
         NEW st \in Status, NEW incident \in IncidentState \cup {None},
         Amend(st, incident), clean' \in Nat, Sane(st, clean')
  PROVE  SInv'
<1>1. status' = st /\ statusVersions' = Append(statusVersions, st)
      /\ signalEvents' = signalEvents /\ signals' = signals
      /\ safetyBackup' = None /\ safetyLosses' = safetyLosses
  BY DEF Amend, safetyOutside
<1>2. statusVersions' \in Seq(Status)
  BY <1>1 DEF SInv, SafetyTypeOK
<1>3. incidents' \in [Signals -> IncidentState \cup {None}]
  <2>1. incidents \in [Signals -> IncidentState \cup {None}]
    BY DEF SInv, SafetyTypeOK
  <2>2. CASE IncidentOf(status) = None
    BY <2>1, <2>2 DEF Amend
  <2>3. CASE IncidentOf(status) # None
    BY <2>1, <2>3 DEF Amend
  <2>4. QED
    BY <2>2, <2>3
<1>4. SafetyTypeOK'
  BY <1>1, <1>2, <1>3 DEF SInv, SafetyTypeOK
<1>5. QED
  BY <1>1, <1>4 DEF SInv

LEMMA InitializeSInv ==
  ASSUME SInv, safetyBackup = None, NEW asOf \in Time, InitializeStatus(asOf)
  PROVE  SInv'
<1>1. FreshStatus(asOf) \in Status
  BY DEF FreshStatus, Status, SafetyState, Percent
<1>2. Sane(FreshStatus(asOf), clean)
  BY DEF FreshStatus, Sane, LatchHolds, SInv, SafetyTypeOK
<1>3. /\ status' = FreshStatus(asOf) /\ statusVersions' = <<FreshStatus(asOf)>>
      /\ signalEvents' = signalEvents /\ signals' = signals /\ incidents' = incidents
      /\ clean' = clean /\ safetyBackup' = None /\ safetyLosses' = safetyLosses
  BY DEF InitializeStatus, safetyOutside
<1>4. statusVersions' \in Seq(Status)
  BY <1>1, <1>3
<1>5. SafetyTypeOK'
  BY <1>1, <1>3, <1>4 DEF SInv, SafetyTypeOK
<1>6. QED
  BY <1>2, <1>3, <1>5 DEF SInv

LEMMA ProcessSInv ==
  ASSUME SInv, safetyBackup = None, NEW asOf \in Time, NEW signal \in Signals,
         NEW upstream \in SafetyUpstreams, ProcessSignal(signal, upstream, asOf)
  PROVE  /\ SInv' /\ status' \in Status
         /\ status.circuit => status'.circuit
         /\ status.emergency => status'.emergency
<1> DEFINE raw      == Escalated(signal)
           state    == IF Rank[raw] > Rank[status.state] THEN raw ELSE status.state
           root     == IF raw \in Severe /\ IncidentOf(status) = None THEN signal
                       ELSE status.incident
           incident == IF raw \in Severe THEN "LATCHED" ELSE IncidentOf(status)
<1>1. status \in Status /\ status # None
  BY DEF ProcessSignal, SInv, SafetyTypeOK
<1>2. /\ status.state \in SafetyState /\ status.incident \in Signals \cup {None}
      /\ status.incidentState \in IncidentState \cup {None} /\ status.count \in Nat
      /\ status.circuit \in BOOLEAN /\ status.emergency \in BOOLEAN
  BY <1>1 DEF Status
<1>3. raw \in {"NORMAL", "CAUTION", "RESTRICTED"} \cup Severe /\ raw \in SafetyState
  BY EscalatedState DEF SafetyState
<1>4. state \in SafetyState
  BY <1>2, <1>3
<1>5. IncidentOf(status) \in IncidentState \cup {None}
  BY <1>1, IncidentType DEF SInv
<1>6. incident \in IncidentState \cup {None}
  BY <1>5 DEF IncidentState
<1>7. root \in Signals \cup {None}
  BY <1>2
<1>8. incident # None => root \in Signals
  <2>1. CASE raw \in Severe /\ IncidentOf(status) = None
    BY <2>1
  <2>2. CASE IncidentOf(status) # None
    BY <1>2, <2>2 DEF IncidentOf
  <2>3. CASE raw \notin Severe /\ IncidentOf(status) = None
    BY <2>3
  <2>4. QED
    BY <2>1, <2>2, <2>3
<1>9. /\ status' = [raw |-> raw, state |-> state, upstream |-> upstream,
                    circuit |-> status.circuit \/ state \in Severe,
                    emergency |-> status.emergency \/ state = "EMERGENCY_STOP",
                    incident |-> root,
                    incidentState |-> IF incident # None THEN incident
                                      ELSE status.incidentState,
                    progress |-> 0, count |-> status.count + 1, updated |-> asOf]
      /\ incidents' = IF incident = None THEN incidents
                      ELSE [incidents EXCEPT ![root] = incident]
  BY DEF ProcessSignal, Alert
<1>10. upstream \in Percent
  BY SafetyAssumption DEF SafetyAssumption, SystemSafetyConfiguration
<1>11. LatchHolds(status')
  <2>1. CASE status.circuit \/ status.emergency
    <3>1. status.state \in Severe \cup {"RECOVERY_PENDING", "PROBATION"}
      BY <1>1, <2>1 DEF SInv, Sane, LatchHolds
    <3>2. state \in Severe \cup {"RECOVERY_PENDING", "PROBATION"}
      BY <1>2, <1>3, <3>1, WorseState
    <3>3. status'.state = state
      BY <1>9
    <3>4. QED
      BY <3>2, <3>3 DEF LatchHolds
  <2>2. CASE ~(status.circuit \/ status.emergency)
    <3>1. /\ status'.circuit <=> state \in Severe
          /\ status'.emergency <=> state = "EMERGENCY_STOP"
          /\ status'.state = state
      BY <1>9, <2>2
    <3>2. QED
      BY <3>1 DEF LatchHolds, Severe
  <2>3. QED
    BY <2>1, <2>2
<1>12. /\ status.circuit => status'.circuit
       /\ status.emergency => status'.emergency
  BY <1>9
<1>13. status'.progress = 0
  BY <1>9
<1>14. status' \in Status
  <2>1. (status.circuit \/ state \in Severe) \in BOOLEAN
        /\ (status.emergency \/ state = "EMERGENCY_STOP") \in BOOLEAN
    OBVIOUS
  <2>2. (IF incident # None THEN incident ELSE status.incidentState)
          \in IncidentState \cup {None}
    BY <1>2, <1>6
  <2>3. status.count + 1 \in Nat
    BY <1>2
  <2> HIDE DEF raw, state, root, incident
  <2>4. QED
    BY <1>3, <1>4, <1>7, <1>9, <1>10, <2>1, <2>2, <2>3 DEF Status
<1>15. incidents' \in [Signals -> IncidentState \cup {None}]
  <2>1. incidents \in [Signals -> IncidentState \cup {None}]
    BY DEF SInv, SafetyTypeOK
  <2> HIDE DEF raw, state, root, incident
  <2>2. CASE incident = None
    BY <1>9, <2>1, <2>2
  <2>3. CASE incident # None
    BY <1>6, <1>8, <1>9, <2>1, <2>3
  <2>4. QED
    BY <2>2, <2>3
<1> HIDE DEF raw, state, root, incident
<1>16. signalEvents' \in Seq(SignalEvent) /\ Len(signalEvents') <= MaxSignals
  <2>1. signalEvents \in Seq(SignalEvent) /\ Len(signalEvents) < MaxSignals
    BY DEF ProcessSignal, SInv, SafetyTypeOK
  <2>2. [sequence |-> Len(signalEvents) + 1, evidence |-> signal] \in SignalEvent
    BY <2>1, SafetyAssumption DEF SafetyAssumption, SystemSafetyConfiguration, SignalEvent
  <2>3. signalEvents' =
          Append(signalEvents, [sequence |-> Len(signalEvents) + 1, evidence |-> signal])
    BY DEF ProcessSignal
  <2>4. MaxSignals \in Nat
    BY SafetyAssumption DEF SafetyAssumption, SystemSafetyConfiguration
  <2>5. QED
    BY <2>1, <2>2, <2>3, <2>4
<1>17. statusVersions' \in Seq(Status)
  BY <1>14 DEF ProcessSignal, SInv, SafetyTypeOK
<1>18. /\ clean' = 0 /\ signals' \subseteq Signals
       /\ safetyBackup' = None /\ safetyLosses' \in 0..MaxLosses
  BY DEF ProcessSignal, safetyOutside, SInv, SafetyTypeOK
<1>19. SafetyTypeOK'
  BY <1>14, <1>15, <1>16, <1>17, <1>18 DEF SafetyTypeOK
<1>20. SInv'
  BY <1>11, <1>13, <1>18, <1>19 DEF SInv, Sane
<1>21. QED
  BY <1>12, <1>14, <1>20

\* The recovery calls; only the last one of a probation releases the latch.
LEMMA RequestSInv ==
  ASSUME SInv, safetyBackup = None, NEW asOf \in Time, RequestRecovery(asOf)
  PROVE  /\ SInv'
         /\ status.circuit => status'.circuit
         /\ status.emergency => status'.emergency
<1> DEFINE st == [status EXCEPT !.state = "RECOVERY_PENDING", !.progress = 0,
                                !.updated = asOf, !.incidentState = "RECOVERY_PENDING"]
<1>1. status \in Status /\ status # None
  BY DEF RequestRecovery, SInv, SafetyTypeOK
<1>2. Amend(st, "RECOVERY_PENDING") /\ clean' = 0
  BY DEF RequestRecovery
<1>3. st \in Status
  BY <1>1 DEF Status, SafetyState, IncidentState
<1>4. /\ st.progress = 0 /\ st.state = "RECOVERY_PENDING"
      /\ st.circuit = status.circuit /\ st.emergency = status.emergency
  BY <1>1 DEF Status
<1> HIDE DEF st
<1>5. Sane(st, clean')
  BY <1>2, <1>4 DEF Sane, LatchHolds
<1>6. SInv'
  BY <1>1, <1>2, <1>3, <1>5, AmendInv DEF IncidentState
<1>7. status' = st
  BY <1>2 DEF Amend
<1>8. QED
  BY <1>4, <1>6, <1>7

LEMMA FailSInv ==
  ASSUME SInv, safetyBackup = None, NEW asOf \in Time, FailProbation(asOf)
  PROVE  /\ SInv'
         /\ status.circuit => status'.circuit
         /\ status.emergency => status'.emergency
<1> DEFINE st == [status EXCEPT !.state = "EMERGENCY_STOP", !.emergency = TRUE,
                                !.progress = 0, !.updated = asOf]
<1>1. status \in Status /\ status # None
  BY DEF FailProbation, Recovering, SInv, SafetyTypeOK
<1>2. Amend(st, IncidentOf(status)) /\ clean' = 0
  BY DEF FailProbation
<1>3. st \in Status
  BY <1>1 DEF Status, SafetyState, Severe
<1>4. /\ st.progress = 0 /\ st.state = "EMERGENCY_STOP"
      /\ st.circuit = status.circuit /\ st.emergency = TRUE
  BY <1>1 DEF Status
<1> HIDE DEF st
<1>5. Sane(st, clean')
  BY <1>2, <1>4 DEF Sane, LatchHolds, Severe
<1>6. IncidentOf(status) \in IncidentState \cup {None}
  BY <1>1, IncidentType DEF SInv
<1>7. SInv'
  BY <1>1, <1>2, <1>3, <1>5, <1>6, AmendInv
<1>8. status' = st
  BY <1>2 DEF Amend
<1>9. QED
  BY <1>4, <1>7, <1>8

LEMMA ContinueSInv ==
  ASSUME SInv, safetyBackup = None, NEW asOf \in Time, ContinueProbation(asOf)
  PROVE  /\ SInv'
         /\ status.circuit => status'.circuit
         /\ status.emergency => status'.emergency
<1> DEFINE st == [status EXCEPT !.state = "PROBATION", !.progress = @ + 1,
                                !.updated = asOf]
<1>1. status \in Status /\ status # None /\ clean \in Nat /\ status.progress <= clean
  BY DEF ContinueProbation, Recovering, SInv, SafetyTypeOK, Sane
<1>2. Amend(st, IncidentOf(status)) /\ clean' = clean + 1
  BY DEF ContinueProbation
<1>3. st \in Status
  <2> DEFINE p == status.progress + 1
  <2>1. p \in Nat
    BY <1>1 DEF Status
  <2>2. st = [status EXCEPT !.state = "PROBATION", !.progress = p, !.updated = asOf]
    OBVIOUS
  <2> HIDE DEF p
  <2>3. QED
    BY <1>1, <2>1, <2>2 DEF Status, SafetyState
<1>4. /\ st.progress = status.progress + 1 /\ st.state = "PROBATION"
      /\ st.circuit = status.circuit /\ st.emergency = status.emergency
      /\ status.progress \in Nat
  BY <1>1 DEF Status
<1> HIDE DEF st
<1>5. Sane(st, clean')
  BY <1>1, <1>2, <1>4 DEF Sane, LatchHolds
<1>6. IncidentOf(status) \in IncidentState \cup {None}
  BY <1>1, IncidentType DEF SInv
<1>7. SInv'
  BY <1>1, <1>2, <1>3, <1>5, <1>6, AmendInv
<1>8. status' = st
  BY <1>2 DEF Amend
<1>9. QED
  BY <1>4, <1>7, <1>8

LEMMA CompleteSInv ==
  ASSUME SInv, safetyBackup = None, NEW asOf \in Time, CompleteRecovery(asOf)
  PROVE  SInv' /\ clean' >= Probations
<1> DEFINE st == [status EXCEPT !.raw = "NORMAL", !.state = "NORMAL", !.circuit = FALSE,
                                !.emergency = FALSE, !.progress = 0, !.updated = asOf,
                                !.incidentState = "RESOLVED"]
<1>1. status \in Status /\ status # None /\ clean \in Nat /\ status.progress <= clean
  BY DEF CompleteRecovery, Recovering, SInv, SafetyTypeOK, Sane
<1>2. Amend(st, "RESOLVED") /\ clean' = clean + 1
  BY DEF CompleteRecovery
<1>3. st \in Status
  <2> DEFINE s1 == [status EXCEPT !.raw = "NORMAL", !.state = "NORMAL", !.circuit = FALSE,
                                  !.emergency = FALSE]
  <2>1. s1 \in Status
    BY <1>1 DEF Status, SafetyState
  <2>2. st = [s1 EXCEPT !.progress = 0, !.updated = asOf, !.incidentState = "RESOLVED"]
    OBVIOUS
  <2> HIDE DEF s1
  <2>3. QED
    BY <2>1, <2>2 DEF Status, IncidentState
<1>4. /\ st.progress = 0 /\ st.circuit = FALSE /\ st.emergency = FALSE
      /\ status.progress \in Nat
  BY <1>1 DEF Status
<1> HIDE DEF st
<1>5. Sane(st, clean')
  BY <1>1, <1>2, <1>4 DEF Sane, LatchHolds
<1>6. SInv'
  BY <1>1, <1>2, <1>3, <1>5, AmendInv DEF IncidentState
<1>7. clean' >= Probations
  <2>1. status.progress + 1 >= Probations
    BY DEF CompleteRecovery
  <2>2. Probations \in Nat
    BY SafetyAssumption DEF SafetyAssumption, SystemSafetyConfiguration
  <2>3. QED
    BY <1>1, <1>2, <1>4, <2>1, <2>2
<1>8. QED
  BY <1>6, <1>7

\* A state that has lost a record is a state, of the same status or of none.
LEMMA DamagedSafety ==
  ASSUME NEW b \in SafetyBackup,
         NEW d, d \in Damaged(b) \/ d = [b EXCEPT !.incidents = NoIncidents]
  PROVE  /\ d \in SafetyBackup
         /\ d.current \in {b.current, None}
         /\ Len(d.events) <= Len(b.events)
<1> DEFINE without(i) == [j \in 1..(Len(b.events) - 1) |->
                            IF j < i THEN b.events[j] ELSE b.events[j + 1]]
<1>1. /\ b.current \in Status \cup {None} /\ b.versions \in Seq(Status)
      /\ b.events \in Seq(SignalEvent) /\ b.evidence \in SUBSET Signals
      /\ b.incidents \in [Signals -> IncidentState \cup {None}]
  BY DEF SafetyBackup
<1>2. CASE \E i \in DOMAIN b.events : d = [b EXCEPT !.events = without(i)]
  <2>1. PICK i \in DOMAIN b.events : d = [b EXCEPT !.events = without(i)]
    BY <1>2
  <2>2. without(i) \in Seq(SignalEvent) /\ Len(without(i)) <= Len(b.events)
    <3> DEFINE n == Len(b.events) - 1
    <3>1. n \in Nat /\ DOMAIN b.events = 1..Len(b.events) /\ Len(b.events) \in Nat
      BY <1>1, <2>1
    <3>2. \A j \in 1..n : (IF j < i THEN b.events[j] ELSE b.events[j + 1]) \in SignalEvent
      BY <1>1, <3>1
    <3>3. QED
      BY <3>1, <3>2, IsASeq
  <2> HIDE DEF without
  <2>3. d = [current |-> b.current, versions |-> b.versions, events |-> without(i),
             evidence |-> b.evidence, incidents |-> b.incidents]
    BY <2>1 DEF SafetyBackup
  <2>4. QED
    BY <1>1, <2>2, <2>3 DEF SafetyBackup
<1>3. CASE \E e \in b.evidence : d = [b EXCEPT !.evidence = @ \ {e}]
  <2>1. PICK e \in b.evidence : d = [b EXCEPT !.evidence = @ \ {e}]
    BY <1>3
  <2>2. d = [current |-> b.current, versions |-> b.versions, events |-> b.events,
             evidence |-> b.evidence \ {e}, incidents |-> b.incidents]
    BY <2>1 DEF SafetyBackup
  <2>3. QED
    BY <1>1, <2>2 DEF SafetyBackup
<1>4. CASE d = [b EXCEPT !.current = None, !.versions = <<>>]
  <2>1. d = [current |-> None, versions |-> <<>>, events |-> b.events,
             evidence |-> b.evidence, incidents |-> b.incidents]
    BY <1>4 DEF SafetyBackup
  <2>2. <<>> \in Seq(Status)
    OBVIOUS
  <2>3. QED
    BY <1>1, <2>1, <2>2 DEF SafetyBackup
<1>5. CASE d = [b EXCEPT !.incidents = NoIncidents]
  <2>1. d = [current |-> b.current, versions |-> b.versions, events |-> b.events,
             evidence |-> b.evidence, incidents |-> NoIncidents]
    BY <1>5 DEF SafetyBackup
  <2>2. NoIncidents \in [Signals -> IncidentState \cup {None}]
    BY DEF NoIncidents
  <2>3. QED
    BY <1>1, <2>1, <2>2 DEF SafetyBackup
<1>6. QED
  BY <1>2, <1>3, <1>4, <1>5 DEF Damaged

\* Taking the state, losing records of it and restoring it: no latch is released
\* where there is a status before and after.
LEMMA OutsideSInv ==
  ASSUME SInv, StopSafety \/ RestoreSafety \/ StartSafetyAfresh \/ DamageSafety
  PROVE  SInv' /\ (status = None \/ status' = None)
<1>1. MaxLosses \in Nat /\ MaxSignals \in Nat
  BY EvidenceAssumption, SafetyAssumption DEF EvidenceAssumption, SafetyAssumption, SystemSafetyConfiguration
<1>2. CASE StopSafety
  <2>1. safetyBackup' \in SafetyBackup /\ Len(safetyBackup'.events) <= MaxSignals
    BY <1>2 DEF StopSafety, SInv, SafetyTypeOK, SafetyBackup
  <2>2. safetyBackup'.current = status /\ safetyTaken'.clean = clean /\ clean \in Nat
    BY <1>2 DEF StopSafety, SInv, SafetyTypeOK
  <2>3. NoIncidents \in [Signals -> IncidentState \cup {None}]
    BY DEF NoIncidents
  <2>4. SafetyTypeOK'
    BY <1>1, <1>2, <2>3 DEF StopSafety, SInv, SafetyTypeOK
  <2>5. status' = None
    BY <1>2 DEF StopSafety
  <2>6. QED
    BY <2>1, <2>2, <2>4, <2>5 DEF SInv, Sane
<1>3. CASE RestoreSafety
  <2>1. /\ safetyBackup # None /\ safetyBackup \in SafetyBackup /\ status = None
        /\ safetyTaken.clean \in Nat /\ Sane(safetyBackup.current, safetyTaken.clean)
        /\ Numbered(safetyBackup)
    BY <1>3 DEF RestoreSafety, SInv
  <2>2. /\ status' = safetyBackup.current /\ statusVersions' = safetyBackup.versions
        /\ signalEvents' = safetyBackup.events /\ signals' = safetyBackup.evidence
        /\ incidents' = safetyBackup.incidents /\ clean' = safetyTaken.clean
        /\ safetyBackup' = None /\ safetyLosses' = safetyLosses
    BY <1>3 DEF RestoreSafety
  <2>3. /\ safetyBackup.current \in Status \cup {None}
        /\ safetyBackup.versions \in Seq(Status)
        /\ safetyBackup.events \in Seq(SignalEvent)
        /\ safetyBackup.evidence \in SUBSET Signals
        /\ safetyBackup.incidents \in [Signals -> IncidentState \cup {None}]
    BY <2>1 DEF SafetyBackup
  <2>4. Len(safetyBackup.events) <= MaxSignals /\ safetyLosses \in 0..MaxLosses
    BY <2>1 DEF SInv, SafetyTypeOK
  <2>5. SafetyTypeOK'
    BY <2>1, <2>2, <2>3, <2>4 DEF SafetyTypeOK
  <2>6. Sane(status', clean')
    BY <2>1, <2>2
  <2>7. QED
    BY <2>1, <2>2, <2>5, <2>6 DEF SInv
<1>4. CASE StartSafetyAfresh
  <2>1. /\ status = None /\ status' = status /\ clean' = clean /\ safetyBackup' = None
    BY <1>4 DEF StartSafetyAfresh, safetyEngine, SInv
  <2>2. SafetyTypeOK'
    BY <1>4 DEF StartSafetyAfresh, safetyEngine, SInv, SafetyTypeOK
  <2>3. QED
    BY <2>1, <2>2 DEF SInv
<1>5. CASE DamageSafety
  <2>1. /\ safetyBackup # None /\ safetyBackup \in SafetyBackup /\ status = None
        /\ Len(safetyBackup.events) <= MaxSignals
        /\ safetyTaken.clean \in Nat /\ Sane(safetyBackup.current, safetyTaken.clean)
    BY <1>5 DEF DamageSafety, SInv
  <2>2. /\ safetyBackup' \in Damaged(safetyBackup)
           \/ safetyBackup' = [safetyBackup EXCEPT !.incidents = NoIncidents]
        /\ status' = status /\ clean' = clean /\ safetyTaken' = safetyTaken
    BY <1>5 DEF DamageSafety, safetyEngine
  <2>3. /\ safetyBackup' \in SafetyBackup
        /\ safetyBackup'.current \in {safetyBackup.current, None}
        /\ Len(safetyBackup'.events) <= Len(safetyBackup.events)
    BY <2>1, <2>2, DamagedSafety
  <2>4. Sane(safetyBackup'.current, safetyTaken.clean)
    BY <2>1, <2>3 DEF Sane
  <2>5. Len(safetyBackup'.events) <= MaxSignals
    <3>1. safetyBackup.events \in Seq(SignalEvent) /\ safetyBackup'.events \in Seq(SignalEvent)
      BY <2>1, <2>3 DEF SafetyBackup
    <3>2. Len(safetyBackup.events) \in Nat /\ Len(safetyBackup'.events) \in Nat
      BY <3>1
    <3>3. QED
      BY <1>1, <2>1, <2>3, <3>2
  <2>6. SafetyTypeOK'
    BY <1>1, <1>5 DEF DamageSafety, safetyEngine, SInv, SafetyTypeOK
  <2>7. Sane(status', clean')
    BY <2>2 DEF SInv
  <2>8. QED
    BY <2>1, <2>2, <2>3, <2>4, <2>5, <2>6, <2>7 DEF SInv
<1>6. QED
  BY <1>2, <1>3, <1>4, <1>5

\* The invariant holds of the next state, and a release had its confirmations.
LEMMA StepSInv ==
  ASSUME SInv, [SafetyNext]_safetyVars
  PROVE  /\ SInv'
         /\ (/\ status # None /\ status' # None
             /\ status.circuit \/ status.emergency
             /\ ~(status'.circuit \/ status'.emergency)) => clean' >= Probations
<1>1. CASE UNCHANGED safetyVars
  <2>1. SInv'
    BY <1>1 DEF safetyVars, safetyEngine, safetyOutside, SInv, SafetyTypeOK
  <2>2. status' = status
    BY <1>1 DEF safetyVars, safetyEngine
  <2>3. QED
    BY <2>1, <2>2
<1>2. CASE StopSafety \/ RestoreSafety \/ StartSafetyAfresh \/ DamageSafety
  BY <1>2, OutsideSInv
<1>3. ASSUME NEW asOf \in Time, safetyBackup = None, InitializeStatus(asOf)
      PROVE  SInv' /\ status = None
  BY <1>3, InitializeSInv DEF InitializeStatus
<1>4. ASSUME NEW asOf \in Time, safetyBackup = None,
             \/ \E signal \in Signals, upstream \in SafetyUpstreams :
                  ProcessSignal(signal, upstream, asOf)
             \/ RequestRecovery(asOf)
             \/ FailProbation(asOf)
             \/ ContinueProbation(asOf)
      PROVE  /\ SInv'
             /\ status.circuit => status'.circuit
             /\ status.emergency => status'.emergency
  <2>1. CASE \E signal \in Signals, upstream \in SafetyUpstreams :
               ProcessSignal(signal, upstream, asOf)
    BY <1>4, <2>1, ProcessSInv
  <2>2. CASE RequestRecovery(asOf)
    BY <1>4, <2>2, RequestSInv
  <2>3. CASE FailProbation(asOf)
    BY <1>4, <2>3, FailSInv
  <2>4. CASE ContinueProbation(asOf)
    BY <1>4, <2>4, ContinueSInv
  <2>5. QED
    BY <1>4, <2>1, <2>2, <2>3, <2>4
<1>5. ASSUME NEW asOf \in Time, safetyBackup = None, CompleteRecovery(asOf)
      PROVE  SInv' /\ clean' >= Probations
  BY <1>5, CompleteSInv
<1>6. CASE safetyBackup = None /\ \E asOf \in Time :
             \/ InitializeStatus(asOf)
             \/ \E signal \in Signals, upstream \in SafetyUpstreams :
                  ProcessSignal(signal, upstream, asOf)
             \/ RequestRecovery(asOf)
             \/ FailProbation(asOf)
             \/ ContinueProbation(asOf)
             \/ CompleteRecovery(asOf)
  BY <1>3, <1>4, <1>5, <1>6
<1>7. QED
  BY <1>1, <1>2, <1>6 DEF SafetyNext

-----------------------------------------------------------------------------
(* The theorems.                                                           *)

\* "Circuit-open and emergency states latch until explicit evidence-backed
\* recovery succeeds": a latched scope is stopped, waiting for its recovery or on
\* probation, whatever signals and calls come, and after restarts.
THEOREM LatchedAlways == SafetySpec => []Latched
<1>1. SInv => Latched
  BY DEF SInv, Sane, LatchHolds, Latched
<1>2. SInv /\ [SafetyNext]_safetyVars => SInv'
  BY StepSInv
<1>3. QED
  BY InitSInv, <1>1, <1>2, PTL DEF SafetySpec

\* A latch is released only after as many healthy confirmations in a row as
\* probation_confirmations says, also if the engine was restarted in between.
THEOREM ReleaseNeedsProbation == SafetySpec => ReleasedAfterProbation
<1>1. SInv /\ [SafetyNext]_safetyVars =>
        ((/\ status # None /\ status' # None
          /\ status.circuit \/ status.emergency
          /\ ~(status'.circuit \/ status'.emergency)) => clean' >= Probations)
  BY StepSInv
<1>2. SInv /\ [SafetyNext]_safetyVars => SInv'
  BY StepSInv
<1>3. QED
  BY InitSInv, <1>1, <1>2, PTL DEF SafetySpec, ReleasedAfterProbation

(***************************************************************************)
(* The engines together.                                                   *)
(***************************************************************************)

\* The engines of phase_vii_snapshot do not interfere: seen from one of them, the
\* system behaves like that engine alone.
THEOREM EnginesAlone == Spec => ReliabilitySpec /\ TemporalSpec /\ SafetySpec
<1>1. Init => ReliabilityInit /\ TemporalInit /\ SafetyInit
  BY DEF Init
<1>2. [Next]_vars => /\ [ReliabilityNext]_reliabilityVars
                     /\ [TemporalNext]_temporalVars
                     /\ [SafetyNext]_safetyVars
  BY DEF Next, vars
<1>3. QED
  BY <1>1, <1>2, PTL DEF Spec, ReliabilitySpec, TemporalSpec, SafetySpec

\* Together, too, reliability improves by confirmations only and a latch is
\* released after its probation only.
THEOREM RestrictionsKept ==
  Spec => []ImprovementConfirmed /\ []Latched /\ ReleasedAfterProbation
BY EnginesAlone, ImprovementIsConfirmed, LatchedAlways, ReleaseNeedsProbation, PTL

-----------------------------------------------------------------------------
(* What an engine keeps of a scope, and what a recovery state has left.    *)

\* A scope and its events: nothing is counted of a scope that is not there.
Counted(current, events) ==
  IF current = None THEN events = <<>> ELSE current.count = Len(events)

\* The current version of a scope is its last one.
IsLast(current, versions) ==
  current # None => Len(versions) > 0 /\ current = versions[Len(versions)]

\* What is left of a recovery state that was taken: its scope or none, and its
\* events or fewer.
LeftOf(b, taken) ==
  /\ Counted(taken.current, taken.events)
  /\ b.current \in {taken.current, None}
  /\ Len(b.events) <= Len(taken.events)
  /\ Len(b.events) = Len(taken.events) => b.events = taken.events

\* A recovery state, whatever else it holds.
Stored(b, E) ==
  /\ b = [f \in DOMAIN b |-> b[f]]
  /\ {"current", "versions", "events", "evidence"} \subseteq DOMAIN b
  /\ b.events \in Seq(E)

\* Losing a record leaves the scope with its versions or takes both, and leaves
\* the events or fewer.
LEMMA DamageTakes ==
  ASSUME NEW E, NEW b, Stored(b, E), NEW d \in Damaged(b)
  PROVE  /\ \/ d.current = b.current /\ d.versions = b.versions
            \/ d.current = None /\ d.versions = <<>>
         /\ Len(d.events) <= Len(b.events)
         /\ Len(d.events) = Len(b.events) => d.events = b.events
         /\ d.events \in Seq(E)
<1> DEFINE without(i) == [j \in 1..(Len(b.events) - 1) |->
                            IF j < i THEN b.events[j] ELSE b.events[j + 1]]
<1>1. CASE \E i \in DOMAIN b.events : d = [b EXCEPT !.events = without(i)]
  <2>1. PICK i \in DOMAIN b.events : d = [b EXCEPT !.events = without(i)]
    BY <1>1
  <2>2. Len(b.events) \in Nat \ {0} /\ b.events \in Seq(E)
    BY DEF Stored
  <2>3. without(i) \in Seq(E)
    BY <2>2, WithoutIsSeq
  <2>4. Len(without(i)) = Len(b.events) - 1
    BY <2>2, <2>3
  <2> HIDE DEF without
  <2>5. d.current = b.current /\ d.versions = b.versions /\ d.events = without(i)
    BY <2>1 DEF Stored
  <2>6. QED
    BY <2>2, <2>3, <2>4, <2>5
<1>2. CASE \E e \in b.evidence : d = [b EXCEPT !.evidence = @ \ {e}]
  <2>1. d.current = b.current /\ d.versions = b.versions /\ d.events = b.events
    BY <1>2 DEF Stored
  <2>2. QED
    BY <2>1 DEF Stored
<1>3. CASE d = [b EXCEPT !.current = None, !.versions = <<>>]
  <2>1. d.current = None /\ d.versions = <<>> /\ d.events = b.events
    BY <1>3 DEF Stored
  <2>2. QED
    BY <2>1 DEF Stored
<1>4. QED
  BY <1>1, <1>2, <1>3 DEF Damaged

\* So does losing one more.
LEMMA DamageLeaves ==
  ASSUME NEW E, NEW b, Stored(b, E), NEW d \in Damaged(b), NEW taken,
         LeftOf(b, taken), taken.events \in Seq(E)
  PROVE  LeftOf(d, taken)
<1>1. /\ d.current \in {b.current, None}
      /\ Len(d.events) <= Len(b.events)
      /\ Len(d.events) = Len(b.events) => d.events = b.events
      /\ d.events \in Seq(E) /\ b.events \in Seq(E)
  BY DamageTakes DEF Stored
<1>2. Len(d.events) \in Nat /\ Len(b.events) \in Nat /\ Len(taken.events) \in Nat
  BY <1>1
<1>3. QED
  BY <1>1, <1>2 DEF LeftOf

\* What restore accepts of it is the scope with all of its events, or nothing.
LEMMA AcceptedLeft ==
  ASSUME NEW E, NEW b, b.events \in Seq(E), NEW taken, LeftOf(b, taken),
         taken.events \in Seq(E), Numbered(b)
  PROVE  /\ \/ b.current = taken.current /\ b.events = taken.events
            \/ b.current = None /\ b.events = <<>>
         /\ Counted(b.current, b.events)
<1>1. CASE b.current = None
  <2>1. DOMAIN b.events = {}
    BY <1>1 DEF Numbered
  <2>2. b.events = <<>>
    <3>1. Len(b.events) \in Nat /\ DOMAIN b.events = 1..Len(b.events)
      OBVIOUS
    <3>2. b.events # <<>> => 1 \in 1..Len(b.events)
      BY EmptySeq
    <3>3. QED
      BY <2>1, <3>1, <3>2
  <2>3. QED
    BY <1>1, <2>2 DEF Counted
<1>2. CASE b.current # None
  <2>1. b.current = taken.current /\ b.current.count = Len(b.events)
    BY <1>2 DEF LeftOf, Numbered
  <2>2. taken.current.count = Len(taken.events)
    BY <1>2, <2>1 DEF LeftOf, Counted
  <2>3. QED
    BY <1>2, <2>1, <2>2 DEF LeftOf, Counted
<1>3. QED
  BY <1>1, <1>2

-----------------------------------------------------------------------------
(* Reliability.                                                            *)

\* The count of the last version is the highest.
Growing(versions) ==
  \A i \in 1..(Len(versions) - 1) : versions[i].count < versions[Len(versions)].count

\* The inductive invariant, over that of Engines_proofs.
IndexKept ==
  /\ Counted(index, outcomeEvents)
  /\ Growing(indexVersions)
  /\ reliabilityBackup # None =>
       /\ index = None
       /\ Growing(reliabilityBackup.versions)
       /\ LeftOf(reliabilityBackup, reliabilityTaken)
       /\ reliabilityTaken.events \in Seq(OutcomeEvent)

LEMMA IndexStored ==
  ASSUME NEW b \in BackupState
  PROVE  Stored(b, OutcomeEvent)
BY DEF BackupState, Stored

LEMMA IndexKeptInit == ReliabilityInit => IndexKept
BY DEF ReliabilityInit, IndexKept, Counted, Growing

LEMMA IndexKeptNext ==
  ASSUME TInv, IInv, IndexKept, [ReliabilityNext]_reliabilityVars
  PROVE  IndexKept'
<1>1. CASE UNCHANGED reliabilityVars
  BY <1>1 DEF reliabilityVars, reliabilityEngine, IndexKept
<1>2. ASSUME NEW asOf \in Time, InitializeIndex(asOf), reliabilityBackup = None
      PROVE  IndexKept'
  <2>1. index' = FreshIndex(asOf) /\ indexVersions' = <<index'>> /\ index' # None
    BY <1>2, FreshCoherent, NoIndexIsNone DEF InitializeIndex
  <2>2. outcomeEvents' = <<>> /\ reliabilityBackup' = None
    BY <1>2 DEF InitializeIndex, IndexKept, Counted
  <2>3. index'.count = 0
    BY <2>1 DEF FreshIndex
  <2>4. Growing(indexVersions')
    BY <2>1 DEF Growing
  <2>5. QED
    BY <2>1, <2>2, <2>3, <2>4 DEF IndexKept, Counted
<1>3. ASSUME NEW asOf \in Time, NEW o \in Outcomes, ProcessOutcome(o, asOf),
             reliabilityBackup = None
      PROVE  IndexKept'
  <2>1. /\ index # None /\ index \in Index /\ index.count \in Nat
        /\ indexVersions \in Seq(Index) /\ Len(indexVersions) > 0
        /\ index = indexVersions[Len(indexVersions)]
        /\ outcomeEvents \in Seq(OutcomeEvent)
    BY <1>3 DEF ProcessOutcome, TInv, ReliabilityTypeOK, IInv, Coherent, Index
  <2>2. index' \in Index /\ index' # None
    <3>1. TInv'
      BY <1>3, ProcessInv
    <3>2. o.observed \in Time /\ index.progress < Confirmations
      BY <2>1, ReliabilityAssumption DEF ReliabilityAssumption, Outcome, IInv, Coherent, Sound
    <3>3. index' \in Index
      BY <1>3, <2>1, <3>2, MovedIsIndex DEF ProcessOutcome
    <3>4. QED
      BY <3>3, NoIndexIsNone
  <2>3. index'.count = index.count + 1
    BY <1>3 DEF ProcessOutcome, Moved
  <2>4. /\ indexVersions' = Append(indexVersions, index')
        /\ Len(outcomeEvents') = Len(outcomeEvents) + 1
        /\ reliabilityBackup' = None
    BY <1>3, <2>1 DEF ProcessOutcome
  <2>5. Growing(indexVersions')
    <3> SUFFICES ASSUME NEW i \in 1..(Len(indexVersions') - 1)
                 PROVE  indexVersions'[i].count < indexVersions'[Len(indexVersions')].count
      BY DEF Growing
    <3>1. Len(indexVersions') = Len(indexVersions) + 1 /\ i \in 1..Len(indexVersions)
      BY <2>1, <2>4
    <3>2. indexVersions'[i] = indexVersions[i] /\ indexVersions'[Len(indexVersions')] = index'
      BY <2>1, <2>4, <3>1
    <3>3. indexVersions[i].count <= index.count
      <4>1. CASE i = Len(indexVersions)
        BY <2>1, <4>1
      <4>2. CASE i # Len(indexVersions)
        <5>1. i \in 1..(Len(indexVersions) - 1)
          BY <2>1, <3>1, <4>2
        <5>2. indexVersions[i].count < indexVersions[Len(indexVersions)].count
          BY <5>1 DEF IndexKept, Growing
        <5>3. indexVersions[i] \in Index
          BY <2>1, <3>1
        <5>4. indexVersions[i].count \in Nat
          BY <5>3 DEF Index
        <5>5. QED
          BY <2>1, <5>2, <5>4
      <4>3. QED
        BY <4>1, <4>2
    <3>4. indexVersions[i] \in Index
      BY <2>1, <3>1
    <3>5. indexVersions[i].count \in Nat
      BY <3>4 DEF Index
    <3>6. QED
      BY <2>1, <2>3, <3>2, <3>3, <3>5
  <2>6. index.count = Len(outcomeEvents)
    BY <2>1 DEF IndexKept, Counted
  <2>7. QED
    BY <2>2, <2>3, <2>4, <2>5, <2>6 DEF IndexKept, Counted
<1>4. CASE StopReliability
  <2>1. outcomeEvents \in Seq(OutcomeEvent)
    BY DEF TInv, ReliabilityTypeOK
  <2>2. /\ reliabilityBackup'.current = index /\ reliabilityBackup'.versions = indexVersions
        /\ reliabilityBackup'.events = outcomeEvents
        /\ reliabilityTaken' = reliabilityBackup'
        /\ index' = None /\ indexVersions' = <<>> /\ outcomeEvents' = <<>>
    BY <1>4 DEF StopReliability
  <2>3. LeftOf(reliabilityBackup', reliabilityTaken')
    BY <2>1, <2>2 DEF LeftOf, IndexKept
  <2>4. QED
    BY <2>1, <2>2, <2>3 DEF IndexKept, Counted, Growing
<1>5. CASE RestoreReliability
  <2>1. /\ reliabilityBackup \in BackupState /\ Numbered(reliabilityBackup)
        /\ LeftOf(reliabilityBackup, reliabilityTaken)
        /\ Growing(reliabilityBackup.versions)
        /\ reliabilityTaken.events \in Seq(OutcomeEvent)
    BY <1>5 DEF RestoreReliability, AcceptableReliability, TInv, IndexKept
  <2>2. reliabilityBackup.events \in Seq(OutcomeEvent)
    BY <2>1 DEF BackupState
  <2>3. Counted(reliabilityBackup.current, reliabilityBackup.events)
    BY <2>1, <2>2, AcceptedLeft
  <2>4. QED
    BY <1>5, <2>1, <2>3 DEF RestoreReliability, IndexKept
<1>6. CASE StartReliabilityAfresh
  BY <1>6 DEF StartReliabilityAfresh, reliabilityEngine, IndexKept
<1>7. CASE DamageReliability
  <2>1. /\ reliabilityBackup \in BackupState
        /\ reliabilityBackup' \in Damaged(reliabilityBackup)
        /\ LeftOf(reliabilityBackup, reliabilityTaken)
        /\ Growing(reliabilityBackup.versions)
        /\ reliabilityTaken.events \in Seq(OutcomeEvent)
        /\ reliabilityTaken' = reliabilityTaken
        /\ index = None /\ UNCHANGED <<index, indexVersions, outcomeEvents>>
    BY <1>7 DEF DamageReliability, reliabilityEngine, TInv, IndexKept
  <2>2. LeftOf(reliabilityBackup', reliabilityTaken')
    BY <2>1, IndexStored, DamageLeaves
  <2>3. reliabilityBackup'.versions \in {reliabilityBackup.versions, <<>>}
    BY <2>1, IndexStored, DamageTakes
  <2>4. Growing(reliabilityBackup'.versions)
    BY <2>1, <2>3 DEF Growing
  <2>5. QED
    BY <2>1, <2>2, <2>4 DEF IndexKept
<1>8. QED
  BY <1>1, <1>2, <1>3, <1>4, <1>5, <1>6, <1>7 DEF ReliabilityNext

LEMMA IndexAlwaysKept == ReliabilitySpec => [](TInv /\ IInv /\ IndexKept)
BY Invariants, IndexKeptInit, IndexKeptNext, PTL DEF ReliabilitySpec

-----------------------------------------------------------------------------
(* Temporal quality.                                                       *)

\* The recovery state of the engine.
TemporalState == [current : Protection \cup {None}, versions : Seq(Protection),
                  events : Seq(ResultEvent), evidence : SUBSET Results]

\* Every version with a breach is followed by a cooldown that lasts its time: until
\* is that late, and so is the release.  While the cooldown lasts the current
\* version has the highest count.
Served(current, versions, released) ==
  current # None =>
    /\ \A i \in 1..(Len(versions) - 1) :
         IF current.cooldown = "ACTIVE" THEN versions[i].count < current.count
         ELSE versions[i].count <= current.count
    /\ current.cooldown = "ACTIVE" => current.stage >= COOLDOWN
    /\ current.cooldown = "RELEASED" => released \in Nat
    /\ \A i \in 1..Len(versions) :
         versions[i].raw >= COOLDOWN =>
           /\ current.cooldown # "INACTIVE"
           /\ versions[i].observed + CooldownTime <= current.until
           /\ current.cooldown = "RELEASED" =>
                versions[i].observed + CooldownTime <= released

\* The inductive invariant.
ProtectionKept ==
  /\ TemporalTypeOK
  /\ Counted(protection, resultEvents)
  /\ IsLast(protection, protectionVersions)
  /\ Served(protection, protectionVersions, releasedAt)
  /\ temporalBackup # None =>
       /\ protection = None
       /\ temporalBackup \in TemporalState
       /\ Len(temporalBackup.events) <= MaxResults
       /\ LeftOf(temporalBackup, temporalTaken.state)
       /\ temporalTaken.state.events \in Seq(ResultEvent)
       /\ IsLast(temporalBackup.current, temporalBackup.versions)
       /\ Served(temporalBackup.current, temporalBackup.versions, temporalTaken.released)
       /\ temporalTaken.released \in Nat \cup {None}

LEMMA TemporalStored ==
  ASSUME NEW b \in TemporalState
  PROVE  Stored(b, ResultEvent)
BY DEF TemporalState, Stored

\* The constants the proofs use.
LEMMA TemporalConstants ==
  /\ CooldownTime \in Nat \ {0} /\ MaxResults \in Nat \ {0} /\ Patience \in Nat \ {0}
  /\ MaxLosses \in Nat /\ MaxTime \in Nat
  /\ Results \subseteq Result /\ Upstreams \subseteq Percent
  /\ TemporalMultiplier[COOLDOWN] = 0 /\ TemporalMultiplier[SUSPENDED] = 0
  /\ DayOf \in [Time -> Nat] /\ WeekOf \in [Time -> Nat]
BY TemporalAssumption, EvidenceAssumption
   DEF TemporalAssumption, TemporalQualityConfiguration, EvidenceAssumption

\* The worst of a set of stages that is not empty is one of them.
LEMMA WorstStage ==
  ASSUME NEW S \in SUBSET Stage, S # {}
  PROVE  Worst(S) \in S
<1>1. \A r \in S : r \in {0, 1, 2, 3, 4}
  BY DEF Stage, NORMAL, SUSPENDED
<1>2. \E s \in S : \A r \in S : r <= s
  <2>1. CASE 4 \in S
    BY <1>1, <2>1
  <2>2. CASE 4 \notin S /\ 3 \in S
    BY <1>1, <2>2
  <2>3. CASE 4 \notin S /\ 3 \notin S /\ 2 \in S
    BY <1>1, <2>3
  <2>4. CASE 4 \notin S /\ 3 \notin S /\ 2 \notin S
    BY <1>1, <2>4
  <2>5. QED
    BY <2>1, <2>2, <2>3, <2>4
<1>3. QED
  BY <1>2 DEF Worst

\* _stage returns a stage.
LEMMA BudgetedStage ==
  ASSUME NEW daily, NEW weekly, NEW streak
  PROVE  Budgeted(daily, weekly, streak) \in Stage
<1> DEFINE S == {NORMAL}
        \cup {s \in {WATCH}      : streak >= StreakWatch}
        \cup {s \in {RESTRICTED} : daily >= DailyWatch \/ weekly >= WeeklyWatch}
        \cup {s \in {COOLDOWN}   : streak >= StreakCooldown}
        \cup {s \in {SUSPENDED}  : daily >= DailyBlock \/ weekly >= WeeklyBlock}
<1>1. S \in SUBSET Stage /\ S # {}
  BY DEF Stage, NORMAL, WATCH, RESTRICTED, COOLDOWN, SUSPENDED
<1>2. Budgeted(daily, weekly, streak) = Worst(S)
  BY DEF Budgeted
<1> HIDE DEF S
<1>3. QED
  BY <1>1, <1>2, WorstStage

\* What an outcome makes of a version: one more outcome, a cooldown when the raw
\* stage asks for it, never shorter than before, and no permission during it.
LEMMA ProtectedStep ==
  ASSUME NEW current \in Protection, NEW o \in Results, NEW upstream \in Percent
  PROVE  LET new == Protected(current, o, upstream)
         IN /\ new \in Protection /\ new # None
            /\ new.count = current.count + 1
            /\ new.cooldown = IF new.raw >= COOLDOWN THEN "ACTIVE" ELSE current.cooldown
            /\ new.cooldown = "ACTIVE" => new.stage >= COOLDOWN
            /\ new.until >= current.until
            /\ new.raw >= COOLDOWN => new.until >= new.observed + CooldownTime
<1> DEFINE day       == DayOf[o.observed]
           week      == WeekOf[o.observed]
           daily     == Spent(current.daily, day = current.day, o)
           weekly    == Spent(current.weekly, week = current.week, o)
           streak    == CASE o.kind = "ADVERSE"   -> current.streak + 1
                          [] o.kind = "FAVORABLE" -> 0
                          [] o.kind = "NEUTRAL"   -> current.streak
           raw       == Budgeted(daily, weekly, streak)
           cooldown  == IF raw >= COOLDOWN THEN "ACTIVE" ELSE current.cooldown
           published == PublishTemporal(raw, current)
           stage     == IF cooldown = "ACTIVE" THEN Greatest(published.stage, COOLDOWN)
                        ELSE published.stage
           until     == IF raw >= COOLDOWN
                        THEN Greatest(current.until, o.observed + CooldownTime)
                        ELSE current.until
           new       == Protected(current, o, upstream)
<1>1. /\ o.kind \in {"ADVERSE", "NEUTRAL", "FAVORABLE"} /\ o.units \in Nat
      /\ o.observed \in Time /\ o.observed \in Nat
  BY TemporalConstants DEF Result, Time
<1>2. /\ current.daily \in Nat /\ current.weekly \in Nat /\ current.streak \in Nat
      /\ current.stage \in Stage /\ current.cooldown \in CooldownState
      /\ current.until \in Nat /\ current.progress \in Nat /\ current.count \in Nat
  BY DEF Protection
<1>3. day \in Nat /\ week \in Nat
  BY <1>1, TemporalConstants
<1>4. daily \in Nat /\ weekly \in Nat
  BY <1>1, <1>2 DEF Spent
<1>5. streak \in Nat
  BY <1>1, <1>2
<1>6. raw \in Stage
  BY BudgetedStage
<1>7. cooldown \in CooldownState
  BY <1>2 DEF CooldownState
<1>8. published.stage \in Stage /\ published.progress \in Nat
  <2> HIDE DEF raw
  <2> QED
    BY <1>2, <1>6 DEF PublishTemporal
<1>9. stage \in Stage /\ (cooldown = "ACTIVE" => stage >= COOLDOWN)
  <2> HIDE DEF published, cooldown
  <2> QED
    BY <1>8 DEF Greatest, COOLDOWN, Stage, NORMAL, SUSPENDED
<1>10. /\ until \in Nat /\ until >= current.until
       /\ raw >= COOLDOWN => until >= o.observed + CooldownTime
  <2> HIDE DEF raw
  <2> QED
    BY <1>1, <1>2, TemporalConstants DEF Greatest
<1>11. new = [day |-> day, week |-> week, daily |-> daily, weekly |-> weekly,
              streak |-> streak, raw |-> raw, stage |-> stage, upstream |-> upstream,
              cooldown |-> cooldown, until |-> until, progress |-> published.progress,
              count |-> current.count + 1, observed |-> o.observed]
  BY DEF Protected
<1>12. cooldown = IF raw >= COOLDOWN THEN "ACTIVE" ELSE current.cooldown
  OBVIOUS
<1> HIDE DEF day, week, daily, weekly, streak, raw, cooldown, published, stage, until, new
<1>13. /\ new.raw = raw /\ new.cooldown = cooldown /\ new.stage = stage
       /\ new.until = until /\ new.count = current.count + 1 /\ new.observed = o.observed
  BY <1>11
<1>14. new \in Protection
  BY <1>1, <1>2, <1>3, <1>4, <1>5, <1>6, <1>7, <1>8, <1>9, <1>10, <1>11 DEF Protection
<1>15. new # None
  BY <1>14, NoProtectionIsNone
<1>16. QED
  BY <1>12, <1>9, <1>10, <1>13, <1>14, <1>15 DEF new

\* The fields of a version.
LEMMA ProtectionFields ==
  ASSUME NEW v \in Protection
  PROVE  /\ v.count \in Nat /\ v.raw \in Nat /\ v.until \in Nat /\ v.observed \in Nat
         /\ v.cooldown \in CooldownState /\ v.stage \in Stage /\ v.upstream \in Percent
<1>1. /\ v.count \in Nat /\ v.until \in Nat /\ v.cooldown \in CooldownState
      /\ v.stage \in Stage /\ v.upstream \in Percent /\ v.raw \in Stage /\ v.observed \in Time
  BY DEF Protection
<1>2. QED
  BY <1>1 DEF Stage, Time, NORMAL, SUSPENDED

\* No version of a scope that is served has a higher count than the current one.
LEMMA NoneHigher ==
  ASSUME NEW versions \in Seq(Protection), NEW current \in Protection, NEW released,
         IsLast(current, versions), Served(current, versions, released)
  PROVE  \A i \in 1..Len(versions) : versions[i].count <= current.count
<1>1. current # None /\ current.count \in Nat
  BY NoProtectionIsNone, ProtectionFields
<1>2. SUFFICES ASSUME NEW i \in 1..Len(versions)
               PROVE  versions[i].count <= current.count
  OBVIOUS
<1>3. versions[i].count \in Nat
  BY ProtectionFields
<1>4. CASE i = Len(versions)
  BY <1>1, <1>4 DEF IsLast
<1>5. CASE i # Len(versions)
  <2>1. i \in 1..(Len(versions) - 1)
    BY <1>5
  <2>2. QED
    BY <1>1, <1>3, <2>1 DEF Served
<1>6. QED
  BY <1>4, <1>5

\* A stage of a cooldown or worse gives no permission.
LEMMA BlockedPermission ==
  ASSUME NEW v \in Protection, v.stage >= COOLDOWN
  PROVE  TemporalPermission(v) = 0
<1>1. v.stage \in {COOLDOWN, SUSPENDED}
  BY ProtectionFields DEF Stage, NORMAL, COOLDOWN, SUSPENDED
<1>2. TemporalMultiplier[v.stage] = 0
  BY <1>1, TemporalConstants
<1>3. v.upstream \in Percent
  BY ProtectionFields
<1>4. QED
  BY <1>2, <1>3 DEF TemporalPermission, Least, Percent

\* What one more version makes of a scope that is served: a raw stage that asks for
\* a cooldown finds one, which ends no earlier than the last.
LEMMA ServedStep ==
  ASSUME NEW versions \in Seq(Protection), NEW current \in Protection,
         NEW new \in Protection, NEW released,
         IsLast(current, versions), Served(current, versions, released),
         released \in Nat \cup {None},
         new.count = current.count + 1,
         new.cooldown = IF new.raw >= COOLDOWN THEN "ACTIVE" ELSE current.cooldown,
         new.cooldown = "ACTIVE" => new.stage >= COOLDOWN,
         new.until >= current.until,
         new.raw >= COOLDOWN => new.until >= new.observed + CooldownTime
  PROVE  Served(new, Append(versions, new), released)
<1> DEFINE after == Append(versions, new)
<1>1. current # None /\ new # None
  BY NoProtectionIsNone
<1>2. /\ Len(versions) \in Nat /\ Len(versions) > 0 /\ current = versions[Len(versions)]
      /\ Len(after) = Len(versions) + 1 /\ after[Len(after)] = new
      /\ \A i \in 1..Len(versions) : after[i] = versions[i] /\ versions[i] \in Protection
  <2>1. Len(versions) \in Nat /\ Len(versions) > 0 /\ current = versions[Len(versions)]
    BY <1>1 DEF IsLast
  <2>2. Len(after) = Len(versions) + 1 /\ after[Len(versions) + 1] = new
    OBVIOUS
  <2>3. \A i \in 1..Len(versions) : after[i] = versions[i] /\ versions[i] \in Protection
    OBVIOUS
  <2>4. QED
    BY <2>1, <2>2, <2>3
<1>3. \A v \in Protection :
        /\ v.count \in Nat /\ v.raw \in Nat /\ v.until \in Nat /\ v.observed \in Nat
        /\ v.cooldown \in CooldownState
  BY ProtectionFields
<1> HIDE DEF after
<1>4. \A i \in 1..Len(versions) : versions[i].count <= current.count
  BY <1>1, NoneHigher
<1>5. \A i \in 1..(Len(after) - 1) : after[i].count < new.count
  <2> SUFFICES ASSUME NEW i \in 1..(Len(after) - 1) PROVE after[i].count < new.count
    OBVIOUS
  <2>1. i \in 1..Len(versions)
    BY <1>2
  <2>2. after[i].count \in Nat /\ after[i].count <= current.count /\ current.count \in Nat
    BY <1>2, <1>3, <1>4, <2>1
  <2>3. QED
    BY <2>2
<1>6. new.cooldown = "RELEASED" => released \in Nat /\ new.raw < COOLDOWN
  <2>1. ASSUME new.cooldown = "RELEASED" PROVE released \in Nat /\ new.raw < COOLDOWN
    <3>1. new.raw < COOLDOWN /\ current.cooldown = "RELEASED"
      BY <1>3, <2>1 DEF COOLDOWN
    <3>2. QED
      BY <1>1, <3>1 DEF Served
  <2>2. QED
    BY <2>1
<1>7. ASSUME NEW i \in 1..Len(after), after[i].raw >= COOLDOWN
      PROVE  /\ new.cooldown # "INACTIVE"
             /\ after[i].observed + CooldownTime <= new.until
             /\ new.cooldown = "RELEASED" => after[i].observed + CooldownTime <= released
  <2>1. CASE i = Len(after)
    <3>1. after[i] = new /\ new.cooldown = "ACTIVE"
      BY <1>2, <1>7, <2>1
    <3>2. new.until \in Nat /\ new.observed \in Nat /\ CooldownTime \in Nat
      BY <1>3, TemporalConstants
    <3>3. QED
      BY <1>7, <3>1, <3>2
  <2>2. CASE i # Len(after)
    <3>1. i \in 1..Len(versions) /\ after[i] = versions[i] /\ versions[i].raw >= COOLDOWN
      BY <1>2, <1>7, <2>2
    <3>2. /\ current.cooldown # "INACTIVE"
          /\ versions[i].observed + CooldownTime <= current.until
          /\ current.cooldown = "RELEASED" => versions[i].observed + CooldownTime <= released
      BY <1>1, <3>1 DEF Served
    <3>3. new.until \in Nat /\ current.until \in Nat /\ CooldownTime \in Nat
      BY <1>3, TemporalConstants
    <3>4. versions[i].observed \in Nat
      BY <1>2, <1>3, <3>1
    <3>5. versions[i].observed + CooldownTime <= new.until
      BY <3>2, <3>3, <3>4
    <3>6. QED
      BY <3>1, <3>2, <3>5
  <2>3. QED
    BY <2>1, <2>2
<1>8. QED
  <2>1. /\ new.cooldown = "ACTIVE" => new.stage >= COOLDOWN
        /\ new.cooldown = "RELEASED" => released \in Nat
    BY <1>6
  <2>2. \A i \in 1..(Len(after) - 1) :
          IF new.cooldown = "ACTIVE" THEN after[i].count < new.count
          ELSE after[i].count <= new.count
    <3> SUFFICES ASSUME NEW i \in 1..(Len(after) - 1)
                 PROVE  after[i].count < new.count /\ after[i].count <= new.count
      OBVIOUS
    <3>1. i \in 1..Len(versions) /\ after[i] \in Protection
      BY <1>2
    <3>2. after[i].count \in Nat /\ new.count \in Nat
      BY <1>3, <3>1
    <3>3. QED
      BY <1>5, <3>2
  <2>3. Served(new, after, released)
    BY <1>7, <2>1, <2>2 DEF Served
  <2>4. QED
    BY <2>3 DEF after

\* The first version of a scope.
LEMMA FreshServed ==
  ASSUME NEW asOf \in Time, NEW released
  PROVE  LET fresh == FreshProtection(asOf)
         IN /\ fresh \in Protection /\ fresh # None /\ fresh.count = 0
            /\ IsLast(fresh, <<fresh>>)
            /\ Served(fresh, <<fresh>>, released)
<1> DEFINE fresh == FreshProtection(asOf)
<1>1. DayOf[asOf] \in Nat /\ WeekOf[asOf] \in Nat
  BY TemporalConstants
<1>2. fresh \in Protection
  BY <1>1 DEF FreshProtection, Protection, Stage, NORMAL, SUSPENDED, Percent, CooldownState
<1>3. fresh.count = 0 /\ fresh.cooldown = "INACTIVE" /\ fresh.raw = 0
  BY DEF FreshProtection, NORMAL
<1>4. fresh # None
  BY <1>2, NoProtectionIsNone
<1> HIDE DEF fresh
<1>5. Len(<<fresh>>) = 1 /\ <<fresh>>[1] = fresh
  OBVIOUS
<1>6. IsLast(fresh, <<fresh>>)
  BY <1>5 DEF IsLast
<1>7. Served(fresh, <<fresh>>, released)
  BY <1>3, <1>5 DEF Served, COOLDOWN
<1>8. QED
  BY <1>2, <1>3, <1>4, <1>6, <1>7 DEF fresh

\* A release of a scope that is served: the cooldown is over.
LEMMA ReleaseServed ==
  ASSUME NEW versions \in Seq(Protection), NEW current \in Protection, NEW released,
         NEW asOf \in Time, IsLast(current, versions), Served(current, versions, released),
         current.cooldown = "ACTIVE", asOf >= current.until
  PROVE  LET new == [current EXCEPT !.cooldown = "RELEASED", !.stage = RESTRICTED,
                                    !.progress = 0]
         IN /\ new \in Protection /\ new # None /\ new.count = current.count
            /\ IsLast(new, Append(versions, new))
            /\ Served(new, Append(versions, new), asOf)
<1> DEFINE new   == [current EXCEPT !.cooldown = "RELEASED", !.stage = RESTRICTED,
                                    !.progress = 0]
           after == Append(versions, new)
<1>1. new \in Protection
  <2>1. RESTRICTED \in Stage /\ "RELEASED" \in CooldownState /\ 0 \in Nat
    BY DEF CooldownState, Stage, RESTRICTED, NORMAL, SUSPENDED
  <2>2. QED
    BY <2>1 DEF Protection
<1>2. /\ new.count = current.count /\ new.cooldown = "RELEASED" /\ new.until = current.until
      /\ new.raw = current.raw /\ new.observed = current.observed
  BY DEF Protection
<1>3. current # None /\ new # None
  BY <1>1, NoProtectionIsNone
<1>4. /\ Len(versions) \in Nat /\ Len(versions) > 0 /\ current = versions[Len(versions)]
  BY <1>3 DEF IsLast
<1>5. Len(after) = Len(versions) + 1 /\ after[Len(versions) + 1] = new
  OBVIOUS
<1>6. \A i \in 1..Len(versions) : after[i] = versions[i] /\ versions[i] \in Protection
  OBVIOUS
<1> HIDE DEF new, after
<1>7. \A i \in 1..Len(versions) : versions[i].count <= current.count
  BY NoneHigher
<1>8. ASSUME NEW i \in 1..Len(after), after[i].raw >= COOLDOWN
      PROVE  /\ after[i].observed + CooldownTime <= new.until
             /\ after[i].observed + CooldownTime <= asOf
  <2>1. PICK j \in 1..Len(versions) :
          after[i].raw = versions[j].raw /\ after[i].observed = versions[j].observed
    <3>1. CASE i = Len(versions) + 1
      BY <1>2, <1>4, <1>5, <3>1
    <3>2. CASE i # Len(versions) + 1
      <4>1. i \in 1..Len(versions)
        BY <1>4, <1>5, <3>2
      <4>2. QED
        BY <1>6, <4>1
    <3>3. QED
      BY <3>1, <3>2
  <2>2. versions[j].observed + CooldownTime <= current.until
    BY <1>3, <1>8, <2>1 DEF Served
  <2>3. versions[j].observed \in Nat /\ current.until \in Nat /\ CooldownTime \in Nat
    BY <1>6, ProtectionFields, TemporalConstants
  <2>4. asOf \in Nat
    BY DEF Time
  <2>5. QED
    BY <1>2, <2>1, <2>2, <2>3, <2>4
<1>9. Served(new, after, asOf)
  <2>1. \A i \in 1..(Len(after) - 1) : after[i].count <= new.count
    <3> SUFFICES ASSUME NEW i \in 1..(Len(after) - 1) PROVE after[i].count <= new.count
      OBVIOUS
    <3>1. i \in 1..Len(versions)
      BY <1>4, <1>5
    <3>2. QED
      BY <1>2, <1>6, <1>7, <3>1
  <2>2. asOf \in Nat
    BY DEF Time
  <2>3. QED
    BY <1>2, <1>8, <2>1, <2>2 DEF Served
<1>10. IsLast(new, after)
  BY <1>4, <1>5 DEF IsLast
<1>11. QED
  BY <1>1, <1>2, <1>3, <1>9, <1>10 DEF new, after

LEMMA ProtectionKeptInit == TemporalInit => ProtectionKept
<1> SUFFICES ASSUME TemporalInit PROVE ProtectionKept
  OBVIOUS
<1>1. MaxLosses \in Nat /\ MaxResults \in Nat
  BY TemporalConstants
<1>2. TemporalTypeOK
  BY <1>1 DEF TemporalInit, TemporalTypeOK
<1>3. QED
  BY <1>2 DEF TemporalInit, ProtectionKept, Counted, IsLast, Served

LEMMA InitializeKept ==
  ASSUME ProtectionKept, temporalBackup = None, NEW asOf \in Time, InitializeProtection(asOf)
  PROVE  ProtectionKept'
<1>1. /\ protection' = FreshProtection(asOf) /\ protectionVersions' = <<FreshProtection(asOf)>>
      /\ resultEvents' = resultEvents /\ results' = results /\ releasedAt' = releasedAt
      /\ temporalBackup' = None /\ temporalLosses' = temporalLosses
  BY DEF InitializeProtection, temporalOutside
<1>2. resultEvents = <<>>
  BY DEF InitializeProtection, ProtectionKept, Counted
<1>3. /\ protection' \in Protection /\ protection' # None /\ protection'.count = 0
      /\ IsLast(protection', protectionVersions')
      /\ Served(protection', protectionVersions', releasedAt')
  BY <1>1, FreshServed
<1>4. protectionVersions' \in Seq(Protection)
  BY <1>1, <1>3
<1>5. TemporalTypeOK'
  BY <1>1, <1>3, <1>4 DEF ProtectionKept, TemporalTypeOK
<1>6. Counted(protection', resultEvents')
  BY <1>1, <1>2, <1>3 DEF Counted
<1>7. QED
  BY <1>1, <1>3, <1>5, <1>6 DEF ProtectionKept

LEMMA ResultKept ==
  ASSUME ProtectionKept, temporalBackup = None, NEW asOf \in Time, NEW o \in Results,
         NEW upstream \in Upstreams, ProcessResult(o, upstream, asOf)
  PROVE  ProtectionKept'
<1> DEFINE new == Protected(protection, o, upstream)
<1>1. /\ protection' = new /\ protectionVersions' = Append(protectionVersions, new)
      /\ resultEvents' =
           Append(resultEvents, [sequence |-> Len(resultEvents) + 1, evidence |-> o])
      /\ results' = results \cup {o} /\ releasedAt' = releasedAt
      /\ temporalBackup' = None /\ temporalLosses' = temporalLosses
  BY DEF ProcessResult, temporalOutside
<1>2. /\ protection # None /\ protection \in Protection
      /\ protectionVersions \in Seq(Protection)
      /\ resultEvents \in Seq(ResultEvent) /\ Len(resultEvents) < MaxResults
      /\ releasedAt \in Nat \cup {None} /\ o \in Result /\ upstream \in Percent
      /\ MaxResults \in Nat
  BY TemporalConstants DEF ProcessResult, ProtectionKept, TemporalTypeOK
<1>3. /\ new \in Protection /\ new # None
      /\ new.count = protection.count + 1
      /\ new.cooldown = IF new.raw >= COOLDOWN THEN "ACTIVE" ELSE protection.cooldown
      /\ new.cooldown = "ACTIVE" => new.stage >= COOLDOWN
      /\ new.until >= protection.until
      /\ new.raw >= COOLDOWN => new.until >= new.observed + CooldownTime
  BY <1>2, ProtectedStep
<1> HIDE DEF new
<1>4. Served(new, Append(protectionVersions, new), releasedAt)
  BY <1>2, <1>3, ServedStep DEF ProtectionKept
<1>5. /\ protectionVersions' \in Seq(Protection)
      /\ Len(protectionVersions') = Len(protectionVersions) + 1
      /\ protectionVersions'[Len(protectionVersions) + 1] = new
      /\ Len(protectionVersions) \in Nat
  BY <1>1, <1>2, <1>3
<1>6. IsLast(new, protectionVersions')
  BY <1>5 DEF IsLast
<1>7. [sequence |-> Len(resultEvents) + 1, evidence |-> o] \in ResultEvent
  BY <1>2 DEF ResultEvent
<1>8. /\ resultEvents' \in Seq(ResultEvent) /\ Len(resultEvents') = Len(resultEvents) + 1
      /\ Len(resultEvents') <= MaxResults
  BY <1>1, <1>2, <1>7
<1>9. Counted(new, resultEvents')
  BY <1>2, <1>3, <1>8 DEF Counted, ProtectionKept
<1>10. TemporalTypeOK'
  BY <1>1, <1>3, <1>5, <1>8 DEF ProtectionKept, TemporalTypeOK
<1>11. QED
  BY <1>1, <1>4, <1>6, <1>9, <1>10 DEF ProtectionKept

LEMMA ReleaseKept ==
  ASSUME ProtectionKept, temporalBackup = None, NEW asOf \in Time, Release(asOf)
  PROVE  ProtectionKept'
<1> DEFINE new == [protection EXCEPT !.cooldown = "RELEASED", !.stage = RESTRICTED,
                                     !.progress = 0]
<1>1. /\ protection' = new /\ protectionVersions' = Append(protectionVersions, new)
      /\ resultEvents' = resultEvents /\ results' = results /\ releasedAt' = asOf
      /\ temporalBackup' = None /\ temporalLosses' = temporalLosses
  BY DEF Release, temporalOutside
<1>2. /\ protection # None /\ protection \in Protection
      /\ protectionVersions \in Seq(Protection)
      /\ protection.cooldown = "ACTIVE" /\ asOf >= protection.until
      /\ IsLast(protection, protectionVersions)
      /\ Served(protection, protectionVersions, releasedAt)
  BY DEF Release, ProtectionKept, TemporalTypeOK
<1>3. /\ new \in Protection /\ new # None /\ new.count = protection.count
      /\ IsLast(new, Append(protectionVersions, new))
      /\ Served(new, Append(protectionVersions, new), asOf)
  BY <1>2, ReleaseServed
<1> HIDE DEF new
<1>4. protectionVersions' \in Seq(Protection)
  BY <1>1, <1>2, <1>3
<1>5. Counted(new, resultEvents')
  BY <1>1, <1>2, <1>3 DEF Counted, ProtectionKept
<1>6. asOf \in Nat
  BY DEF Time
<1>7. TemporalTypeOK'
  BY <1>1, <1>3, <1>4, <1>6 DEF ProtectionKept, TemporalTypeOK
<1>8. QED
  BY <1>1, <1>3, <1>5, <1>7 DEF ProtectionKept

\* A state that has lost a record is a state.
LEMMA DamagedProtection ==
  ASSUME NEW b \in TemporalState, NEW d \in Damaged(b)
  PROVE  d \in TemporalState
<1> DEFINE without(i) == [j \in 1..(Len(b.events) - 1) |->
                            IF j < i THEN b.events[j] ELSE b.events[j + 1]]
<1>1. /\ b.current \in Protection \cup {None} /\ b.versions \in Seq(Protection)
      /\ b.events \in Seq(ResultEvent) /\ b.evidence \in SUBSET Results
  BY DEF TemporalState
<1>2. CASE \E i \in DOMAIN b.events : d = [b EXCEPT !.events = without(i)]
  <2>1. PICK i \in DOMAIN b.events : d = [b EXCEPT !.events = without(i)]
    BY <1>2
  <2>2. without(i) \in Seq(ResultEvent)
    BY <1>1, WithoutIsSeq
  <2> HIDE DEF without
  <2>3. QED
    BY <1>1, <2>1, <2>2 DEF TemporalState
<1>3. CASE \E e \in b.evidence : d = [b EXCEPT !.evidence = @ \ {e}]
  BY <1>1, <1>3 DEF TemporalState
<1>4. CASE d = [b EXCEPT !.current = None, !.versions = <<>>]
  <2>1. <<>> \in Seq(Protection)
    OBVIOUS
  <2>2. QED
    BY <1>1, <1>4, <2>1 DEF TemporalState
<1>5. QED
  BY <1>2, <1>3, <1>4 DEF Damaged

LEMMA OutsideKept ==
  ASSUME ProtectionKept,
         StopTemporal \/ RestoreTemporal \/ StartTemporalAfresh \/ DamageTemporal
  PROVE  ProtectionKept'
<1>1. CASE StopTemporal
  <2>1. /\ temporalBackup' = [current |-> protection, versions |-> protectionVersions,
                              events |-> resultEvents, evidence |-> results]
        /\ temporalTaken' = [state |-> temporalBackup', released |-> releasedAt]
        /\ protection' = None /\ protectionVersions' = <<>> /\ resultEvents' = <<>>
        /\ results' = {} /\ releasedAt' = None /\ temporalLosses' = temporalLosses
    BY <1>1 DEF StopTemporal
  <2>2. /\ temporalBackup'.current = protection
        /\ temporalBackup'.versions = protectionVersions
        /\ temporalBackup'.events = resultEvents
        /\ temporalTaken'.state = temporalBackup' /\ temporalTaken'.released = releasedAt
    BY <2>1
  <2>3. temporalBackup' \in TemporalState
    BY <2>1 DEF TemporalState, ProtectionKept, TemporalTypeOK
  <2>4. LeftOf(temporalBackup', temporalTaken'.state)
    BY <2>2 DEF LeftOf, ProtectionKept, TemporalTypeOK
  <2>5. TemporalTypeOK'
    BY <2>1, TemporalConstants DEF ProtectionKept, TemporalTypeOK
  <2>6. /\ Counted(protection', resultEvents') /\ IsLast(protection', protectionVersions')
        /\ Served(protection', protectionVersions', releasedAt')
    BY <2>1 DEF Counted, IsLast, Served
  <2>7. QED
    BY <2>1, <2>2, <2>3, <2>4, <2>5, <2>6 DEF ProtectionKept, TemporalTypeOK
<1>2. CASE RestoreTemporal
  <2>1. /\ temporalBackup # None /\ Numbered(temporalBackup)
        /\ temporalBackup \in TemporalState /\ Len(temporalBackup.events) <= MaxResults
        /\ LeftOf(temporalBackup, temporalTaken.state)
        /\ temporalTaken.state.events \in Seq(ResultEvent)
        /\ IsLast(temporalBackup.current, temporalBackup.versions)
        /\ Served(temporalBackup.current, temporalBackup.versions, temporalTaken.released)
        /\ temporalTaken.released \in Nat \cup {None}
    BY <1>2 DEF RestoreTemporal, ProtectionKept
  <2>2. /\ protection' = temporalBackup.current
        /\ protectionVersions' = temporalBackup.versions
        /\ resultEvents' = temporalBackup.events /\ results' = temporalBackup.evidence
        /\ releasedAt' = IF protection' = None THEN None ELSE temporalTaken.released
        /\ temporalBackup' = None /\ temporalLosses' = temporalLosses
    BY <1>2 DEF RestoreTemporal
  <2>3. /\ temporalBackup.current \in Protection \cup {None}
        /\ temporalBackup.versions \in Seq(Protection)
        /\ temporalBackup.events \in Seq(ResultEvent)
        /\ temporalBackup.evidence \in SUBSET Results
    BY <2>1 DEF TemporalState
  <2>4. Counted(temporalBackup.current, temporalBackup.events)
    BY <2>1, <2>3, AcceptedLeft
  <2>5. releasedAt' \in Nat \cup {None}
    BY <2>1, <2>2
  <2>6. TemporalTypeOK'
    BY <2>1, <2>2, <2>3, <2>5 DEF ProtectionKept, TemporalTypeOK
  <2>7. Served(protection', protectionVersions', releasedAt')
    BY <2>1, <2>2 DEF Served
  <2>8. QED
    BY <2>1, <2>2, <2>4, <2>6, <2>7 DEF ProtectionKept
<1>3. CASE StartTemporalAfresh
  <2>1. /\ temporalBackup' = None /\ temporalLosses' = temporalLosses
        /\ UNCHANGED <<protection, protectionVersions, resultEvents, results, releasedAt>>
    BY <1>3 DEF StartTemporalAfresh, temporalEngine
  <2>2. QED
    BY <2>1 DEF ProtectionKept, TemporalTypeOK
<1>4. CASE DamageTemporal
  <2>1. /\ temporalBackup # None /\ protection = None
        /\ temporalBackup \in TemporalState /\ Len(temporalBackup.events) <= MaxResults
        /\ LeftOf(temporalBackup, temporalTaken.state)
        /\ temporalTaken.state.events \in Seq(ResultEvent)
        /\ IsLast(temporalBackup.current, temporalBackup.versions)
        /\ Served(temporalBackup.current, temporalBackup.versions, temporalTaken.released)
        /\ temporalTaken.released \in Nat \cup {None}
    BY <1>4 DEF DamageTemporal, ProtectionKept
  <2>2. /\ temporalBackup' \in Damaged(temporalBackup) /\ temporalTaken' = temporalTaken
        /\ temporalLosses < MaxLosses /\ temporalLosses' = temporalLosses + 1
        /\ UNCHANGED <<protection, protectionVersions, resultEvents, results, releasedAt>>
    BY <1>4 DEF DamageTemporal, temporalEngine
  <2>3. temporalBackup' \in TemporalState
    BY <2>1, <2>2, DamagedProtection
  <2>4. Stored(temporalBackup, ResultEvent)
    BY <2>1, TemporalStored
  <2>5. LeftOf(temporalBackup', temporalTaken.state)
    BY <2>1, <2>2, <2>4, DamageLeaves
  <2>6. /\ \/ /\ temporalBackup'.current = temporalBackup.current
              /\ temporalBackup'.versions = temporalBackup.versions
           \/ temporalBackup'.current = None
        /\ Len(temporalBackup'.events) <= Len(temporalBackup.events)
    BY <2>2, <2>4, DamageTakes
  <2>7. /\ IsLast(temporalBackup'.current, temporalBackup'.versions)
        /\ Served(temporalBackup'.current, temporalBackup'.versions, temporalTaken.released)
    BY <2>1, <2>6 DEF IsLast, Served
  <2>8. Len(temporalBackup'.events) <= MaxResults
    <3>1. /\ Len(temporalBackup'.events) \in Nat /\ Len(temporalBackup.events) \in Nat
          /\ MaxResults \in Nat
      BY <2>1, <2>3, TemporalConstants DEF TemporalState
    <3>2. QED
      BY <2>1, <2>6, <3>1
  <2>9. TemporalTypeOK'
    BY <2>2, TemporalConstants DEF ProtectionKept, TemporalTypeOK
  <2>10. QED
    BY <2>1, <2>2, <2>3, <2>5, <2>7, <2>8, <2>9 DEF ProtectionKept
<1>5. QED
  BY <1>1, <1>2, <1>3, <1>4

LEMMA ProtectionKeptNext ==
  ASSUME ProtectionKept, [TemporalNext]_temporalVars
  PROVE  ProtectionKept'
<1>1. CASE UNCHANGED temporalVars
  BY <1>1 DEF temporalVars, temporalEngine, temporalOutside, ProtectionKept, TemporalTypeOK
<1>2. ASSUME temporalBackup = None, NEW asOf \in Time, InitializeProtection(asOf)
      PROVE  ProtectionKept'
  BY <1>2, InitializeKept
<1>3. ASSUME temporalBackup = None, NEW asOf \in Time, NEW o \in Results,
             NEW upstream \in Upstreams, ProcessResult(o, upstream, asOf)
      PROVE  ProtectionKept'
  BY <1>3, ResultKept
<1>4. ASSUME temporalBackup = None, NEW asOf \in Time, Release(asOf)
      PROVE  ProtectionKept'
  BY <1>4, ReleaseKept
<1>5. CASE StopTemporal \/ RestoreTemporal \/ StartTemporalAfresh \/ DamageTemporal
  BY <1>5, OutsideKept
<1>6. QED
  BY <1>1, <1>2, <1>3, <1>4, <1>5 DEF TemporalNext

LEMMA ProtectionAlwaysKept == TemporalSpec => []ProtectionKept
BY ProtectionKeptInit, ProtectionKeptNext, PTL DEF TemporalSpec

LEMMA KeptServed == ProtectionKept => CooldownServed
<1> SUFFICES ASSUME ProtectionKept, protection # None
             PROVE  LET breaches == {i \in DOMAIN protectionVersions :
                                       protectionVersions[i].raw >= COOLDOWN}
                    IN /\ breaches # {} => protection.cooldown # "INACTIVE"
                       /\ protection.cooldown = "ACTIVE" => TemporalPermission(protection) = 0
                       /\ protection.cooldown = "RELEASED" =>
                            \A i \in breaches :
                              releasedAt >= protectionVersions[i].observed + CooldownTime
  BY DEF CooldownServed
<1>1. /\ protection \in Protection /\ protectionVersions \in Seq(Protection)
      /\ Served(protection, protectionVersions, releasedAt)
      /\ DOMAIN protectionVersions = 1..Len(protectionVersions)
  BY DEF ProtectionKept, TemporalTypeOK
<1>2. \A i \in DOMAIN protectionVersions : protectionVersions[i].raw >= COOLDOWN =>
        /\ protection.cooldown # "INACTIVE"
        /\ protection.cooldown = "RELEASED" =>
             protectionVersions[i].observed + CooldownTime <= releasedAt
  BY <1>1 DEF Served
<1>3. protection.cooldown = "ACTIVE" => TemporalPermission(protection) = 0
  BY <1>1, BlockedPermission DEF Served
<1>4. \A i \in DOMAIN protectionVersions :
        protection.cooldown = "RELEASED" /\ protectionVersions[i].raw >= COOLDOWN =>
          releasedAt >= protectionVersions[i].observed + CooldownTime
  <2> SUFFICES ASSUME NEW i \in DOMAIN protectionVersions,
                      protection.cooldown = "RELEASED", protectionVersions[i].raw >= COOLDOWN
               PROVE  releasedAt >= protectionVersions[i].observed + CooldownTime
    OBVIOUS
  <2>1. releasedAt \in Nat
    BY <1>1 DEF Served
  <2>2. protectionVersions[i].observed \in Nat /\ CooldownTime \in Nat
    BY <1>1, ProtectionFields, TemporalConstants
  <2>3. QED
    BY <1>2, <2>1, <2>2
<1>5. QED
  BY <1>2, <1>3, <1>4

\* A breach is followed by a cooldown that gives no permission, and a release comes
\* the whole cooldown time after every breach, whatever outcomes come in between
\* and whatever a restart has lost.
THEOREM CooldownsAreServed == TemporalSpec => []TemporalTypeOK /\ []CooldownServed
<1>1. ProtectionKept => TemporalTypeOK /\ CooldownServed
  BY KeptServed DEF ProtectionKept
<1>2. QED
  BY <1>1, ProtectionAlwaysKept, PTL

-----------------------------------------------------------------------------
(* Systemic safety.                                                        *)

\* A status and the incidents: there is one at most, the one the status names; it
\* tells its state, and it is open as long as the circuit is.
Matched(st, inc) ==
  IF st = None THEN inc = NoIncidents
  ELSE /\ \A s \in Signals : inc[s] # None => s = st.incident
       /\ st.incidentState = IF st.incident = None THEN None ELSE inc[st.incident]
       /\ st.circuit <=> st.incidentState \notin {None, "RESOLVED"}
       /\ st.emergency => st.circuit
       /\ st.state \in Severe \cup {"RECOVERY_PENDING", "PROBATION"} => st.circuit

\* The inductive invariant, over that of Engines_proofs.  A recovery state that
\* has lost records may be accepted with incidents that do not match.
StatusKept ==
  /\ Counted(status, signalEvents)
  /\ IsLast(status, statusVersions)
  /\ safetyLosses = 0 => Matched(status, incidents)
  /\ safetyBackup # None =>
       /\ LeftOf(safetyBackup, safetyTaken.state)
       /\ safetyTaken.state.events \in Seq(SignalEvent)
       /\ IsLast(safetyBackup.current, safetyBackup.versions)
       /\ safetyLosses = 0 => Matched(safetyBackup.current, safetyBackup.incidents)

LEMMA SafetyStored ==
  ASSUME NEW b \in SafetyBackup
  PROVE  Stored(b, SignalEvent)
BY DEF SafetyBackup, Stored

LEMMA StatusKeptInit == SafetyInit => StatusKept
BY DEF SafetyInit, StatusKept, Counted, IsLast, Matched

\* The state after a severe signal is severe, whatever it was before, and after
\* another signal it is severe only if it was.
LEMMA WorseOfTwo ==
  ASSUME NEW state \in SafetyState,
         NEW raw \in {"NORMAL", "CAUTION", "RESTRICTED"} \cup Severe
  PROVE  LET after == IF Rank[raw] > Rank[state] THEN raw ELSE state
         IN /\ raw \in Severe => after \in Severe
            /\ raw \notin Severe /\ after \in Severe \cup {"RECOVERY_PENDING", "PROBATION"}
                 => after = state
<1>1. raw \in SafetyState
  BY DEF SafetyState
<1>2. Rank[state] \in 0..5 /\ Rank[raw] \in 0..5
  BY <1>1 DEF Rank, SafetyState, Severe
<1>3. raw \in Severe => Rank[raw] \in {4, 5}
  BY <1>1 DEF Rank, SafetyState, Severe
<1>4. state \notin Severe => Rank[state] \in {0, 1, 2, 3}
  BY DEF Rank, SafetyState, Severe
<1>5. raw \in Severe /\ state \notin Severe => Rank[raw] > Rank[state]
  BY <1>2, <1>3, <1>4
<1>6. QED
  BY <1>5 DEF Severe

\* A signal leaves one incident, latched if the signal is severe.
LEMMA AlertMatched ==
  ASSUME SInv, status # None, Matched(status, incidents), NEW asOf \in Time,
         NEW signal \in Signals, NEW upstream, Alert(signal, upstream, asOf)
  PROVE  status' # None => Matched(status', incidents')
<1> DEFINE raw      == Escalated(signal)
           state    == IF Rank[raw] > Rank[status.state] THEN raw ELSE status.state
           root     == IF raw \in Severe /\ IncidentOf(status) = None THEN signal
                       ELSE status.incident
           incident == IF raw \in Severe THEN "LATCHED" ELSE IncidentOf(status)
<1>1. /\ status' = [raw |-> raw, state |-> state, upstream |-> upstream,
                    circuit |-> status.circuit \/ state \in Severe,
                    emergency |-> status.emergency \/ state = "EMERGENCY_STOP",
                    incident |-> root,
                    incidentState |-> IF incident # None THEN incident
                                      ELSE status.incidentState,
                    progress |-> 0, count |-> status.count + 1, updated |-> asOf]
      /\ incidents' = IF incident = None THEN incidents
                      ELSE [incidents EXCEPT ![root] = incident]
  BY DEF Alert
<1>2. /\ status \in Status /\ incidents \in [Signals -> IncidentState \cup {None}]
      /\ None \notin Signals /\ None \notin IncidentState /\ None # "LATCHED"
      /\ "LATCHED" # "RESOLVED"
  BY SafetyAssumption, NoStatusIsNone
     DEF SafetyAssumption, SInv, SafetyTypeOK, IncidentState
<1>3. /\ status.state \in SafetyState /\ status.incident \in Signals \cup {None}
      /\ status.circuit \in BOOLEAN /\ status.emergency \in BOOLEAN
  BY <1>2 DEF Status
<1>4. /\ \A s \in Signals : incidents[s] # None => s = status.incident
      /\ status.incidentState = IncidentOf(status)
      /\ status.circuit <=> status.incidentState \notin {None, "RESOLVED"}
      /\ status.emergency => status.circuit
      /\ status.state \in Severe \cup {"RECOVERY_PENDING", "PROBATION"} => status.circuit
  BY DEF Matched, IncidentOf
<1>5. /\ raw \in Severe => state \in Severe
      /\ raw \notin Severe /\ state \in Severe \cup {"RECOVERY_PENDING", "PROBATION"}
           => state = status.state
  BY <1>3, EscalatedState, WorseOfTwo
<1>6. "EMERGENCY_STOP" \in Severe
  BY DEF Severe
<1>7. IncidentOf(status) = IF status.incident = None THEN None ELSE incidents[status.incident]
  BY DEF IncidentOf
<1>8. /\ raw \in Severe /\ IncidentOf(status) = None => root = signal
      /\ raw \notin Severe \/ IncidentOf(status) # None => root = status.incident
      /\ raw \in Severe => incident = "LATCHED"
      /\ raw \notin Severe => incident = IncidentOf(status)
  OBVIOUS
<1> HIDE DEF raw, state, root, incident
<1>9. /\ status'.state = state /\ status'.incident = root
      /\ status'.circuit = (status.circuit \/ state \in Severe)
      /\ status'.emergency = (status.emergency \/ state = "EMERGENCY_STOP")
      /\ status'.incidentState = IF incident # None THEN incident ELSE status.incidentState
  BY <1>1
<1>10. CASE raw \in Severe
  <2>1. incident = "LATCHED" /\ root \in Signals
    BY <1>3, <1>7, <1>8, <1>10
  <2>2. incidents' = [incidents EXCEPT ![root] = "LATCHED"]
    BY <1>1, <1>2, <2>1
  <2>3. incidents'[root] = "LATCHED" /\ status'.incidentState = "LATCHED"
    BY <1>2, <1>9, <2>1, <2>2
  <2>4. ASSUME NEW s \in Signals, incidents'[s] # None
        PROVE  s = root
    <3>1. CASE s # root
      <4>1. incidents[s] # None /\ s = status.incident
        BY <1>2, <1>4, <2>1, <2>2, <2>4, <3>1
      <4>2. IncidentOf(status) # None
        BY <1>2, <1>7, <4>1
      <4>3. QED
        BY <1>8, <3>1, <4>1, <4>2
    <3>2. QED
      BY <3>1
  <2>5. status'.circuit
    BY <1>5, <1>9, <1>10
  <2>6. root # None
    BY <1>2, <2>1
  <2>7. QED
    BY <1>2, <1>9, <2>3, <2>4, <2>5, <2>6 DEF Matched
<1>11. CASE raw \notin Severe
  <2>1. incident = IncidentOf(status) /\ root = status.incident
    BY <1>8, <1>11
  <2>2. incidents' = incidents
    <3>1. CASE IncidentOf(status) = None
      BY <1>1, <2>1, <3>1
    <3>2. CASE IncidentOf(status) # None
      <4>1. incident = incidents[root]
        BY <1>7, <2>1, <3>2
      <4>2. QED
        BY <1>1, <1>2, <2>1, <3>2, <4>1
    <3>3. QED
      BY <3>1, <3>2
  <2>3. status'.incidentState = status.incidentState
    BY <1>4, <1>9, <2>1
  <2>4. state \in Severe \cup {"RECOVERY_PENDING", "PROBATION"} => status.circuit
    BY <1>4, <1>5, <1>11
  <2>5. status'.circuit <=> status.circuit
    BY <1>3, <1>9, <2>4
  <2>6. status'.emergency => status.circuit
    BY <1>4, <1>6, <1>9, <2>4
  <2>7. QED
    BY <1>4, <1>7, <1>9, <2>1, <2>2, <2>3, <2>4, <2>5, <2>6 DEF Matched
<1>12. QED
  BY <1>10, <1>11

\* A recovery call amends the incident the status names.
LEMMA AmendMatched ==
  ASSUME SInv, status # None, Matched(status, incidents),
         NEW st \in Status, NEW incident \in IncidentState,
         incidents' = IF IncidentOf(status) = None THEN incidents
                      ELSE [incidents EXCEPT ![status.incident] = incident],
         IncidentOf(status) # None,
         st.incident = status.incident, st.incidentState = incident,
         st.circuit <=> incident # "RESOLVED", st.emergency => st.circuit,
         st.state \in Severe \cup {"RECOVERY_PENDING", "PROBATION"} => st.circuit
  PROVE  Matched(st, incidents')
<1>1. /\ incidents \in [Signals -> IncidentState \cup {None}]
      /\ None \notin IncidentState /\ st # None
  BY NoStatusIsNone DEF SInv, SafetyTypeOK
<1>2. status.incident # None /\ status.incident \in Signals
  <2>1. status \in Status
    BY DEF SInv, SafetyTypeOK
  <2>2. status.incident \in Signals \cup {None}
    BY <2>1 DEF Status
  <2>3. QED
    BY <2>2 DEF IncidentOf
<1>3. incidents' = [incidents EXCEPT ![status.incident] = incident]
  OBVIOUS
<1>4. \A s \in Signals : incidents[s] # None => s = status.incident
  BY DEF Matched
<1>5. \A s \in Signals : incidents'[s] # None => s = status.incident
  BY <1>1, <1>2, <1>3, <1>4
<1>6. incidents'[st.incident] = st.incidentState
  BY <1>1, <1>2, <1>3
<1>7. st.circuit <=> st.incidentState \notin {None, "RESOLVED"}
  BY <1>1
<1>8. QED
  BY <1>1, <1>2, <1>5, <1>6, <1>7 DEF Matched

\* While the circuit is open there is an incident, and it is open.
LEMMA OpenIncident ==
  ASSUME SInv, status # None, Matched(status, incidents),
         status.circuit \/ status.emergency
           \/ status.state \in Severe \cup {"RECOVERY_PENDING", "PROBATION"}
  PROVE  /\ status.circuit = TRUE
         /\ status.incidentState = IncidentOf(status)
         /\ IncidentOf(status) \in IncidentState /\ IncidentOf(status) # None
         /\ IncidentOf(status) # "RESOLVED"
<1>1. status.circuit \in BOOLEAN
  <2>1. status \in Status
    BY DEF SInv, SafetyTypeOK
  <2>2. QED
    BY <2>1 DEF Status
<1>2. /\ status.circuit
      /\ status.incidentState = IncidentOf(status)
      /\ status.circuit <=> status.incidentState \notin {None, "RESOLVED"}
  BY DEF Matched, IncidentOf
<1>3. IncidentOf(status) \in IncidentState \cup {None}
  BY IncidentType DEF SInv
<1>4. QED
  BY <1>1, <1>2, <1>3

\* A version that is appended is the last one.
LEMMA AppendedLast ==
  ASSUME NEW T, NEW versions \in Seq(T), NEW v \in T
  PROVE  IsLast(v, Append(versions, v))
<1>1. /\ Len(Append(versions, v)) = Len(versions) + 1 /\ Len(versions) \in Nat
      /\ Append(versions, v)[Len(versions) + 1] = v
  OBVIOUS
<1>2. QED
  BY <1>1 DEF IsLast

\* A recovery call keeps what is counted and matches what it amends.
LEMMA AmendKept ==
  ASSUME SInv, StatusKept, safetyBackup = None, status # None, NEW st \in Status,
         NEW incident, Amend(st, incident), st.count = status.count,
         safetyLosses = 0 => Matched(st, incidents')
  PROVE  StatusKept'
<1>1. /\ status' = st /\ statusVersions' = Append(statusVersions, st)
      /\ signalEvents' = signalEvents /\ safetyBackup' = None /\ safetyLosses' = safetyLosses
  BY DEF Amend, safetyOutside
<1>2. st # None /\ statusVersions \in Seq(Status)
  BY NoStatusIsNone DEF SInv, SafetyTypeOK
<1>3. IsLast(st, Append(statusVersions, st))
  BY <1>2, AppendedLast
<1>4. Counted(st, signalEvents)
  BY <1>2 DEF StatusKept, Counted
<1>5. QED
  BY <1>1, <1>3, <1>4 DEF StatusKept

LEMMA RequestKept ==
  ASSUME SInv, StatusKept, safetyBackup = None, NEW asOf \in Time, RequestRecovery(asOf)
  PROVE  StatusKept'
<1> DEFINE st == [status EXCEPT !.state = "RECOVERY_PENDING", !.progress = 0,
                                !.updated = asOf, !.incidentState = "RECOVERY_PENDING"]
<1>1. /\ status # None /\ status \in Status /\ Amend(st, "RECOVERY_PENDING")
      /\ status.circuit \/ status.emergency
  BY DEF RequestRecovery, SInv, SafetyTypeOK
<1>2. st \in Status
  BY <1>1 DEF Status, SafetyState, IncidentState
<1>3. /\ st.count = status.count /\ st.incident = status.incident
      /\ st.incidentState = "RECOVERY_PENDING" /\ st.circuit = status.circuit
  BY <1>1 DEF Status
<1> HIDE DEF st
<1>4. ASSUME safetyLosses = 0 PROVE Matched(st, incidents')
  <2>1. Matched(status, incidents)
    BY <1>4 DEF StatusKept
  <2>2. status.circuit = TRUE /\ IncidentOf(status) # None
    BY <1>1, <2>1, OpenIncident
  <2>3. incidents' = IF IncidentOf(status) = None THEN incidents
                     ELSE [incidents EXCEPT ![status.incident] = "RECOVERY_PENDING"]
    BY <1>1 DEF Amend
  <2>4. "RECOVERY_PENDING" \in IncidentState
    BY DEF IncidentState
  <2>5. QED
    BY <1>1, <1>2, <1>3, <2>1, <2>2, <2>3, <2>4, AmendMatched
<1>5. QED
  BY <1>1, <1>2, <1>3, <1>4, AmendKept

LEMMA FailKept ==
  ASSUME SInv, StatusKept, safetyBackup = None, NEW asOf \in Time, FailProbation(asOf)
  PROVE  StatusKept'
<1> DEFINE st == [status EXCEPT !.state = "EMERGENCY_STOP", !.emergency = TRUE,
                                !.progress = 0, !.updated = asOf]
<1>1. /\ status # None /\ status \in Status /\ Amend(st, IncidentOf(status))
      /\ status.state \in {"RECOVERY_PENDING", "PROBATION"}
  BY DEF FailProbation, Recovering, SInv, SafetyTypeOK
<1>2. st \in Status
  BY <1>1 DEF Status, SafetyState, Severe
<1>3. /\ st.count = status.count /\ st.incident = status.incident
      /\ st.incidentState = status.incidentState /\ st.circuit = status.circuit
  BY <1>1 DEF Status
<1> HIDE DEF st
<1>4. ASSUME safetyLosses = 0 PROVE Matched(st, incidents')
  <2>1. Matched(status, incidents)
    BY <1>4 DEF StatusKept
  <2>2. /\ status.circuit = TRUE /\ status.incidentState = IncidentOf(status)
        /\ IncidentOf(status) \in IncidentState /\ IncidentOf(status) # None
        /\ IncidentOf(status) # "RESOLVED"
    BY <1>1, <2>1, OpenIncident
  <2>3. incidents' = IF IncidentOf(status) = None THEN incidents
                     ELSE [incidents EXCEPT ![status.incident] = IncidentOf(status)]
    BY <1>1 DEF Amend
  <2>4. QED
    BY <1>1, <1>2, <1>3, <2>1, <2>2, <2>3, AmendMatched
<1>5. QED
  BY <1>1, <1>2, <1>3, <1>4, AmendKept

LEMMA ContinueKept ==
  ASSUME SInv, StatusKept, safetyBackup = None, NEW asOf \in Time, ContinueProbation(asOf)
  PROVE  StatusKept'
<1> DEFINE p  == status.progress + 1
           st == [status EXCEPT !.state = "PROBATION", !.progress = p, !.updated = asOf]
<1>1. /\ status # None /\ status \in Status /\ Amend(st, IncidentOf(status))
      /\ status.state \in {"RECOVERY_PENDING", "PROBATION"}
  BY DEF ContinueProbation, Recovering, SInv, SafetyTypeOK
<1>2. p \in Nat
  BY <1>1 DEF Status
<1> HIDE DEF p
<1>3. st \in Status
  BY <1>1, <1>2 DEF Status, SafetyState
<1>4. /\ st.count = status.count /\ st.incident = status.incident
      /\ st.incidentState = status.incidentState /\ st.circuit = status.circuit
  BY <1>1 DEF Status
<1> HIDE DEF st
<1>5. ASSUME safetyLosses = 0 PROVE Matched(st, incidents')
  <2>1. Matched(status, incidents)
    BY <1>5 DEF StatusKept
  <2>2. /\ status.circuit = TRUE /\ status.incidentState = IncidentOf(status)
        /\ IncidentOf(status) \in IncidentState /\ IncidentOf(status) # None
        /\ IncidentOf(status) # "RESOLVED"
    BY <1>1, <2>1, OpenIncident
  <2>3. incidents' = IF IncidentOf(status) = None THEN incidents
                     ELSE [incidents EXCEPT ![status.incident] = IncidentOf(status)]
    BY <1>1 DEF Amend
  <2>4. QED
    BY <1>1, <1>3, <1>4, <2>1, <2>2, <2>3, AmendMatched
<1>6. QED
  BY <1>1, <1>3, <1>4, <1>5, AmendKept

LEMMA CompleteKept ==
  ASSUME SInv, StatusKept, safetyBackup = None, NEW asOf \in Time, CompleteRecovery(asOf)
  PROVE  StatusKept'
<1> DEFINE open == [status EXCEPT !.raw = "NORMAL", !.state = "NORMAL", !.circuit = FALSE,
                                  !.emergency = FALSE]
           st   == [open EXCEPT !.progress = 0, !.updated = asOf, !.incidentState = "RESOLVED"]
<1>1. /\ status # None /\ status \in Status /\ Amend(st, "RESOLVED")
      /\ status.state \in {"RECOVERY_PENDING", "PROBATION"}
  BY DEF CompleteRecovery, Recovering, SInv, SafetyTypeOK
<1>2. open \in Status /\ open.count = status.count /\ open.incident = status.incident
      /\ open.circuit = FALSE /\ open.emergency = FALSE /\ open.state = "NORMAL"
  BY <1>1 DEF Status, SafetyState
<1> HIDE DEF open
<1>3. st \in Status
  BY <1>2 DEF Status, IncidentState
<1>4. /\ st.count = status.count /\ st.incident = status.incident
      /\ st.incidentState = "RESOLVED" /\ st.circuit = FALSE /\ st.emergency = FALSE
      /\ st.state = "NORMAL"
  BY <1>2 DEF Status
<1> HIDE DEF st
<1>5. ASSUME safetyLosses = 0 PROVE Matched(st, incidents')
  <2>1. Matched(status, incidents)
    BY <1>5 DEF StatusKept
  <2>2. IncidentOf(status) # None
    BY <1>1, <2>1, OpenIncident
  <2>3. incidents' = IF IncidentOf(status) = None THEN incidents
                     ELSE [incidents EXCEPT ![status.incident] = "RESOLVED"]
    BY <1>1 DEF Amend
  <2>4. "RESOLVED" \in IncidentState /\ st.state \notin Severe
    BY <1>4 DEF IncidentState, Severe
  <2>5. QED
    BY <1>1, <1>3, <1>4, <2>1, <2>2, <2>3, <2>4, AmendMatched
<1>6. QED
  BY <1>1, <1>3, <1>4, <1>5, AmendKept

LEMMA SignalKept ==
  ASSUME SInv, StatusKept, SInv', safetyBackup = None, NEW asOf \in Time,
         NEW signal \in Signals, NEW upstream \in SafetyUpstreams,
         ProcessSignal(signal, upstream, asOf)
  PROVE  StatusKept'
<1>1. /\ status # None /\ Alert(signal, upstream, asOf)
      /\ statusVersions' = Append(statusVersions, status')
      /\ signalEvents' =
           Append(signalEvents, [sequence |-> Len(signalEvents) + 1, evidence |-> signal])
      /\ safetyBackup' = None /\ safetyLosses' = safetyLosses
  BY DEF ProcessSignal, safetyOutside
<1>2. /\ statusVersions \in Seq(Status) /\ signalEvents \in Seq(SignalEvent)
      /\ status \in Status /\ status.count \in Nat
  BY <1>1 DEF SInv, SafetyTypeOK, Status
<1>3. status'.count = status.count + 1
  BY <1>1 DEF Alert
<1>4. status' \in Status /\ status' # None
  BY NoStatusIsNone, ProcessSInv
<1>5. IsLast(status', statusVersions')
  BY <1>1, <1>2, <1>4, AppendedLast
<1>6. Counted(status', signalEvents')
  <2>1. [sequence |-> Len(signalEvents) + 1, evidence |-> signal] \in SignalEvent
    BY <1>2, SafetyAssumption DEF SafetyAssumption, SystemSafetyConfiguration, SignalEvent
  <2>2. Len(signalEvents') = Len(signalEvents) + 1
    BY <1>1, <1>2, <2>1
  <2>3. QED
    BY <1>1, <1>3, <1>4, <2>2 DEF StatusKept, Counted
<1>7. safetyLosses = 0 => Matched(status', incidents')
  BY <1>1, <1>4, AlertMatched DEF StatusKept
<1>8. QED
  BY <1>1, <1>5, <1>6, <1>7 DEF StatusKept

LEMMA OutsideStatusKept ==
  ASSUME SInv, StatusKept, StopSafety \/ RestoreSafety \/ StartSafetyAfresh \/ DamageSafety
  PROVE  StatusKept'
<1>1. CASE StopSafety
  <2>1. /\ safetyBackup' = [current |-> status, versions |-> statusVersions,
                            events |-> signalEvents, evidence |-> signals,
                            incidents |-> incidents]
        /\ safetyTaken' = [state |-> safetyBackup', clean |-> clean]
        /\ status' = None /\ statusVersions' = <<>> /\ signalEvents' = <<>>
        /\ incidents' = NoIncidents /\ safetyLosses' = safetyLosses
    BY <1>1 DEF StopSafety
  <2>2. /\ safetyBackup'.current = status /\ safetyBackup'.versions = statusVersions
        /\ safetyBackup'.events = signalEvents /\ safetyBackup'.incidents = incidents
        /\ safetyTaken'.state = safetyBackup'
    BY <2>1
  <2>3. signalEvents \in Seq(SignalEvent)
    BY DEF SInv, SafetyTypeOK
  <2>4. LeftOf(safetyBackup', safetyTaken'.state)
    BY <2>2, <2>3 DEF LeftOf, StatusKept
  <2>5. /\ Counted(status', signalEvents') /\ IsLast(status', statusVersions')
        /\ Matched(status', incidents')
    BY <2>1 DEF Counted, IsLast, Matched
  <2>6. QED
    BY <2>1, <2>2, <2>3, <2>4, <2>5 DEF StatusKept
<1>2. CASE RestoreSafety
  <2>1. /\ safetyBackup # None /\ Numbered(safetyBackup) /\ safetyBackup \in SafetyBackup
        /\ LeftOf(safetyBackup, safetyTaken.state)
        /\ safetyTaken.state.events \in Seq(SignalEvent)
        /\ IsLast(safetyBackup.current, safetyBackup.versions)
        /\ safetyLosses = 0 => Matched(safetyBackup.current, safetyBackup.incidents)
    BY <1>2 DEF RestoreSafety, SInv, StatusKept
  <2>2. /\ status' = safetyBackup.current /\ statusVersions' = safetyBackup.versions
        /\ signalEvents' = safetyBackup.events /\ incidents' = safetyBackup.incidents
        /\ safetyBackup' = None /\ safetyLosses' = safetyLosses
    BY <1>2 DEF RestoreSafety
  <2>3. safetyBackup.events \in Seq(SignalEvent)
    BY <2>1 DEF SafetyBackup
  <2>4. Counted(safetyBackup.current, safetyBackup.events)
    BY <2>1, <2>3, AcceptedLeft
  <2>5. QED
    BY <2>1, <2>2, <2>4 DEF StatusKept
<1>3. CASE StartSafetyAfresh
  <2>1. /\ safetyBackup' = None /\ safetyLosses' = safetyLosses
        /\ UNCHANGED <<status, statusVersions, signalEvents, incidents>>
    BY <1>3 DEF StartSafetyAfresh, safetyEngine
  <2>2. QED
    BY <2>1 DEF StatusKept
<1>4. CASE DamageSafety
  <2>1. /\ safetyBackup # None /\ safetyBackup \in SafetyBackup /\ status = None
        /\ LeftOf(safetyBackup, safetyTaken.state)
        /\ safetyTaken.state.events \in Seq(SignalEvent)
        /\ IsLast(safetyBackup.current, safetyBackup.versions)
        /\ safetyLosses \in Nat
    BY <1>4 DEF DamageSafety, SInv, SafetyTypeOK, StatusKept
  <2>2. /\ safetyLosses' = safetyLosses + 1 /\ safetyTaken' = safetyTaken
        /\ UNCHANGED <<status, statusVersions, signalEvents, incidents>>
    BY <1>4 DEF DamageSafety, safetyEngine
  <2>3. /\ LeftOf(safetyBackup', safetyTaken.state)
        /\ IsLast(safetyBackup'.current, safetyBackup'.versions)
    <3>1. CASE safetyBackup' \in Damaged(safetyBackup)
      <4>1. Stored(safetyBackup, SignalEvent)
        BY <2>1, SafetyStored
      <4>2. LeftOf(safetyBackup', safetyTaken.state)
        BY <2>1, <3>1, <4>1, DamageLeaves
      <4>3. \/ /\ safetyBackup'.current = safetyBackup.current
               /\ safetyBackup'.versions = safetyBackup.versions
            \/ safetyBackup'.current = None
        BY <3>1, <4>1, DamageTakes
      <4>4. QED
        BY <2>1, <4>2, <4>3 DEF IsLast
    <3>2. CASE safetyBackup' = [safetyBackup EXCEPT !.incidents = NoIncidents]
      <4>1. /\ safetyBackup'.current = safetyBackup.current
            /\ safetyBackup'.versions = safetyBackup.versions
            /\ safetyBackup'.events = safetyBackup.events
        BY <2>1, <3>2 DEF SafetyBackup
      <4>2. QED
        BY <2>1, <4>1 DEF LeftOf
    <3>3. QED
      BY <1>4, <3>1, <3>2 DEF DamageSafety
  <2>4. safetyLosses' # 0
    BY <2>1, <2>2
  <2>5. QED
    BY <2>1, <2>2, <2>3, <2>4 DEF StatusKept
<1>5. QED
  BY <1>1, <1>2, <1>3, <1>4

LEMMA InitializeStatusKept ==
  ASSUME SInv, StatusKept, safetyBackup = None, NEW asOf \in Time, InitializeStatus(asOf)
  PROVE  StatusKept'
<1>1. /\ status = None /\ status' = FreshStatus(asOf)
      /\ statusVersions' = <<FreshStatus(asOf)>>
      /\ signalEvents' = signalEvents /\ incidents' = incidents
      /\ safetyBackup' = None /\ safetyLosses' = safetyLosses
  BY DEF InitializeStatus, safetyOutside
<1>2. FreshStatus(asOf) \in Status /\ FreshStatus(asOf) # None
  <2>1. FreshStatus(asOf) \in Status
    BY DEF FreshStatus, Status, SafetyState, Percent
  <2>2. QED
    BY <2>1, NoStatusIsNone
<1>3. signalEvents = <<>>
  BY <1>1 DEF StatusKept, Counted
<1>4. /\ FreshStatus(asOf).count = 0 /\ FreshStatus(asOf).incident = None
      /\ FreshStatus(asOf).incidentState = None /\ FreshStatus(asOf).circuit = FALSE
      /\ FreshStatus(asOf).emergency = FALSE /\ FreshStatus(asOf).state = "NORMAL"
  BY DEF FreshStatus
<1>5. Counted(status', signalEvents')
  BY <1>1, <1>2, <1>3, <1>4 DEF Counted
<1>6. IsLast(status', statusVersions')
  BY <1>1 DEF IsLast
<1>7. ASSUME safetyLosses = 0 PROVE Matched(status', incidents')
  <2>1. incidents = NoIncidents
    BY <1>1, <1>7 DEF StatusKept, Matched
  <2>2. QED
    BY <1>1, <1>2, <1>4, <2>1 DEF Matched, NoIncidents, Severe
<1>8. QED
  BY <1>1, <1>5, <1>6, <1>7 DEF StatusKept

LEMMA StatusKeptNext ==
  ASSUME SInv, StatusKept, [SafetyNext]_safetyVars
  PROVE  StatusKept'
<1>1. CASE UNCHANGED safetyVars
  BY <1>1 DEF safetyVars, safetyEngine, safetyOutside, StatusKept
<1>2. ASSUME NEW asOf \in Time, safetyBackup = None, InitializeStatus(asOf)
      PROVE  StatusKept'
  BY <1>2, InitializeStatusKept
<1>3. ASSUME NEW asOf \in Time, safetyBackup = None, NEW signal \in Signals,
             NEW upstream \in SafetyUpstreams, ProcessSignal(signal, upstream, asOf)
      PROVE  StatusKept'
  <2>1. SInv'
    BY StepSInv
  <2>2. QED
    BY <1>3, <2>1, SignalKept
<1>4. ASSUME NEW asOf \in Time, safetyBackup = None, RequestRecovery(asOf)
      PROVE  StatusKept'
  BY <1>4, RequestKept
<1>5. ASSUME NEW asOf \in Time, safetyBackup = None, FailProbation(asOf)
      PROVE  StatusKept'
  BY <1>5, FailKept
<1>6. ASSUME NEW asOf \in Time, safetyBackup = None, ContinueProbation(asOf)
      PROVE  StatusKept'
  BY <1>6, ContinueKept
<1>7. ASSUME NEW asOf \in Time, safetyBackup = None, CompleteRecovery(asOf)
      PROVE  StatusKept'
  BY <1>7, CompleteKept
<1>8. CASE StopSafety \/ RestoreSafety \/ StartSafetyAfresh \/ DamageSafety
  BY <1>8, OutsideStatusKept
<1>9. QED
  BY <1>1, <1>2, <1>3, <1>4, <1>5, <1>6, <1>7, <1>8 DEF SafetyNext

LEMMA StatusAlwaysKept == SafetySpec => [](SInv /\ StatusKept)
<1>1. SInv /\ [SafetyNext]_safetyVars => SInv'
  BY StepSInv
<1>2. SInv /\ StatusKept /\ [SafetyNext]_safetyVars => StatusKept'
  BY StatusKeptNext
<1>3. QED
  BY InitSInv, StatusKeptInit, <1>1, <1>2, PTL DEF SafetySpec

\* "Circuit-open or emergency signals create a deterministic incident. Additional
\* severe signals aggregate into that incident": as long as no stored state has lost
\* a record, a scope has at most one incident, open as long as the scope is latched,
\* and the status tells its state.
THEOREM OneIncident == SafetySpec => []IncidentsMatch
<1>1. SInv /\ StatusKept => IncidentsMatch
  <2> SUFFICES ASSUME SInv, StatusKept, safetyLosses = 0, status # None
               PROVE  LET open == {s \in Signals : incidents[s] \notin {None, "RESOLVED"}}
                      IN /\ open = IF status.circuit THEN {status.incident} ELSE {}
                         /\ {s \in Signals : incidents[s] # None} \subseteq {status.incident}
                         /\ status.incidentState = IncidentOf(status)
    BY DEF IncidentsMatch
  <2> DEFINE open == {s \in Signals : incidents[s] \notin {None, "RESOLVED"}}
  <2>1. /\ \A s \in Signals : incidents[s] # None => s = status.incident
        /\ status.incidentState = IF status.incident = None THEN None
                                  ELSE incidents[status.incident]
        /\ status.circuit <=> status.incidentState \notin {None, "RESOLVED"}
    BY DEF StatusKept, Matched
  <2>2. status.incident \in Signals \cup {None}
    <3>1. status \in Status
      BY DEF SInv, SafetyTypeOK
    <3>2. QED
      BY <3>1 DEF Status
  <2>3. status.incidentState = IncidentOf(status)
    BY <2>1 DEF IncidentOf
  <2>4. open = IF status.circuit THEN {status.incident} ELSE {}
    <3>1. CASE status.circuit
      <4>1. status.incident \in Signals /\ incidents[status.incident] \notin {None, "RESOLVED"}
        BY <2>1, <2>2, <3>1
      <4>2. open = {status.incident}
        BY <2>1, <4>1
      <4>3. QED
        BY <3>1, <4>2
    <3>2. CASE ~status.circuit
      <4>1. \A s \in Signals : incidents[s] \in {None, "RESOLVED"}
        <5> SUFFICES ASSUME NEW s \in Signals, incidents[s] # None
                     PROVE  incidents[s] = "RESOLVED"
          OBVIOUS
        <5>1. s = status.incident /\ s # None
          BY <2>1, SafetyAssumption DEF SafetyAssumption
        <5>2. QED
          BY <2>1, <3>2, <5>1
      <4>2. QED
        BY <3>2, <4>1
    <3>3. QED
      BY <3>1, <3>2
  <2>5. QED
    BY <2>1, <2>3, <2>4
<1>2. QED
  BY <1>1, StatusAlwaysKept, PTL

-----------------------------------------------------------------------------
(* The engines together.                                                   *)

\* What holds of every reachable state of the three engines.
Kept == TInv /\ IInv /\ IndexKept /\ ProtectionKept /\ SInv /\ StatusKept

LEMMA AlwaysKept == Spec => []Kept
<1>1. TInv /\ IInv /\ IndexKept /\ ProtectionKept /\ SInv /\ StatusKept => Kept
  BY DEF Kept
<1>2. QED
  BY <1>1, EnginesAlone, IndexAlwaysKept, ProtectionAlwaysKept, StatusAlwaysKept, PTL

\* An index that is suspended is the only snapshot of its time and of every later
\* one: the best version the callers are given is none.
LEMMA SuspensionSeen ==
  ASSUME TInv, IInv, IndexKept, NEW asOf \in Time,
         index # None, index.stage = SUSPENDED, index.observed <= asOf
  PROVE  /\ IndexSnapshots(asOf) # {}
         /\ \A v \in IndexSnapshots(asOf) : StageMultiplier[v.stage] = 0
<1> DEFINE n     == Len(indexVersions)
           known == {i \in DOMAIN indexVersions : indexVersions[i].observed <= asOf}
<1>1. /\ indexVersions \in Seq(Index) /\ n \in Nat /\ n > 0 /\ index = indexVersions[n]
      /\ DOMAIN indexVersions = 1..n
  BY DEF TInv, ReliabilityTypeOK, IInv, Coherent
<1>2. \A i \in 1..n : indexVersions[i].count \in Nat
  <2>1. \A i \in 1..n : indexVersions[i] \in Index
    BY <1>1
  <2>2. QED
    BY <2>1 DEF Index
<1>3. \A i \in 1..(n - 1) : indexVersions[i].count < indexVersions[n].count
  BY DEF IndexKept, Growing
<1>4. n \in known
  BY <1>1
<1>5. \A i \in known : (\A j \in known : indexVersions[j].count <= indexVersions[i].count) => i = n
  <2> SUFFICES ASSUME NEW i \in known,
                      \A j \in known : indexVersions[j].count <= indexVersions[i].count,
                      i # n
               PROVE  FALSE
    OBVIOUS
  <2>1. i \in 1..(n - 1) /\ n \in 1..n /\ i \in 1..n
    BY <1>1
  <2>2. indexVersions[n].count <= indexVersions[i].count
    BY <1>4
  <2>3. QED
    BY <1>2, <1>3, <2>1, <2>2
<1>6. \A j \in known : indexVersions[j].count <= indexVersions[n].count
  <2> SUFFICES ASSUME NEW j \in known
               PROVE  indexVersions[j].count <= indexVersions[n].count
    OBVIOUS
  <2>1. j \in 1..n /\ n \in 1..n
    BY <1>1
  <2>2. CASE j = n
    BY <1>2, <2>1, <2>2
  <2>3. CASE j # n
    <3>1. j \in 1..(n - 1)
      BY <1>1, <2>1, <2>3
    <3>2. QED
      BY <1>2, <1>3, <2>1, <3>1
  <2>4. QED
    BY <2>2, <2>3
<1>7. IndexSnapshots(asOf) =
        {indexVersions[i] : i \in {i \in known :
           \A j \in known : indexVersions[j].count <= indexVersions[i].count}}
  BY DEF IndexSnapshots
<1> HIDE DEF known, n
<1>8. IndexSnapshots(asOf) = {index}
  BY <1>1, <1>4, <1>5, <1>6, <1>7
<1>9. StageMultiplier[SUSPENDED] = 0
  BY ReliabilityAssumption DEF ReliabilityAssumption, ReliabilityConfiguration
<1>10. QED
  BY <1>8, <1>9

\* So is a scope that cools down.
LEMMA CooldownSeen ==
  ASSUME ProtectionKept, NEW asOf \in Time,
         protection # None, protection.cooldown = "ACTIVE", protection.observed <= asOf
  PROVE  /\ ProtectionSnapshots(asOf) # {}
         /\ \A v \in ProtectionSnapshots(asOf) : TemporalPermission(v) = 0
<1> DEFINE n     == Len(protectionVersions)
           known == {i \in DOMAIN protectionVersions : protectionVersions[i].observed <= asOf}
<1>1. /\ protectionVersions \in Seq(Protection) /\ n \in Nat /\ n > 0
      /\ protection = protectionVersions[n] /\ DOMAIN protectionVersions = 1..n
      /\ protection \in Protection
  BY DEF ProtectionKept, TemporalTypeOK, IsLast
<1>2. \A i \in 1..n : protectionVersions[i].count \in Nat
  BY <1>1, ProtectionFields
<1>3. /\ \A i \in 1..(n - 1) : protectionVersions[i].count < protectionVersions[n].count
      /\ protection.stage >= COOLDOWN
  BY <1>1 DEF ProtectionKept, Served
<1>4. n \in known
  BY <1>1
<1>5. \A i \in known :
        (\A j \in known : protectionVersions[j].count <= protectionVersions[i].count) => i = n
  <2> SUFFICES ASSUME NEW i \in known,
                      \A j \in known :
                        protectionVersions[j].count <= protectionVersions[i].count,
                      i # n
               PROVE  FALSE
    OBVIOUS
  <2>1. i \in 1..(n - 1) /\ n \in 1..n /\ i \in 1..n
    BY <1>1
  <2>2. protectionVersions[n].count <= protectionVersions[i].count
    BY <1>4
  <2>3. QED
    BY <1>2, <1>3, <2>1, <2>2
<1>6. \A j \in known : protectionVersions[j].count <= protectionVersions[n].count
  <2> SUFFICES ASSUME NEW j \in known
               PROVE  protectionVersions[j].count <= protectionVersions[n].count
    OBVIOUS
  <2>1. j \in 1..n /\ n \in 1..n
    BY <1>1
  <2>2. CASE j = n
    BY <1>2, <2>1, <2>2
  <2>3. CASE j # n
    <3>1. j \in 1..(n - 1)
      BY <1>1, <2>1, <2>3
    <3>2. QED
      BY <1>2, <1>3, <2>1, <3>1
  <2>4. QED
    BY <2>2, <2>3
<1>7. ProtectionSnapshots(asOf) =
        {protectionVersions[i] : i \in {i \in known :
           \A j \in known : protectionVersions[j].count <= protectionVersions[i].count}}
  BY DEF ProtectionSnapshots
<1> HIDE DEF known, n
<1>8. ProtectionSnapshots(asOf) = {protection}
  BY <1>1, <1>4, <1>5, <1>6, <1>7
<1>9. TemporalPermission(protection) = 0
  BY <1>1, <1>3, BlockedPermission
<1>10. QED
  BY <1>8, <1>9

\* A status that blocks, and is alone in its time, is the only snapshot.
LEMMA StatusSeen ==
  ASSUME SInv, StatusKept, NEW asOf \in Time, status # None,
         SafetyMultiplier[status.state] = 0, status.updated <= asOf, Ordered, AloneInTime
  PROVE  \A v \in SafetySnapshots(asOf) : SafetyPermission(v) = 0
<1> DEFINE n     == Len(statusVersions)
           known == {i \in DOMAIN statusVersions : statusVersions[i].updated <= asOf}
           later(v, w) == \/ v.updated > w.updated
                          \/ v.updated = w.updated /\ v.count > w.count
           same  == {i \in DOMAIN statusVersions : statusVersions[i].updated = status.updated}
<1>1. /\ statusVersions \in Seq(Status) /\ n \in Nat /\ n > 0 /\ status = statusVersions[n]
      /\ DOMAIN statusVersions = 1..n /\ status \in Status
  BY DEF SInv, SafetyTypeOK, StatusKept, IsLast
<1>2. \A i \in 1..n : statusVersions[i].updated \in Nat /\ statusVersions[i].updated <= status.updated
  <2>1. \A i \in 1..n : statusVersions[i] \in Status
    BY <1>1
  <2>2. \A i \in 1..n : statusVersions[i].updated \in Time
    BY <2>1 DEF Status
  <2>3. QED
    BY <1>1, <2>2 DEF Time, Ordered
<1>3. n \in known /\ n \in same /\ n \in 1..n
  BY <1>1
<1>4. \A i \in same : i = n
  <2>1. IsFiniteSet(1..n)
    BY <1>1, FS_Interval
  <2>2. IsFiniteSet(same)
    BY <1>1, <2>1, FS_Subset
  <2>3. Cardinality(same) = 1
    BY DEF AloneInTime
  <2>4. \E x : same = {x}
    BY <2>2, <2>3, FS_Singleton
  <2>5. QED
    BY <1>3, <2>4
<1>5. SafetySnapshots(asOf) =
        {statusVersions[i] : i \in {i \in known :
           \A j \in known : ~later(statusVersions[j], statusVersions[i])}}
  BY DEF SafetySnapshots
<1>6. \A i \in known : (\A j \in known : ~later(statusVersions[j], statusVersions[i])) => i = n
  <2> SUFFICES ASSUME NEW i \in known,
                      \A j \in known : ~later(statusVersions[j], statusVersions[i])
               PROVE  i = n
    OBVIOUS
  <2>1. ~(statusVersions[n].updated > statusVersions[i].updated)
    BY <1>3
  <2>2. i \in 1..n
    BY <1>1
  <2>3. statusVersions[i].updated = status.updated
    BY <1>1, <1>2, <1>3, <2>1, <2>2
  <2>4. QED
    BY <1>1, <1>4, <2>2, <2>3
<1> HIDE DEF known, later, same, n
<1>7. \A v \in SafetySnapshots(asOf) : v = status
  BY <1>1, <1>5, <1>6
<1>8. status.upstream \in Percent
  BY <1>1 DEF Status
<1>9. SafetyPermission(status) = 0
  BY <1>8 DEF SafetyPermission, Least, Percent
<1>10. QED
  BY <1>7, <1>9

\* The permissions the engines give are percentages.
LEMMA PermissionsTyped ==
  ASSUME TInv, ProtectionKept, SInv, NEW asOf \in Time
  PROVE  /\ \A v \in IndexSnapshots(asOf) : StageMultiplier[v.stage] \in Percent
         /\ \A v \in ProtectionSnapshots(asOf) : TemporalPermission(v) \in Percent
         /\ \A v \in SafetySnapshots(asOf) : SafetyPermission(v) \in Percent
<1>1. \A v \in IndexSnapshots(asOf) : v \in Index
  BY DEF IndexSnapshots, TInv, ReliabilityTypeOK
<1>2. \A v \in ProtectionSnapshots(asOf) : v \in Protection
  BY DEF ProtectionSnapshots, ProtectionKept, TemporalTypeOK
<1>3. \A v \in SafetySnapshots(asOf) : v \in Status
  BY DEF SafetySnapshots, SInv, SafetyTypeOK
<1>4. \A v \in Index : StageMultiplier[v.stage] \in Percent
  BY ReliabilityAssumption DEF ReliabilityAssumption, ReliabilityConfiguration, Index
<1>5. \A v \in Protection : TemporalPermission(v) \in Percent
  <2> SUFFICES ASSUME NEW v \in Protection PROVE TemporalPermission(v) \in Percent
    OBVIOUS
  <2>1. v.upstream \in Percent /\ v.stage \in Stage
    BY ProtectionFields
  <2>2. TemporalMultiplier[v.stage] \in Percent
    BY <2>1, TemporalAssumption DEF TemporalAssumption, TemporalQualityConfiguration
  <2>3. QED
    BY <2>1, <2>2 DEF TemporalPermission, Least
<1>6. \A v \in Status : SafetyPermission(v) \in Percent
  <2> SUFFICES ASSUME NEW v \in Status PROVE SafetyPermission(v) \in Percent
    OBVIOUS
  <2>1. v.upstream \in Percent /\ v.state \in SafetyState
    BY DEF Status
  <2>2. CautionMultiplier \in Percent /\ RestrictedMultiplier \in Percent
    BY SafetyAssumption DEF SafetyAssumption, SystemSafetyConfiguration, Percent
  <2>3. SafetyMultiplier[v.state] \in Percent
    <3>1. 0 \in Percent /\ 100 \in Percent
      BY DEF Percent
    <3>2. QED
      BY <2>1, <2>2, <3>1 DEF SafetyMultiplier
  <2>4. QED
    BY <2>1, <2>3 DEF SafetyPermission, Least
<1>7. QED
  BY <1>1, <1>2, <1>3, <1>4, <1>5, <1>6

\* The least of three percentages, one of which is zero.
LEMMA BlockIsLeast ==
  ASSUME NEW p \in Percent, NEW q \in Percent, NEW r \in Percent, p = 0 \/ q = 0 \/ r = 0
  PROVE  FinalMultiplier(p, q, r) = 0
BY DEF FinalMultiplier, Least, Percent

LEMMA BlockPrevails == Kept => HardBlockPrevails
<1> SUFFICES ASSUME Kept, NEW asOf \in Time,
               \/ index # None /\ index.stage = SUSPENDED /\ index.observed <= asOf
               \/ protection # None /\ protection.cooldown = "ACTIVE"
                    /\ protection.observed <= asOf
               \/ /\ status # None /\ SafetyMultiplier[status.state] = 0
                  /\ status.updated <= asOf /\ Ordered /\ AloneInTime
             PROVE  FinalMultipliers(asOf) \subseteq {0}
  BY DEF HardBlockPrevails
<1> DEFINE prompt28 == IF IndexSnapshots(asOf) = {} THEN {100}
                       ELSE {StageMultiplier[v.stage] : v \in IndexSnapshots(asOf)}
           prompt29 == IF ProtectionSnapshots(asOf) = {} THEN {100}
                       ELSE {TemporalPermission(v) : v \in ProtectionSnapshots(asOf)}
           safety   == {SafetyPermission(v) : v \in SafetySnapshots(asOf)}
<1>1. TInv /\ IInv /\ IndexKept /\ ProtectionKept /\ SInv /\ StatusKept
  BY DEF Kept
<1>2. prompt28 \subseteq Percent /\ prompt29 \subseteq Percent /\ safety \subseteq Percent
  <2>1. 100 \in Percent
    BY DEF Percent
  <2>2. QED
    BY <1>1, <2>1, PermissionsTyped
<1>3. prompt28 \subseteq {0} \/ prompt29 \subseteq {0} \/ safety \subseteq {0}
  <2>1. CASE index # None /\ index.stage = SUSPENDED /\ index.observed <= asOf
    BY <1>1, <2>1, SuspensionSeen
  <2>2. CASE protection # None /\ protection.cooldown = "ACTIVE" /\ protection.observed <= asOf
    BY <1>1, <2>2, CooldownSeen
  <2>3. CASE /\ status # None /\ SafetyMultiplier[status.state] = 0
             /\ status.updated <= asOf /\ Ordered /\ AloneInTime
    BY <1>1, <2>3, StatusSeen
  <2>4. QED
    BY <2>1, <2>2, <2>3
<1>4. FinalMultipliers(asOf) =
        {FinalMultiplier(p, q, r) : p \in prompt28, q \in prompt29, r \in safety}
  BY DEF FinalMultipliers
<1> HIDE DEF prompt28, prompt29, safety
<1>5. \A p \in prompt28, q \in prompt29, r \in safety : FinalMultiplier(p, q, r) = 0
  BY <1>2, <1>3, BlockIsLeast
<1>6. QED
  BY <1>4, <1>5

\* "CanHardBlockBeAveragedAway: FALSE": while one engine blocks the research, the
\* final multiplier of the three is zero whenever it is asked for, for every set of
\* evidence, every configuration and every sequence of calls and restarts; and a
\* block that is a cooldown is served in full.
THEOREM BlocksAreHeld == Spec => []BlocksHold
<1>1. Kept => BlocksHold
  BY BlockPrevails, KeptServed DEF Kept, BlocksHold
<1>2. QED
  BY <1>1, AlwaysKept, PTL

\* Together, too, a scope has one incident.
THEOREM IncidentsMatchTogether == Spec => []IncidentsMatch
BY EnginesAlone, OneIncident, PTL

-----------------------------------------------------------------------------
(* A restart.                                                              *)

LEMMA IndexRestored ==
  ASSUME TInv, IndexKept, RestoreReliability
  PROVE  \/ index' = reliabilityTaken.current /\ outcomeEvents' = reliabilityTaken.events
         \/ index' = None /\ outcomeEvents' = <<>>
<1>1. /\ reliabilityBackup # None /\ Numbered(reliabilityBackup)
      /\ reliabilityBackup.events \in Seq(OutcomeEvent)
      /\ LeftOf(reliabilityBackup, reliabilityTaken)
      /\ reliabilityTaken.events \in Seq(OutcomeEvent)
  BY DEF RestoreReliability, AcceptableReliability, TInv, BackupState, IndexKept
<1>2. index' = reliabilityBackup.current /\ outcomeEvents' = reliabilityBackup.events
  BY DEF RestoreReliability
<1>3. QED
  BY <1>1, <1>2, AcceptedLeft

LEMMA ProtectionRestored ==
  ASSUME ProtectionKept, RestoreTemporal
  PROVE  \/ /\ protection' = temporalTaken.state.current
            /\ resultEvents' = temporalTaken.state.events
         \/ protection' = None /\ resultEvents' = <<>>
<1>1. /\ temporalBackup # None /\ Numbered(temporalBackup)
      /\ temporalBackup.events \in Seq(ResultEvent)
      /\ LeftOf(temporalBackup, temporalTaken.state)
      /\ temporalTaken.state.events \in Seq(ResultEvent)
  BY DEF RestoreTemporal, ProtectionKept, TemporalState
<1>2. protection' = temporalBackup.current /\ resultEvents' = temporalBackup.events
  BY DEF RestoreTemporal
<1>3. QED
  BY <1>1, <1>2, AcceptedLeft

LEMMA StatusRestored ==
  ASSUME SInv, StatusKept, RestoreSafety
  PROVE  \/ /\ status' = safetyTaken.state.current
            /\ signalEvents' = safetyTaken.state.events
         \/ status' = None /\ signalEvents' = <<>>
<1>1. /\ safetyBackup # None /\ Numbered(safetyBackup)
      /\ safetyBackup.events \in Seq(SignalEvent)
      /\ LeftOf(safetyBackup, safetyTaken.state)
      /\ safetyTaken.state.events \in Seq(SignalEvent)
  BY DEF RestoreSafety, SInv, SafetyBackup, StatusKept
<1>2. status' = safetyBackup.current /\ signalEvents' = safetyBackup.events
  BY DEF RestoreSafety
<1>3. QED
  BY <1>1, <1>2, AcceptedLeft

\* A restart that is not refused brings the scope back as it was, or forgets it with
\* its events: whatever records a stored state has lost, and however many, restore
\* never accepts a scope with part of its events.
THEOREM RestartsPreserve == Spec => RestartPreserves
<1>1. TInv /\ IndexKept => (RestoreReliability =>
        \/ index' = reliabilityTaken.current /\ outcomeEvents' = reliabilityTaken.events
        \/ index' = None /\ outcomeEvents' = <<>>)
  BY IndexRestored
<1>2. ProtectionKept => (RestoreTemporal =>
        \/ /\ protection' = temporalTaken.state.current
           /\ resultEvents' = temporalTaken.state.events
        \/ protection' = None /\ resultEvents' = <<>>)
  BY ProtectionRestored
<1>3. SInv /\ StatusKept => (RestoreSafety =>
        \/ /\ status' = safetyTaken.state.current
           /\ signalEvents' = safetyTaken.state.events
        \/ status' = None /\ signalEvents' = <<>>)
  BY StatusRestored
<1>4. Kept => TInv /\ IndexKept /\ ProtectionKept /\ SInv /\ StatusKept
  BY DEF Kept
<1>5. QED
  BY <1>1, <1>2, <1>3, <1>4, AlwaysKept, PTL DEF RestartPreserves

-----------------------------------------------------------------------------
(* The evidence is replayed.                                               *)

\* What an outcome makes of a value and the best one.
ReplayStep(x, o) == [value |-> Shifted(x.value, o), best |-> Greatest(x.best, Shifted(x.value, o))]

\* f follows the values along the events.
Follows(f, events) ==
  /\ f[0] = [value |-> Start, best |-> Start]
  /\ \A n \in 1..Len(events) : f[n] = ReplayStep(f[n - 1], events[n].evidence)

Values == [value : Nat, best : Nat]

LEMMA OutcomeFacts ==
  ASSUME NEW e \in OutcomeEvent
  PROVE  e.evidence.delta \in Int
BY DEF OutcomeEvent, Outcome

LEMMA StepValues ==
  ASSUME NEW x \in Values, NEW e \in OutcomeEvent
  PROVE  ReplayStep(x, e.evidence) \in Values
<1>1. x.value \in Nat /\ x.best \in Nat /\ e.evidence.delta \in Int
  BY OutcomeFacts DEF Values
<1>2. PICK v \in Nat : v = Shifted(x.value, e.evidence)
  BY <1>1 DEF Shifted, Greatest
<1>3. Greatest(x.best, v) \in Nat
  BY <1>1, <1>2 DEF Greatest
<1>4. QED
  BY <1>2, <1>3 DEF ReplayStep, Values

\* There are such values.
LEMMA FollowsExists ==
  ASSUME NEW events \in Seq(OutcomeEvent)
  PROVE  \E f \in [0..Len(events) -> Values] : Follows(f, events)
<1> DEFINE N == Len(events)
           first == [value |-> Start, best |-> Start]
           step == [p \in Values \X (1..N) |-> ReplayStep(p[1], events[p[2]].evidence)]
<1>1. N \in Nat /\ \A n \in 1..N : events[n] \in OutcomeEvent
  OBVIOUS
<1>2. first \in Values
  BY ReliabilityAssumption DEF ReliabilityConfiguration, Values
<1>3. \A x \in Values, n \in 1..N : ReplayStep(x, events[n].evidence) \in Values
  BY <1>1, StepValues
<1>4. \A p \in Values \X (1..N) : p[1] \in Values /\ p[2] \in 1..N
  OBVIOUS
<1>5. step \in [Values \X (1..N) -> Values]
  BY <1>3, <1>4
<1>6. \A x \in Values, n \in 1..N : step[<<x, n>>] = ReplayStep(x, events[n].evidence)
  OBVIOUS
<1> HIDE DEF step, first, N
<1> HIDE DEF Values
<1>7. PICK f \in [0..N -> Values] : f[0] = first /\ \A n \in 1..N : f[n] = step[<<f[n - 1], n>>]
  <2>1. \E f : Stepwise(f, Values, first, N, step)
    BY <1>1, <1>2, <1>5, StepwiseFacts
  <2>2. QED
    BY <2>1 DEF Stepwise
<1>8. ASSUME NEW n \in 1..N PROVE f[n] = ReplayStep(f[n - 1], events[n].evidence)
  <2>1. n - 1 \in 0..N
    BY <1>1
  <2>2. f[n - 1] \in Values
    BY <1>7, <2>1
  <2>3. QED
    BY <1>6, <1>7, <2>2
<1>9. Follows(f, events)
  BY <1>7, <1>8 DEF Follows, first, N
<1>10. QED
  BY <1>7, <1>9 DEF N

\* The function Replay defines.
ReplayedBy(events) ==
  CHOOSE after : after =
    [n \in 0..Len(events) |->
       IF n = 0 THEN [value |-> Start, best |-> Start]
       ELSE LET value == Greatest(0, after[n - 1].value + events[n].evidence.delta)
            IN [value |-> value, best |-> Greatest(after[n - 1].best, value)]]

\* Replay computes where they end.
LEMMA ReplayFollows ==
  ASSUME NEW events \in Seq(OutcomeEvent), NEW f, Follows(f, events)
  PROVE  Replay(events) = f[Len(events)]
<1> DEFINE N == Len(events)
           a == ReplayedBy(events)
<1>1. N \in Nat
  OBVIOUS
<1>2. PICK g \in [0..N -> Values] : Follows(g, events)
  BY FollowsExists
<1>3. g = [n \in 0..N |->
             IF n = 0 THEN [value |-> Start, best |-> Start]
             ELSE LET value == Greatest(0, g[n - 1].value + events[n].evidence.delta)
                  IN [value |-> value, best |-> Greatest(g[n - 1].best, value)]]
  <2> DEFINE next(n) == IF n = 0 THEN [value |-> Start, best |-> Start]
                        ELSE LET value == Greatest(0, g[n - 1].value + events[n].evidence.delta)
                             IN [value |-> value, best |-> Greatest(g[n - 1].best, value)]
  <2>1. ASSUME NEW n \in 0..N PROVE g[n] = next(n)
    <3>1. CASE n = 0
      BY <1>2, <3>1 DEF Follows
    <3>2. CASE n # 0
      <4>1. n \in 1..Len(events)
        BY <1>1, <3>2
      <4>2. g[n] = ReplayStep(g[n - 1], events[n].evidence)
        BY <1>2, <4>1 DEF Follows
      <4>3. QED
        BY <3>2, <4>2 DEF ReplayStep, Shifted
    <3>3. QED
      BY <3>1, <3>2
  <2>2. g = [n \in 0..N |-> g[n]]
    BY <1>2
  <2> HIDE DEF next
  <2>3. g = [n \in 0..N |-> next(n)]
    BY <2>1, <2>2
  <2>4. QED
    BY <2>3 DEF next
<1>4. a = [n \in 0..N |->
             IF n = 0 THEN [value |-> Start, best |-> Start]
             ELSE LET value == Greatest(0, a[n - 1].value + events[n].evidence.delta)
                  IN [value |-> value, best |-> Greatest(a[n - 1].best, value)]]
  BY <1>3, Zenon DEF ReplayedBy
<1>5. Replay(events) = a[N]
  BY DEF Replay, ReplayedBy
<1> HIDE DEF a, N
<1>6. a[0] = [value |-> Start, best |-> Start]
  BY <1>1, <1>4
<1>7. ASSUME NEW n \in 1..N PROVE a[n] = ReplayStep(a[n - 1], events[n].evidence)
  <2>1. n \in 0..N /\ n # 0
    BY <1>1
  <2>2. QED
    BY <1>4, <2>1 DEF ReplayStep, Shifted
<1> DEFINE Q == {m \in Nat : m <= N => a[m] = f[m]}
<1>8. 0 \in Q
  BY <1>6 DEF Follows
<1>9. ASSUME NEW m \in Nat, m \in Q PROVE m + 1 \in Q
  <2> SUFFICES ASSUME m + 1 <= N PROVE a[m + 1] = f[m + 1]
    OBVIOUS
  <2>1. m + 1 \in 1..N /\ (m + 1) - 1 = m /\ a[m] = f[m]
    BY <1>1, <1>9
  <2>2. a[m + 1] = ReplayStep(a[m], events[m + 1].evidence)
    BY <1>7, <2>1
  <2>3. f[m + 1] = ReplayStep(f[m], events[m + 1].evidence)
    BY <2>1 DEF Follows, N
  <2>4. QED
    BY <2>1, <2>2, <2>3
<1>10. Nat \subseteq Q
  <2> HIDE DEF Q
  <2> QED
    BY <1>8, <1>9, InductiveSet
<1>11. a[N] = f[N]
  BY <1>1, <1>10
<1>12. QED
  BY <1>5, <1>11 DEF N

\* Nothing is replayed to the start, and one more event is one more step.
LEMMA ReplayFacts ==
  /\ Replay(<<>>) = [value |-> Start, best |-> Start]
  /\ \A events \in Seq(OutcomeEvent), e \in OutcomeEvent :
       Replay(Append(events, e)) = ReplayStep(Replay(events), e.evidence)
<1>1. Replay(<<>>) = [value |-> Start, best |-> Start]
  <2>1. <<>> \in Seq(OutcomeEvent) /\ Len(<<>>) = 0
    OBVIOUS
  <2>2. PICK f : Follows(f, <<>>)
    BY <2>1, FollowsExists
  <2>3. Replay(<<>>) = f[0]
    BY <2>1, <2>2, ReplayFollows
  <2>4. QED
    BY <2>2, <2>3 DEF Follows
<1>2. ASSUME NEW events \in Seq(OutcomeEvent), NEW e \in OutcomeEvent
      PROVE  Replay(Append(events, e)) = ReplayStep(Replay(events), e.evidence)
  <2> DEFINE more == Append(events, e)
             N == Len(events)
  <2>1. /\ more \in Seq(OutcomeEvent) /\ Len(more) = N + 1 /\ N \in Nat
        /\ more[N + 1] = e /\ \A n \in 1..N : more[n] = events[n]
    OBVIOUS
  <2>2. PICK f : Follows(f, more)
    BY <2>1, FollowsExists
  <2> HIDE DEF more
  <2>3. Follows(f, events)
    <3>1. \A n \in 1..N : n \in 1..Len(more) /\ more[n] = events[n]
      BY <2>1
    <3>2. QED
      BY <2>2, <3>1 DEF Follows
  <2>4. Replay(events) = f[N]
    BY <2>3, ReplayFollows
  <2>5. Replay(more) = f[N + 1]
    BY <2>1, <2>2, ReplayFollows
  <2>6. f[N + 1] = ReplayStep(f[N], e.evidence)
    <3>1. N + 1 \in 1..Len(more) /\ (N + 1) - 1 = N
      BY <2>1
    <3>2. QED
      BY <2>1, <2>2, <3>1 DEF Follows
  <2>7. QED
    BY <2>4, <2>5, <2>6 DEF more
<1>3. QED
  BY <1>1, <1>2

\* The evidence a scope is replayed from: it leads to the values, its events are
\* numbered from 1 on, and the best value is no worse than the value.
IndexSound(current, events) ==
  current # None =>
    /\ Replay(events) = [value |-> current.value, best |-> current.best]
    /\ current.value \in Nat /\ current.best \in Nat /\ current.best >= current.value
    /\ \A k \in 1..Len(events) : events[k].sequence = k

\* The inductive invariant, over IndexKept: in the engine, and in the recovery
\* state as it was taken.
IndexExact ==
  /\ IndexSound(index, outcomeEvents)
  /\ reliabilityBackup # None => IndexSound(reliabilityTaken.current, reliabilityTaken.events)

LEMMA IndexExactInit == ReliabilityInit => IndexExact
BY DEF ReliabilityInit, IndexExact, IndexSound

LEMMA IndexExactProcess ==
  ASSUME TInv, IInv, IndexKept, IndexExact, NEW asOf \in Time, NEW o \in Outcomes,
         reliabilityBackup = None, ProcessOutcome(o, asOf)
  PROVE  IndexExact'
<1> DEFINE e == [sequence |-> Len(outcomeEvents) + 1, evidence |-> o]
           new == Moved(index, o)
<1>1. /\ index # None /\ index \in Index /\ outcomeEvents \in Seq(OutcomeEvent)
      /\ index' = new /\ outcomeEvents' = Append(outcomeEvents, e)
      /\ reliabilityBackup' = None
  BY DEF ProcessOutcome, TInv, ReliabilityTypeOK
<1>2. o \in Outcome /\ o.delta \in Int
  BY ReliabilityAssumption DEF ReliabilityAssumption, Outcome
<1>3. Len(outcomeEvents) \in Nat /\ e \in OutcomeEvent
  BY <1>1, <1>2 DEF OutcomeEvent
<1>4. /\ Replay(outcomeEvents) = [value |-> index.value, best |-> index.best]
      /\ index.value \in Nat /\ index.best \in Nat
      /\ \A k \in 1..Len(outcomeEvents) : outcomeEvents[k].sequence = k
  BY <1>1 DEF IndexExact, IndexSound
<1>5. new.value = Shifted(index.value, o) /\ new.best = Greatest(index.best, Shifted(index.value, o))
  BY DEF Moved
<1>6. PICK v \in Nat : v = Shifted(index.value, o)
  BY <1>2, <1>4 DEF Shifted, Greatest
<1>7. new.value = v /\ new.best = Greatest(index.best, v)
  BY <1>5, <1>6
<1>8. new.value \in Nat /\ new.best \in Nat /\ new.best >= new.value
  BY <1>4, <1>7 DEF Greatest
<1>9. Replay(outcomeEvents') = ReplayStep(Replay(outcomeEvents), o)
  <2>1. e.evidence = o
    OBVIOUS
  <2> HIDE DEF e
  <2>2. QED
    BY <1>1, <1>3, <2>1, ReplayFacts
<1>10. Replay(outcomeEvents') = [value |-> new.value, best |-> new.best]
  <2> DEFINE x == [value |-> index.value, best |-> index.best]
  <2>1. x.value = index.value /\ x.best = index.best /\ Replay(outcomeEvents) = x
    BY <1>4
  <2> HIDE DEF x, new
  <2>2. QED
    BY <1>5, <1>9, <2>1 DEF ReplayStep
<1>11. \A k \in 1..Len(outcomeEvents') : outcomeEvents'[k].sequence = k
  <2> SUFFICES ASSUME NEW k \in 1..Len(outcomeEvents') PROVE outcomeEvents'[k].sequence = k
    OBVIOUS
  <2>1. k \in 1..(Len(outcomeEvents) + 1)
    BY <1>1
  <2>2. CASE k = Len(outcomeEvents) + 1
    <3>1. outcomeEvents'[k] = e /\ e.sequence = Len(outcomeEvents) + 1
      BY <1>1, <1>3, <2>2
    <3>2. QED
      BY <2>2, <3>1
  <2>3. CASE k # Len(outcomeEvents) + 1
    <3>1. k \in 1..Len(outcomeEvents)
      BY <1>3, <2>1, <2>3
    <3>2. outcomeEvents'[k] = outcomeEvents[k]
      BY <1>1, <3>1
    <3>3. QED
      BY <1>4, <3>1, <3>2
  <2>4. QED
    BY <2>2, <2>3
<1> HIDE DEF new
<1>12. QED
  BY <1>1, <1>8, <1>10, <1>11 DEF IndexExact, IndexSound

LEMMA IndexExactNext ==
  ASSUME TInv, IInv, IndexKept, IndexExact, [ReliabilityNext]_reliabilityVars
  PROVE  IndexExact'
<1>1. CASE UNCHANGED reliabilityVars
  BY <1>1 DEF reliabilityVars, reliabilityEngine, IndexExact
<1>2. ASSUME NEW asOf \in Time, InitializeIndex(asOf), reliabilityBackup = None
      PROVE  IndexExact'
  <2>1. index' = FreshIndex(asOf) /\ outcomeEvents' = <<>> /\ reliabilityBackup' = None
    BY <1>2 DEF InitializeIndex, IndexKept, Counted
  <2>2. index'.value = Start /\ index'.best = Start
    BY <2>1 DEF FreshIndex
  <2>3. Start \in Nat
    BY ReliabilityAssumption DEF ReliabilityAssumption, ReliabilityConfiguration
  <2>4. Len(outcomeEvents') = 0
    BY <2>1
  <2>5. QED
    BY <2>1, <2>2, <2>3, <2>4, ReplayFacts DEF IndexExact, IndexSound
<1>3. ASSUME NEW asOf \in Time, NEW o \in Outcomes, ProcessOutcome(o, asOf),
             reliabilityBackup = None
      PROVE  IndexExact'
  BY <1>3, IndexExactProcess
<1>4. CASE StopReliability
  <2>1. /\ reliabilityTaken'.current = index /\ reliabilityTaken'.events = outcomeEvents
        /\ index' = None
    BY <1>4 DEF StopReliability
  <2>2. QED
    BY <2>1 DEF IndexExact, IndexSound
<1>5. CASE RestoreReliability
  <2>1. reliabilityBackup # None /\ reliabilityBackup' = None
    BY <1>5 DEF RestoreReliability
  <2>2. QED
    BY <1>5, <2>1, IndexRestored DEF IndexExact, IndexSound
<1>6. CASE StartReliabilityAfresh
  BY <1>6 DEF StartReliabilityAfresh, reliabilityEngine, IndexExact
<1>7. CASE DamageReliability
  BY <1>7 DEF DamageReliability, reliabilityEngine, IndexExact
<1>8. QED
  BY <1>1, <1>2, <1>3, <1>4, <1>5, <1>6, <1>7 DEF ReliabilityNext

\* What reconcile looks for is not there.
LEMMA ExactReplays == TInv /\ IndexKept /\ IndexExact => IndexReplays
<1> SUFFICES ASSUME TInv, IndexKept, IndexExact, index # None
             PROVE  /\ Replay(outcomeEvents) = [value |-> index.value, best |-> index.best]
                    /\ index.count = Len(outcomeEvents)
                    /\ [k \in DOMAIN outcomeEvents |-> outcomeEvents[k].sequence]
                         = [k \in 1..Len(outcomeEvents) |-> k]
                    /\ index.best >= index.value
  BY DEF IndexReplays, ReconciledIndex
<1>1. /\ Replay(outcomeEvents) = [value |-> index.value, best |-> index.best]
      /\ index.best >= index.value
      /\ \A k \in 1..Len(outcomeEvents) : outcomeEvents[k].sequence = k
  BY DEF IndexExact, IndexSound
<1>2. index.count = Len(outcomeEvents)
  BY DEF IndexKept, Counted
<1>3. DOMAIN outcomeEvents = 1..Len(outcomeEvents)
  BY DEF TInv, ReliabilityTypeOK
<1>4. [k \in DOMAIN outcomeEvents |-> outcomeEvents[k].sequence]
        = [k \in 1..Len(outcomeEvents) |-> k]
  BY <1>1, <1>3
<1>5. QED
  BY <1>1, <1>2, <1>4

LEMMA IndexAlwaysExact == ReliabilitySpec => []IndexReplays
<1>1. TInv /\ IInv /\ IndexKept /\ IndexExact /\ [ReliabilityNext]_reliabilityVars => IndexExact'
  BY IndexExactNext
<1>2. QED
  BY <1>1, IndexAlwaysKept, IndexExactInit, ExactReplays, PTL DEF ReliabilitySpec

-----------------------------------------------------------------------------
(* The budgets add up.                                                     *)

\* What BudgetsExact says of a budget and of the streak, for any events.
Units(events) == [i \in DOMAIN events |-> events[i].evidence.units]

InWindow(window, events, current) ==
  {i \in DOMAIN events : window[events[i].evidence.observed] = current}

Used(window, events, current) == SumOver(Units(events), InWindow(window, events, current))

Adverse(events) ==
  {i \in DOMAIN events :
     /\ events[i].evidence.kind = "ADVERSE"
     /\ \A j \in {j \in DOMAIN events : events[j].evidence.kind = "FAVORABLE"} : j < i}

\* The window does not go back.
Forward(window) ==
  window \in [Time -> Nat] /\ \A t, u \in Time : t <= u => window[t] <= window[u]

\* No event is later than that.
UpTo(events, last) ==
  last \in Time /\ \A i \in 1..Len(events) : events[i].evidence.observed <= last

\* A sum of the same amounts is the same.
LEMMA SumSame ==
  ASSUME NEW S, IsFiniteSet(S), NEW f, NEW h, Amounts(f, S), \A x \in S : h[x] = f[x]
  PROVE  SumOver(h, S) = SumOver(f, S)
<1>1. Amounts(h, S)
  BY DEF Amounts
<1>2. \A x \in S : h[x] <= f[x] /\ f[x] <= h[x]
  BY DEF Amounts
<1>3. SumOver(f, S) \in Nat /\ SumOver(h, S) \in Nat /\ SumOver(h, S) <= SumOver(f, S)
  BY <1>1, <1>2, SumLess
<1>4. SumOver(f, S) <= SumOver(h, S)
  BY <1>1, <1>2, SumLess
<1>5. QED
  BY <1>3, <1>4

\* One more event, and what it is.
LEMMA OneMore ==
  ASSUME NEW E, NEW events \in Seq(E), NEW e \in E
  PROVE  LET more == Append(events, e)
             N    == Len(events)
         IN /\ N \in Nat /\ DOMAIN events = 1..N /\ DOMAIN more = 1..(N + 1)
            /\ more[N + 1] = e /\ \A i \in 1..N : more[i] = events[i]
            /\ 1..(N + 1) = (1..N) \cup {N + 1} /\ N + 1 \notin 1..N
            /\ IsFiniteSet(1..N)
<1> DEFINE more == Append(events, e)
           N == Len(events)
<1>1. N \in Nat /\ DOMAIN events = 1..N /\ DOMAIN more = 1..(N + 1)
  OBVIOUS
<1>2. more[N + 1] = e /\ \A i \in 1..N : more[i] = events[i]
  OBVIOUS
<1> HIDE DEF more, N
<1>3. 1..(N + 1) = (1..N) \cup {N + 1} /\ N + 1 \notin 1..N
  BY <1>1
<1>4. IsFiniteSet(1..N)
  BY <1>1, FS_Interval
<1>5. QED
  BY <1>1, <1>2, <1>3, <1>4 DEF more, N

\* What Spent makes of the budget of the window of the last time.
SpentSince(window, events, last, o) ==
  (IF window[o.observed] = window[last] THEN Used(window, events, window[last]) ELSE 0) + o.units

\* A window that does not go back: what an event makes of the budget of its window
\* is what Spent says, since no event before it is of a window that begins.
LEMMA UsedMore ==
  ASSUME NEW window, Forward(window), NEW events \in Seq(ResultEvent),
         NEW e \in ResultEvent, NEW last, UpTo(events, last),
         last <= e.evidence.observed, NEW more, more = Append(events, e)
  PROVE  Used(window, more, window[e.evidence.observed])
           = SpentSince(window, events, last, e.evidence)
<1> DEFINE N == Len(events)
           now == window[e.evidence.observed]
           S == InWindow(window, events, now)
           f == Units(more)
           h == Units(events)
<1>1. /\ N \in Nat /\ DOMAIN events = 1..N /\ DOMAIN more = 1..(N + 1)
      /\ more[N + 1] = e /\ \A i \in 1..N : more[i] = events[i]
      /\ 1..(N + 1) = (1..N) \cup {N + 1} /\ N + 1 \notin 1..N
      /\ IsFiniteSet(1..N)
  BY OneMore
<1>2. /\ e.evidence.units \in Nat /\ e.evidence.observed \in Time
      /\ \A i \in 1..N : /\ events[i].evidence.units \in Nat
                         /\ events[i].evidence.observed \in Time
  <2>1. \A d \in ResultEvent : d.evidence.units \in Nat /\ d.evidence.observed \in Time
    BY DEF ResultEvent, Result
  <2>2. \A i \in 1..N : events[i] \in ResultEvent
    OBVIOUS
  <2>3. QED
    BY <2>1, <2>2
<1> HIDE DEF N
<1>3. S \subseteq 1..N /\ IsFiniteSet(S) /\ N + 1 \notin S
  <2>1. S \subseteq 1..N
    BY <1>1 DEF InWindow
  <2>2. QED
    BY <1>1, <2>1, FS_Subset
<1>4. InWindow(window, more, now) = S \cup {N + 1}
  <2>1. \A i \in 1..(N + 1) : (window[more[i].evidence.observed] = now <=> i \in S \cup {N + 1})
    <3>1. \A i \in 1..N : (window[more[i].evidence.observed] = now <=> i \in S)
      BY <1>1 DEF InWindow
    <3>2. window[more[N + 1].evidence.observed] = now
      BY <1>1
    <3>3. QED
      BY <1>1, <1>3, <3>1, <3>2
  <2>2. S \cup {N + 1} \subseteq 1..(N + 1)
    BY <1>1, <1>3
  <2>3. QED
    BY <1>1, <2>1, <2>2 DEF InWindow
<1>5. /\ f[N + 1] = e.evidence.units
      /\ \A i \in S : f[i] = events[i].evidence.units /\ h[i] = f[i]
  <2>1. \A i \in 1..N : i \in DOMAIN more /\ i \in DOMAIN events
    BY <1>1
  <2>2. N + 1 \in DOMAIN more
    BY <1>1
  <2>3. QED
    BY <1>1, <1>3, <2>1, <2>2 DEF Units
<1>6. Amounts(f, S \cup {N + 1})
  BY <1>2, <1>3, <1>5 DEF Amounts
<1> HIDE DEF f, h, S, now
<1>7. SumOver(f, S \cup {N + 1}) = f[N + 1] + SumOver(h, S) /\ SumOver(h, S) \in Nat
  BY <1>3, <1>5, <1>6, SumWith
<1>8. Used(window, more, now) = SumOver(h, S) + e.evidence.units
  <2>1. Used(window, more, now) = SumOver(f, S \cup {N + 1})
    BY <1>4 DEF Used, f
  <2>2. QED
    BY <1>2, <1>5, <1>7, <2>1
<1>9. CASE now = window[last]
  <2>1. Used(window, events, window[last]) = SumOver(h, S)
    BY <1>9 DEF Used, h, S
  <2>2. QED
    BY <1>2, <1>7, <1>8, <1>9, <2>1 DEF now, SpentSince
<1>10. CASE now # window[last]
  <2>1. ASSUME NEW i \in 1..N PROVE window[events[i].evidence.observed] # now
    <3>1. /\ window[events[i].evidence.observed] <= window[last]
          /\ window[last] <= now
      BY <1>2 DEF now, N, Forward, UpTo
    <3>2. window[events[i].evidence.observed] \in Nat /\ window[last] \in Nat /\ now \in Nat
      BY <1>2 DEF now, Forward, UpTo
    <3>3. QED
      BY <1>10, <3>1, <3>2
  <2>2. S = {}
    BY <1>1, <2>1 DEF S, InWindow
  <2>3. SumOver(h, S) = 0
    BY <2>2, SumOfNothing
  <2>4. QED
    BY <1>2, <1>8, <1>10, <2>3 DEF now, SpentSince
<1>11. QED
  BY <1>9, <1>10

\* What an event makes of the adverse ones since the last favorable one.
LEMMA AdverseMore ==
  ASSUME NEW events \in Seq(ResultEvent), NEW e \in ResultEvent
  PROVE  /\ IsFiniteSet(Adverse(events)) /\ Cardinality(Adverse(events)) \in Nat
         /\ Cardinality(Adverse(Append(events, e))) =
              CASE e.evidence.kind = "ADVERSE"   -> Cardinality(Adverse(events)) + 1
                [] e.evidence.kind = "FAVORABLE" -> 0
                [] e.evidence.kind = "NEUTRAL"   -> Cardinality(Adverse(events))
<1> DEFINE more == Append(events, e)
           N == Len(events)
           favorable(s) == {j \in DOMAIN s : s[j].evidence.kind = "FAVORABLE"}
<1>1. /\ N \in Nat /\ DOMAIN events = 1..N /\ DOMAIN more = 1..(N + 1)
      /\ more[N + 1] = e /\ \A i \in 1..N : more[i] = events[i]
      /\ 1..(N + 1) = (1..N) \cup {N + 1} /\ N + 1 \notin 1..N
      /\ IsFiniteSet(1..N)
  BY OneMore
<1> HIDE DEF more, N
<1>2. Adverse(events) \subseteq 1..N /\ N + 1 \notin Adverse(events)
  BY <1>1 DEF Adverse
<1>3. IsFiniteSet(Adverse(events)) /\ Cardinality(Adverse(events)) \in Nat
  BY <1>1, <1>2, FS_Subset, FS_CardinalityType
<1>4. /\ Adverse(events) = {i \in 1..N : /\ events[i].evidence.kind = "ADVERSE"
                                        /\ \A j \in favorable(events) : j < i}
      /\ Adverse(more) = {i \in 1..(N + 1) : /\ more[i].evidence.kind = "ADVERSE"
                                           /\ \A j \in favorable(more) : j < i}
  BY <1>1 DEF Adverse
<1>5. favorable(events) \subseteq 1..N
  BY <1>1
<1>6. favorable(more) = favorable(events) \cup
                          (IF e.evidence.kind = "FAVORABLE" THEN {N + 1} ELSE {})
  BY <1>1
<1> HIDE DEF favorable
<1>7. CASE e.evidence.kind = "ADVERSE"
  <2>1. favorable(more) = favorable(events)
    BY <1>6, <1>7
  <2>2. \A j \in favorable(events) : j < N + 1
    BY <1>1, <1>5
  <2>3. Adverse(more) = Adverse(events) \cup {N + 1}
    BY <1>1, <1>4, <1>7, <2>1, <2>2
  <2>4. Cardinality(Adverse(more)) = Cardinality(Adverse(events)) + 1
    BY <1>2, <1>3, <2>3, FS_AddElement
  <2>5. QED
    BY <1>3, <1>7, <2>4 DEF more
<1>8. CASE e.evidence.kind = "FAVORABLE"
  <2>1. N + 1 \in favorable(more)
    BY <1>6, <1>8
  <2>2. ASSUME NEW i \in 1..(N + 1) PROVE ~(N + 1 < i)
    BY <1>1
  <2>3. Adverse(more) = {}
    BY <1>4, <2>1, <2>2
  <2>4. Cardinality(Adverse(more)) = 0
    BY <2>3, FS_EmptySet
  <2>5. QED
    BY <1>3, <1>8, <2>4 DEF more
<1>9. CASE e.evidence.kind = "NEUTRAL"
  <2>1. favorable(more) = favorable(events)
    BY <1>6, <1>9
  <2>2. Adverse(more) = Adverse(events)
    BY <1>1, <1>4, <1>9, <2>1
  <2>3. QED
    BY <1>3, <1>9, <2>2 DEF more
<1>10. e.evidence.kind \in {"ADVERSE", "NEUTRAL", "FAVORABLE"}
  BY DEF ResultEvent, Result
<1>11. QED
  BY <1>7, <1>8, <1>9, <1>10

\* A version and the events its budgets and its streak are made of, none of them
\* later than the version.
BudgetSound(current, events) ==
  current # None =>
    /\ current.observed \in Time
    /\ current.day = DayOf[current.observed] /\ current.week = WeekOf[current.observed]
    /\ \A i \in 1..Len(events) : events[i].evidence.observed <= current.observed
    /\ current.daily = Used(DayOf, events, current.day)
    /\ current.weekly = Used(WeekOf, events, current.week)
    /\ current.streak = Cardinality(Adverse(events))

\* The inductive invariant, over ProtectionKept: in the engine, and in the recovery
\* state as it was taken.
BudgetsKept ==
  /\ BudgetSound(protection, resultEvents)
  /\ temporalBackup # None =>
       BudgetSound(temporalTaken.state.current, temporalTaken.state.events)

LEMMA BudgetsInit == TemporalInit => BudgetsKept
BY DEF TemporalInit, BudgetsKept, BudgetSound

LEMMA BudgetsInitialize ==
  ASSUME ProtectionKept, temporalBackup = None, NEW asOf \in Time, InitializeProtection(asOf)
  PROVE  BudgetsKept'
<1>1. protection' = FreshProtection(asOf) /\ resultEvents' = <<>> /\ temporalBackup' = None
  BY DEF InitializeProtection, temporalOutside, ProtectionKept, Counted
<1>2. /\ protection'.observed = asOf /\ protection'.day = DayOf[asOf]
      /\ protection'.week = WeekOf[asOf] /\ protection'.daily = 0 /\ protection'.weekly = 0
      /\ protection'.streak = 0
  BY <1>1 DEF FreshProtection
<1>3. Len(resultEvents') = 0 /\ DOMAIN resultEvents' = {}
  BY <1>1
<1>4. \A window, current : InWindow(window, resultEvents', current) = {}
  BY <1>3 DEF InWindow
<1>5. \A window, current : Used(window, resultEvents', current) = 0
  BY <1>4, SumOfNothing DEF Used
<1>6. Cardinality(Adverse(resultEvents')) = 0
  BY <1>3, FS_EmptySet DEF Adverse
<1>7. QED
  BY <1>1, <1>2, <1>3, <1>5, <1>6 DEF BudgetsKept, BudgetSound

LEMMA BudgetsResult ==
  ASSUME ProtectionKept, BudgetsKept, temporalBackup = None, NEW asOf \in Time,
         NEW o \in Results, NEW upstream \in Upstreams, ProcessResult(o, upstream, asOf)
  PROVE  BudgetsKept'
<1> DEFINE e == [sequence |-> Len(resultEvents) + 1, evidence |-> o]
           more == Append(resultEvents, e)
<1>1. /\ protection # None /\ resultEvents \in Seq(ResultEvent)
      /\ protection' = Protected(protection, o, upstream) /\ resultEvents' = more
      /\ temporalBackup' = None /\ o.observed >= protection.observed
  BY DEF ProcessResult, temporalOutside, ProtectionKept, TemporalTypeOK, InTime
<1>2. o \in Result /\ o.observed \in Time
  BY TemporalConstants DEF Result
<1>3. Len(resultEvents) \in Nat /\ e \in ResultEvent /\ e.evidence = o
  BY <1>1, <1>2 DEF ResultEvent
<1>4. /\ protection.observed \in Time
      /\ protection.day = DayOf[protection.observed]
      /\ protection.week = WeekOf[protection.observed]
      /\ \A i \in 1..Len(resultEvents) :
           resultEvents[i].evidence.observed <= protection.observed
      /\ protection.daily = Used(DayOf, resultEvents, protection.day)
      /\ protection.weekly = Used(WeekOf, resultEvents, protection.week)
      /\ protection.streak = Cardinality(Adverse(resultEvents))
  BY <1>1 DEF BudgetsKept, BudgetSound
<1>5. /\ protection'.observed = o.observed
      /\ protection'.day = DayOf[o.observed] /\ protection'.week = WeekOf[o.observed]
      /\ protection'.daily =
           (IF DayOf[o.observed] = protection.day THEN protection.daily ELSE 0) + o.units
      /\ protection'.weekly =
           (IF WeekOf[o.observed] = protection.week THEN protection.weekly ELSE 0) + o.units
      /\ protection'.streak = CASE o.kind = "ADVERSE"   -> protection.streak + 1
                                [] o.kind = "FAVORABLE" -> 0
                                [] o.kind = "NEUTRAL"   -> protection.streak
  BY <1>1 DEF Protected, Spent
<1> HIDE DEF e
<1>6. protection.observed <= e.evidence.observed
  BY <1>1, <1>2, <1>3, <1>4 DEF Time
<1>7. Forward(DayOf) /\ Forward(WeekOf)
  BY TemporalAssumption DEF TemporalAssumption, Forward
<1>8. ASSUME NEW window, Forward(window)
      PROVE  Used(window, more, window[o.observed])
               = (IF window[o.observed] = window[protection.observed]
                  THEN Used(window, resultEvents, window[protection.observed]) ELSE 0) + o.units
  <2>1. UpTo(resultEvents, protection.observed)
    BY <1>4 DEF UpTo
  <2>2. resultEvents \in Seq(ResultEvent) /\ more = Append(resultEvents, e) /\ e \in ResultEvent
    BY <1>1, <1>3
  <2> HIDE DEF more
  <2>3. Used(window, more, window[e.evidence.observed])
          = SpentSince(window, resultEvents, protection.observed, e.evidence)
    BY <1>6, <1>8, <2>1, <2>2, UsedMore
  <2>4. QED
    BY <1>3, <2>3 DEF SpentSince
<1>9. /\ protection'.daily = Used(DayOf, more, protection'.day)
      /\ protection'.weekly = Used(WeekOf, more, protection'.week)
  <2> HIDE DEF more
  <2>1. Used(DayOf, more, DayOf[o.observed])
          = (IF DayOf[o.observed] = DayOf[protection.observed]
             THEN Used(DayOf, resultEvents, DayOf[protection.observed]) ELSE 0) + o.units
    BY <1>7, <1>8
  <2>2. Used(WeekOf, more, WeekOf[o.observed])
          = (IF WeekOf[o.observed] = WeekOf[protection.observed]
             THEN Used(WeekOf, resultEvents, WeekOf[protection.observed]) ELSE 0) + o.units
    BY <1>7, <1>8
  <2>3. QED
    BY <1>4, <1>5, <2>1, <2>2
<1>10. protection'.streak = Cardinality(Adverse(more))
  <2>1. Cardinality(Adverse(more)) =
          CASE o.kind = "ADVERSE"   -> Cardinality(Adverse(resultEvents)) + 1
            [] o.kind = "FAVORABLE" -> 0
            [] o.kind = "NEUTRAL"   -> Cardinality(Adverse(resultEvents))
    BY <1>1, <1>3, AdverseMore
  <2>2. QED
    BY <1>4, <1>5, <2>1
<1>11. ASSUME NEW i \in 1..Len(more) PROVE more[i].evidence.observed <= o.observed
  <2>1. i \in 1..(Len(resultEvents) + 1) /\ o.observed \in Int
    BY <1>1, <1>2 DEF Time
  <2>2. CASE i = Len(resultEvents) + 1
    <3>1. more[i] = e
      BY <1>1, <1>3, <2>2
    <3>2. QED
      BY <1>3, <2>1, <3>1
  <2>3. CASE i # Len(resultEvents) + 1
    <3>1. i \in 1..Len(resultEvents)
      BY <1>3, <2>1, <2>3
    <3>2. more[i] = resultEvents[i] /\ resultEvents[i] \in ResultEvent
      BY <1>1, <3>1
    <3>3. resultEvents[i].evidence.observed \in Int /\ protection.observed \in Int
      BY <1>4, <3>2 DEF ResultEvent, Result, Time
    <3>4. QED
      BY <1>1, <1>4, <2>1, <3>1, <3>2, <3>3
  <2>4. QED
    BY <2>2, <2>3
<1> HIDE DEF more
<1>12. QED
  BY <1>1, <1>2, <1>5, <1>9, <1>10, <1>11 DEF BudgetsKept, BudgetSound

LEMMA BudgetsNext ==
  ASSUME ProtectionKept, BudgetsKept, [TemporalNext]_temporalVars
  PROVE  BudgetsKept'
<1>1. CASE UNCHANGED temporalVars
  BY <1>1 DEF temporalVars, temporalEngine, temporalOutside, BudgetsKept
<1>2. ASSUME temporalBackup = None, NEW asOf \in Time, InitializeProtection(asOf)
      PROVE  BudgetsKept'
  BY <1>2, BudgetsInitialize
<1>3. ASSUME temporalBackup = None, NEW asOf \in Time, NEW o \in Results,
             NEW upstream \in Upstreams, ProcessResult(o, upstream, asOf)
      PROVE  BudgetsKept'
  BY <1>3, BudgetsResult
<1>4. ASSUME temporalBackup = None, NEW asOf \in Time, Release(asOf)
      PROVE  BudgetsKept'
  <2>1. /\ protection # None /\ protection \in Protection /\ resultEvents' = resultEvents
        /\ protection' = [protection EXCEPT !.cooldown = "RELEASED", !.stage = RESTRICTED,
                                            !.progress = 0]
        /\ temporalBackup' = None
    BY <1>4 DEF Release, temporalOutside, ProtectionKept, TemporalTypeOK
  <2>2. /\ protection'.observed = protection.observed /\ protection'.day = protection.day
        /\ protection'.week = protection.week /\ protection'.daily = protection.daily
        /\ protection'.weekly = protection.weekly /\ protection'.streak = protection.streak
    BY <2>1 DEF Protection
  <2>3. QED
    BY <2>1, <2>2 DEF BudgetsKept, BudgetSound
<1>5. CASE StopTemporal
  <2>1. /\ temporalTaken'.state.current = protection
        /\ temporalTaken'.state.events = resultEvents
        /\ protection' = None
    BY <1>5 DEF StopTemporal
  <2>2. QED
    BY <2>1 DEF BudgetsKept, BudgetSound
<1>6. CASE RestoreTemporal
  <2>1. temporalBackup # None /\ temporalBackup' = None
    BY <1>6 DEF RestoreTemporal
  <2>2. QED
    BY <1>6, <2>1, ProtectionRestored DEF BudgetsKept, BudgetSound
<1>7. CASE StartTemporalAfresh
  BY <1>7 DEF StartTemporalAfresh, temporalEngine, BudgetsKept
<1>8. CASE DamageTemporal
  BY <1>8 DEF DamageTemporal, temporalEngine, BudgetsKept
<1>9. QED
  BY <1>1, <1>2, <1>3, <1>4, <1>5, <1>6, <1>7, <1>8 DEF TemporalNext

LEMMA KeptExact == BudgetsKept => BudgetsExact
BY DEF BudgetsKept, BudgetSound, BudgetsExact, Used, Units, InWindow, Adverse

LEMMA BudgetsAlwaysExact == TemporalSpec => []BudgetsExact
<1>1. ProtectionKept /\ BudgetsKept /\ [TemporalNext]_temporalVars => BudgetsKept'
  BY BudgetsNext
<1>2. QED
  BY <1>1, ProtectionAlwaysKept, BudgetsInit, KeptExact, PTL DEF TemporalSpec

\* What the engines publish is what the evidence they accepted adds up to, whatever
\* outcomes there are, in whatever order they come, after restarts from states that
\* have lost records too: the index and its best value are where the outcomes lead,
\* each counted once; and a budget holds what the outcomes of the current window
\* have used, and nothing of another window.
THEOREM EvidenceIsReplayed == Spec => []EvidenceReplays
<1>1. IndexReplays /\ BudgetsExact => EvidenceReplays
  BY DEF EvidenceReplays
<1>2. QED
  BY <1>1, EnginesAlone, IndexAlwaysExact, BudgetsAlwaysExact, PTL
=============================================================================
