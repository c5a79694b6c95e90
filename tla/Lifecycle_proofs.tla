-------------------------- MODULE Lifecycle_proofs --------------------------
(***************************************************************************)
(* What holds of Lifecycle for every set of hypotheses, epochs and         *)
(* evidence, every configuration and every bound.                          *)
(***************************************************************************)
EXTENDS Lifecycle, FiniteSetTheorems, SequenceTheorems, WellFoundedInduction, TLAPS

\* The records of a lifecycle fit together, as reconcile wants them.
Consistent(c, ts, es) ==
  /\ es = ts
  /\ \A i \in DOMAIN ts : ts[i].seq = i /\ ts[i].epoch = c.epoch
  /\ c.state = LastState(ts)
  /\ c.version = Len(ts)
  /\ c.sequence = Len(ts)

Authorization(t) ==
  t.to = "AUTHORIZED" /\ t.pre.upstream /\ ("quality" \in Require => t.pre.quality)

Activation(t) ==
  t.to = "ACTIVATED" /\ ("workflow" \in Require => t.pre.workflow)

\* What a lifecycle's state says of its past.
Qualified(c, ts) ==
  /\ c.state \in {"AUTHORIZED", "QUEUED"} => \E i \in DOMAIN ts : Authorization(ts[i])
  /\ c.state \in Activated =>
       \E i, j \in DOMAIN ts : i < j /\ Authorization(ts[i]) /\ Activation(ts[j])

\* Lifecycles that exist are consistent and qualified, the others have no records.
SoundState(l, hist, ev) ==
  \A h \in Hypothesis :
    IF l[h] = None THEN hist[h] = <<>> /\ ev[h] = <<>>
    ELSE Consistent(l[h], hist[h], ev[h]) /\ Qualified(l[h], hist[h])

\* A stored recovery state has lost records of the one that was taken, and a
\* history that has lost none is the history that was taken.
Remains ==
  backup # None =>
    /\ original # None
    /\ SoundState(original.lifecycle, original.history, original.events)
    /\ \A h \in Hypothesis :
         /\ backup.lifecycle[h] \in {None, original.lifecycle[h]}
         /\ Len(backup.history[h]) <= Len(original.history[h])
         /\ Len(backup.history[h]) = Len(original.history[h]) =>
              backup.history[h] = original.history[h]

\* The inductive invariant.
LifecycleInvariant == TypeOK /\ SoundState(lifecycle, history, events) /\ Remains

-----------------------------------------------------------------------------
USE DEF engine, outside

\* Removing an element of a sequence leaves a shorter sequence.
LEMMA WithoutShorter ==
  ASSUME NEW S, NEW s \in Seq(S), NEW i \in DOMAIN s
  PROVE  /\ Without(s, i) \in Seq(S)
         /\ Len(Without(s, i)) = Len(s) - 1
<1> DEFINE n == Len(s) - 1
<1>1. n \in Nat /\ DOMAIN s = 1..Len(s) /\ Len(s) \in Nat
  OBVIOUS
<1>2. \A j \in 1..n : (IF j < i THEN s[j] ELSE s[j + 1]) \in S
  BY <1>1
<1>3. Without(s, i) = [j \in 1..n |-> IF j < i THEN s[j] ELSE s[j + 1]]
  BY DEF Without
<1>4. Without(s, i) \in [1..n -> S]
  BY <1>2, <1>3
<1> QED
  BY <1>1, <1>3, <1>4, SeqDef

\* A committed transition and the record it leaves have their types.
LEMMA CommitTypes ==
  ASSUME NEW c \in LifecycleRecord, NEW to \in State, NEW pre \in Precondition,
         NEW asOf \in Nat
  PROVE  /\ Updated(c, to, asOf) \in LifecycleRecord
         /\ [seq |-> c.sequence + 1, from |-> c.state, to |-> to, at |-> asOf,
             pre |-> pre, epoch |-> c.epoch] \in Transition
<1>1. /\ c.state \in State /\ c.version + 1 \in Nat /\ c.sequence + 1 \in Nat
      /\ c.epoch \in Epoch /\ c.created \in Nat
  BY DEF LifecycleRecord
<1>2. Updated(c, to, asOf) \in LifecycleRecord
  BY <1>1 DEF LifecycleRecord, Updated
<1>3. [seq |-> c.sequence + 1, from |-> c.state, to |-> to, at |-> asOf,
       pre |-> pre, epoch |-> c.epoch] \in Transition
  BY <1>1 DEF Transition
<1> QED
  BY <1>2, <1>3

\* Where a transition to a state past authorization can come from.
LEMMA LegalSources ==
  ASSUME NEW from \in State, NEW to \in Legal[from]
  PROVE  /\ to \in State
         /\ to = "QUEUED" => from = "AUTHORIZED"
         /\ to = "ACTIVATED" => from = "QUEUED"
         /\ to \in Activated \ {"ACTIVATED"} => from \in Activated
  BY DEF Legal, State, Activated

\* Committing a permitted transition keeps a lifecycle consistent and qualified.
LEMMA CommitKeeps ==
  ASSUME NEW c \in LifecycleRecord, NEW ts \in Seq(Transition),
         Consistent(c, ts, ts), Qualified(c, ts),
         NEW to \in Legal[c.state], NEW pre \in Precondition, NEW asOf \in Nat,
         Permitted(c, to, pre, asOf),
         NEW t, t = [seq |-> c.sequence + 1, from |-> c.state, to |-> to,
                     at |-> asOf, pre |-> pre, epoch |-> c.epoch]
  PROVE  LET new == Updated(c, to, asOf)
             longer == Append(ts, t)
         IN Consistent(new, longer, longer) /\ Qualified(new, longer)
<1> DEFINE new == Updated(c, to, asOf)
           longer == Append(ts, t)
<1>1. /\ c.state \in State /\ c.version \in Nat /\ c.sequence \in Nat
      /\ to \in State
  BY LegalSources DEF LifecycleRecord
<1>2. /\ new.state = to /\ new.version = c.version + 1
      /\ new.sequence = c.sequence + 1 /\ new.epoch = c.epoch
  BY DEF Updated, LifecycleRecord
<1>3. t \in Transition
  BY <1>1, CommitTypes
<1>4. /\ Len(longer) = Len(ts) + 1 /\ Len(ts) \in Nat
      /\ longer # <<>>
      /\ DOMAIN ts = 1..Len(ts) /\ DOMAIN longer = 1..(Len(ts) + 1)
      /\ \A i \in DOMAIN ts : longer[i] = ts[i]
      /\ longer[Len(ts) + 1] = t
  BY <1>3
<1>5. Consistent(new, longer, longer)
  <2>1. \A i \in DOMAIN longer : longer[i].seq = i /\ longer[i].epoch = new.epoch
    BY <1>2, <1>4 DEF Consistent
  <2>2. LastState(longer) = to
    BY <1>4 DEF LastState
  <2> QED
    BY <2>1, <2>2, <1>2, <1>4 DEF Consistent
<1>6. ASSUME new.state \in {"AUTHORIZED", "QUEUED"}
      PROVE  \E i \in DOMAIN longer : Authorization(longer[i])
  <2>1. CASE to = "AUTHORIZED"
    <3>1. Authorization(t)
      BY <2>1 DEF Authorization, Permitted
    <3> QED
      BY <3>1, <1>4
  <2>2. CASE to = "QUEUED"
    <3>1. c.state = "AUTHORIZED"
      BY <2>2, <1>1, LegalSources
    <3>2. PICK i \in DOMAIN ts : Authorization(ts[i])
      BY <3>1 DEF Qualified
    <3> QED
      BY <3>2, <1>4
  <2> QED
    BY <1>2, <1>6, <2>1, <2>2
<1>7. ASSUME new.state \in Activated
      PROVE  \E i, j \in DOMAIN longer :
                i < j /\ Authorization(longer[i]) /\ Activation(longer[j])
  <2>1. CASE to = "ACTIVATED"
    <3>1. c.state = "QUEUED"
      BY <2>1, <1>1, LegalSources
    <3>2. PICK i \in DOMAIN ts : Authorization(ts[i])
      BY <3>1 DEF Qualified
    <3>3. Activation(t)
      BY <2>1 DEF Activation, Permitted
    <3>4. i < Len(ts) + 1 /\ i \in DOMAIN longer /\ Len(ts) + 1 \in DOMAIN longer
      BY <3>2, <1>4
    <3> QED
      BY <3>2, <3>3, <3>4, <1>4
  <2>2. CASE to # "ACTIVATED"
    <3>1. c.state \in Activated
      BY <2>2, <1>1, <1>2, <1>7, LegalSources
    <3>2. PICK i, j \in DOMAIN ts : i < j /\ Authorization(ts[i]) /\ Activation(ts[j])
      BY <3>1 DEF Qualified
    <3> QED
      BY <3>2, <1>4
  <2> QED
    BY <2>1, <2>2
<1> QED
  BY <1>5, <1>6, <1>7 DEF Qualified

-----------------------------------------------------------------------------
(* The invariant is inductive.                                             *)

LEMMA InitInvariant == Init => LifecycleInvariant
<1> SUFFICES ASSUME Init PROVE LifecycleInvariant
  OBVIOUS
<1>1. <<>> \in Seq(Transition) /\ <<>> \in Seq(LifecycleRecord)
  OBVIOUS
<1>2. /\ lifecycle \in [Hypothesis -> LifecycleRecord \cup {None}]
      /\ history \in [Hypothesis -> Seq(Transition)]
      /\ events \in [Hypothesis -> Seq(Transition)]
      /\ versions \in [Hypothesis -> Seq(LifecycleRecord)]
  BY <1>1 DEF Init
<1>3. /\ committed = {} /\ restricted \in BOOLEAN
      /\ backup \in RecoveryState \cup {None}
      /\ original \in RecoveryState \cup {None}
      /\ losses \in 0..MaxLosses
  <2>1. committed = {} /\ restricted = FALSE /\ backup = None /\ original = None
    BY DEF Init
  <2>2. losses \in 0..MaxLosses
    BY LifecycleAssumption DEF Init, LifecycleAssumption, LifecycleConfiguration
  <2> QED
    BY <2>1, <2>2
<1>4. TypeOK
  BY <1>2, <1>3 DEF TypeOK
<1>5. SoundState(lifecycle, history, events)
  BY DEF Init, SoundState
<1> QED
  BY <1>4, <1>5 DEF Init, LifecycleInvariant, Remains

\* A call of transition that commits.
LEMMA MoveKeeps ==
  ASSUME LifecycleInvariant,
         NEW h \in Hypothesis, NEW to \in State, NEW expected \in Nat,
         NEW pre \in Precondition, NEW asOf \in Nat,
         Move(h, to, expected, pre, asOf)
  PROVE  LifecycleInvariant'
<1> DEFINE c == lifecycle[h]
           t == [seq |-> c.sequence + 1, from |-> c.state, to |-> to,
                 at |-> asOf, pre |-> pre, epoch |-> c.epoch]
<1>1. /\ c # None
      /\ c \in LifecycleRecord
      /\ history[h] \in Seq(Transition)
      /\ events[h] = history[h]
      /\ Consistent(c, history[h], history[h])
      /\ Qualified(c, history[h])
  BY DEF LifecycleInvariant, TypeOK, SoundState, Consistent, Move
<1>2. /\ lifecycle' = [lifecycle EXCEPT ![h] = Updated(c, to, asOf)]
      /\ history' = [history EXCEPT ![h] = Append(history[h], t)]
      /\ events' = [events EXCEPT ![h] = Append(events[h], t)]
      /\ versions' = [versions EXCEPT ![h] = Append(versions[h], Updated(c, to, asOf))]
      /\ committed' = committed \cup {Key(h, c.version, c.state, to, asOf)}
      /\ UNCHANGED <<restricted, outside>>
  BY DEF Move, Commit
<1>3. Updated(c, to, asOf) \in LifecycleRecord /\ t \in Transition
  BY <1>1, CommitTypes
<1>4. TypeOK'
  <2>1. /\ lifecycle' \in [Hypothesis -> LifecycleRecord \cup {None}]
        /\ history' \in [Hypothesis -> Seq(Transition)]
        /\ events' \in [Hypothesis -> Seq(Transition)]
        /\ versions' \in [Hypothesis -> Seq(LifecycleRecord)]
    <3>1. /\ Append(history[h], t) \in Seq(Transition)
          /\ Append(events[h], t) \in Seq(Transition)
          /\ Append(versions[h], Updated(c, to, asOf)) \in Seq(LifecycleRecord)
      BY <1>3 DEF LifecycleInvariant, TypeOK
    <3> QED
      BY <3>1, <1>2, <1>3 DEF LifecycleInvariant, TypeOK
  <2>2. \A k \in committed' : k.hypothesis \in Hypothesis /\ k.expected \in Nat
    <3>1. c.version \in Nat
      BY <1>1 DEF LifecycleRecord
    <3> QED
      BY <3>1, <1>2 DEF Key, LifecycleInvariant, TypeOK
  <2>3. /\ restricted' \in BOOLEAN
        /\ backup' \in RecoveryState \cup {None}
        /\ original' \in RecoveryState \cup {None}
        /\ losses' \in 0..MaxLosses
    BY <1>2 DEF LifecycleInvariant, TypeOK
  <2> QED
    BY <2>1, <2>2, <2>3 DEF TypeOK
<1>5. SoundState(lifecycle, history, events)'
  <2>1. to \in Legal[c.state] /\ Permitted(c, to, pre, asOf)
    BY DEF Move
  <2>2. /\ Consistent(Updated(c, to, asOf), Append(history[h], t), Append(history[h], t))
        /\ Qualified(Updated(c, to, asOf), Append(history[h], t))
    BY <1>1, <2>1, CommitKeeps
  <2>3. Updated(c, to, asOf) # None
    BY <1>3, LifecycleAssumption DEF LifecycleAssumption, LifecycleConfiguration
  <2>4. lifecycle'[h] = Updated(c, to, asOf) /\ history'[h] = Append(history[h], t)
        /\ events'[h] = Append(history[h], t)
    BY <1>1, <1>2 DEF LifecycleInvariant, TypeOK
  <2>5. \A g \in Hypothesis \ {h} : /\ lifecycle'[g] = lifecycle[g]
                                   /\ history'[g] = history[g]
                                   /\ events'[g] = events[g]
    BY <1>2 DEF LifecycleInvariant, TypeOK
  <2>6. ASSUME NEW g \in Hypothesis
        PROVE  IF lifecycle'[g] = None THEN history'[g] = <<>> /\ events'[g] = <<>>
               ELSE Consistent(lifecycle'[g], history'[g], events'[g])
                    /\ Qualified(lifecycle'[g], history'[g])
    <3>1. CASE g = h
      BY <3>1, <2>2, <2>3, <2>4
    <3>2. CASE g # h
      BY <3>2, <2>5 DEF LifecycleInvariant, SoundState
    <3> QED
      BY <3>1, <3>2
  <2> QED
    BY <2>6 DEF SoundState
<1>6. Remains'
  BY <1>2 DEF LifecycleInvariant, Remains
<1> QED
  BY <1>4, <1>5, <1>6 DEF LifecycleInvariant

LEMMA CreateKeeps ==
  ASSUME LifecycleInvariant,
         NEW h \in Hypothesis, NEW at \in Nat, NEW epoch \in Epoch,
         Create(h, at, epoch)
  PROVE  LifecycleInvariant'
<1> DEFINE c == [state |-> "PROPOSED", version |-> 0, sequence |-> 0, created |-> at,
                 updated |-> at, epoch |-> epoch]
<1>1. /\ lifecycle' = [lifecycle EXCEPT ![h] = c]
      /\ versions' = [versions EXCEPT ![h] = <<c>>]
      /\ lifecycle[h] = None
      /\ UNCHANGED <<history, events, committed, restricted, outside>>
  BY DEF Create
<1>2. c \in LifecycleRecord
  BY DEF LifecycleRecord, State
<1>3. history[h] = <<>> /\ events[h] = <<>>
  BY <1>1 DEF LifecycleInvariant, SoundState
<1>4. TypeOK'
  <2>1. <<c>> \in Seq(LifecycleRecord)
    BY <1>2
  <2>2. /\ lifecycle' \in [Hypothesis -> LifecycleRecord \cup {None}]
        /\ versions' \in [Hypothesis -> Seq(LifecycleRecord)]
    BY <1>1, <1>2, <2>1 DEF LifecycleInvariant, TypeOK
  <2> QED
    BY <1>1, <2>2 DEF LifecycleInvariant, TypeOK
<1>5. Consistent(c, <<>>, <<>>) /\ Qualified(c, <<>>)
  BY DEF Consistent, Qualified, LastState, Activated
<1>6. SoundState(lifecycle, history, events)'
  <2>1. c # None
    BY <1>2, LifecycleAssumption DEF LifecycleAssumption, LifecycleConfiguration
  <2>2. lifecycle'[h] = c /\ history'[h] = <<>> /\ events'[h] = <<>>
    BY <1>1, <1>3 DEF LifecycleInvariant, TypeOK
  <2>3. \A g \in Hypothesis \ {h} : /\ lifecycle'[g] = lifecycle[g]
                                   /\ history'[g] = history[g]
                                   /\ events'[g] = events[g]
    BY <1>1 DEF LifecycleInvariant, TypeOK
  <2>4. ASSUME NEW g \in Hypothesis
        PROVE  IF lifecycle'[g] = None THEN history'[g] = <<>> /\ events'[g] = <<>>
               ELSE Consistent(lifecycle'[g], history'[g], events'[g])
                    /\ Qualified(lifecycle'[g], history'[g])
    <3>1. CASE g = h
      BY <3>1, <1>5, <2>1, <2>2
    <3>2. CASE g # h
      BY <3>2, <2>3 DEF LifecycleInvariant, SoundState
    <3> QED
      BY <3>1, <3>2
  <2> QED
    BY <2>4 DEF SoundState
<1>7. Remains'
  BY <1>1 DEF LifecycleInvariant, Remains
<1> QED
  BY <1>4, <1>6, <1>7 DEF LifecycleInvariant

LEMMA TakeBackupKeeps ==
  ASSUME LifecycleInvariant, NEW epoch \in Epoch, TakeBackup(epoch)
  PROVE  LifecycleInvariant'
<1>1. /\ backup' = [epoch |-> epoch, lifecycle |-> lifecycle, history |-> history,
                    events |-> events, versions |-> versions]
      /\ original' = backup'
      /\ losses' = 0
      /\ UNCHANGED engine
  BY DEF TakeBackup
<1>2. backup' \in RecoveryState
  BY <1>1 DEF LifecycleInvariant, TypeOK, RecoveryState
<1>3. TypeOK'
  BY <1>1, <1>2, LifecycleAssumption
     DEF LifecycleInvariant, TypeOK, LifecycleAssumption, LifecycleConfiguration
<1>4. SoundState(lifecycle, history, events)'
  BY <1>1 DEF LifecycleInvariant, SoundState
<1>5. Remains'
  <2>1. original' # None
    BY <1>1, <1>2, LifecycleAssumption DEF LifecycleAssumption, LifecycleConfiguration
  <2>2. SoundState(original'.lifecycle, original'.history, original'.events)
    BY <1>1 DEF LifecycleInvariant
  <2>3. \A h \in Hypothesis :
          /\ backup'.lifecycle[h] \in {None, original'.lifecycle[h]}
          /\ Len(backup'.history[h]) <= Len(original'.history[h])
          /\ backup'.history[h] = original'.history[h]
    BY <1>1 DEF LifecycleInvariant, TypeOK
  <2> QED
    BY <2>1, <2>2, <2>3 DEF Remains
<1> QED
  BY <1>3, <1>4, <1>5 DEF LifecycleInvariant

\* A recovery state that restore accepts holds, of every lifecycle, the history
\* that was taken: its version counts the transitions, and a history of that
\* length has lost none.
LEMMA AcceptedWhole ==
  ASSUME LifecycleInvariant, NEW epoch \in Epoch, backup # None,
         Acceptable(backup, epoch), NEW h \in Hypothesis,
         backup.lifecycle[h] # None
  PROVE  /\ backup.lifecycle[h] = original.lifecycle[h]
         /\ backup.history[h] = original.history[h]
         /\ backup.events[h] = backup.history[h]
<1> DEFINE c == backup.lifecycle[h]
           ts == backup.history[h]
           es == backup.events[h]
<1>1. /\ c = original.lifecycle[h]
      /\ Len(ts) = Len(original.history[h]) => ts = original.history[h]
  BY DEF LifecycleInvariant, Remains
<1>2. Sound(c, ts, es, epoch)
  BY DEF Acceptable
<1>3. c.version = Len(original.history[h])
  BY <1>1 DEF LifecycleInvariant, Remains, SoundState, Consistent
<1>4. ts = original.history[h]
  BY <1>1, <1>2, <1>3 DEF Sound
<1>5. es = ts
  <2>1. backup \in RecoveryState
    BY DEF LifecycleInvariant, TypeOK
  <2>2. ts \in Seq(Transition) /\ es \in Seq(Transition)
    BY <2>1 DEF RecoveryState
  <2>3. Len(es) = Len(ts) /\ \A i \in DOMAIN ts : es[i] = ts[i]
    BY <1>2 DEF Sound
  <2>4. \A i \in 1..Len(es) : es[i] = ts[i]
    BY <2>2, <2>3
  <2> HIDE DEF es, ts
  <2> QED
    BY <2>2, <2>3, <2>4, SeqEqual
<1> QED
  BY <1>1, <1>4, <1>5

LEMMA RestoreKeeps ==
  ASSUME LifecycleInvariant, NEW epoch \in Epoch, RestoreAccepted(epoch)
  PROVE  LifecycleInvariant'
<1>1. /\ backup # None /\ Acceptable(backup, epoch)
      /\ lifecycle' = backup.lifecycle /\ history' = backup.history
      /\ events' = backup.events /\ versions' = backup.versions
      /\ committed' = {} /\ restricted' = FALSE
      /\ UNCHANGED outside
  BY DEF RestoreAccepted
<1>2. TypeOK'
  <2>1. backup \in RecoveryState
    BY <1>1 DEF LifecycleInvariant, TypeOK
  <2>2. /\ lifecycle' \in [Hypothesis -> LifecycleRecord \cup {None}]
        /\ history' \in [Hypothesis -> Seq(Transition)]
        /\ events' \in [Hypothesis -> Seq(Transition)]
        /\ versions' \in [Hypothesis -> Seq(LifecycleRecord)]
    BY <1>1, <2>1 DEF RecoveryState
  <2> QED
    BY <1>1, <2>2 DEF LifecycleInvariant, TypeOK
<1>3. SoundState(lifecycle, history, events)'
  <2>1. ASSUME NEW h \in Hypothesis
        PROVE  IF lifecycle'[h] = None THEN history'[h] = <<>> /\ events'[h] = <<>>
               ELSE Consistent(lifecycle'[h], history'[h], events'[h])
                    /\ Qualified(lifecycle'[h], history'[h])
    <3>1. CASE backup.lifecycle[h] = None
      BY <1>1, <3>1 DEF Acceptable
    <3>2. CASE backup.lifecycle[h] # None
      <4>1. /\ lifecycle'[h] = original.lifecycle[h]
            /\ history'[h] = original.history[h]
            /\ events'[h] = original.history[h]
        BY <1>1, <3>2, AcceptedWhole
      <4>2. /\ Consistent(original.lifecycle[h], original.history[h], original.history[h])
            /\ Qualified(original.lifecycle[h], original.history[h])
        BY <1>1, <3>2, <4>1 DEF LifecycleInvariant, Remains, SoundState, Consistent
      <4> QED
        BY <1>1, <3>2, <4>1, <4>2
    <3> QED
      BY <3>1, <3>2
  <2> QED
    BY <2>1 DEF SoundState
<1>4. Remains'
  BY <1>1 DEF LifecycleInvariant, Remains
<1> QED
  BY <1>2, <1>3, <1>4 DEF LifecycleInvariant

LEMMA RefusedKeeps ==
  ASSUME LifecycleInvariant, NEW epoch \in Epoch, RestoreRefused(epoch)
  PROVE  LifecycleInvariant'
<1>1. /\ restricted' = TRUE
      /\ UNCHANGED <<lifecycle, history, events, versions, committed, outside>>
  BY DEF RestoreRefused
<1>2. TypeOK'
  BY <1>1 DEF LifecycleInvariant, TypeOK
<1>3. SoundState(lifecycle, history, events)'
  BY <1>1 DEF LifecycleInvariant, SoundState
<1>4. Remains'
  BY <1>1 DEF LifecycleInvariant, Remains
<1> QED
  BY <1>2, <1>3, <1>4 DEF LifecycleInvariant

LEMMA RestartKeeps ==
  ASSUME LifecycleInvariant, Restart
  PROVE  LifecycleInvariant'
<1>1. /\ lifecycle' = [h \in Hypothesis |-> None]
      /\ history' = [h \in Hypothesis |-> <<>>]
      /\ events' = [h \in Hypothesis |-> <<>>]
      /\ versions' = [h \in Hypothesis |-> <<>>]
      /\ committed' = {} /\ restricted' = FALSE
      /\ backup' = None /\ original' = None /\ losses' = 0
  BY DEF Restart
<1>2. TypeOK'
  <2>1. /\ lifecycle' \in [Hypothesis -> LifecycleRecord \cup {None}]
        /\ history' \in [Hypothesis -> Seq(Transition)]
        /\ events' \in [Hypothesis -> Seq(Transition)]
        /\ versions' \in [Hypothesis -> Seq(LifecycleRecord)]
    BY <1>1
  <2>2. losses' \in 0..MaxLosses
    BY <1>1, LifecycleAssumption DEF LifecycleAssumption, LifecycleConfiguration
  <2>3. /\ \A k \in committed' : k.hypothesis \in Hypothesis /\ k.expected \in Nat
        /\ restricted' \in BOOLEAN
        /\ backup' \in RecoveryState \cup {None}
        /\ original' \in RecoveryState \cup {None}
    BY <1>1
  <2> QED
    BY <2>1, <2>2, <2>3 DEF TypeOK
<1>3. SoundState(lifecycle, history, events)'
  BY <1>1 DEF SoundState
<1>4. Remains'
  BY <1>1 DEF Remains
<1> QED
  BY <1>2, <1>3, <1>4 DEF LifecycleInvariant

LEMMA LoseRecordKeeps ==
  ASSUME LifecycleInvariant, NEW h \in Hypothesis, LoseRecord(h)
  PROVE  LifecycleInvariant'
<1>1. /\ backup # None /\ losses < MaxLosses /\ losses' = losses + 1
      /\ UNCHANGED <<engine, original>>
  BY DEF LoseRecord
<1>2. backup \in RecoveryState /\ original # None
  BY <1>1 DEF LifecycleInvariant, TypeOK, Remains
<1>3. /\ backup.lifecycle \in [Hypothesis -> LifecycleRecord \cup {None}]
      /\ backup.history \in [Hypothesis -> Seq(Transition)]
      /\ backup.events \in [Hypothesis -> Seq(Transition)]
  BY <1>2 DEF RecoveryState
<1>4. \A s \in Seq(Transition) : Ends(s) \subseteq DOMAIN s
  BY DEF Ends
<1>5. losses' \in 0..MaxLosses
  BY <1>1, LifecycleAssumption DEF LifecycleInvariant, TypeOK, LifecycleAssumption, LifecycleConfiguration
<1>6. SoundState(lifecycle, history, events)'
  BY <1>1 DEF LifecycleInvariant, SoundState
<1>7. /\ backup' \in RecoveryState
      /\ \A g \in Hypothesis :
           /\ backup'.lifecycle[g] \in {None, original.lifecycle[g]}
           /\ Len(backup'.history[g]) <= Len(original.history[g])
           /\ Len(backup'.history[g]) = Len(original.history[g]) =>
                backup'.history[g] = original.history[g]
  <2>1. CASE \E i \in Ends(backup.history[h]) :
               backup' = [backup EXCEPT !.history[h] = Without(@, i)]
    <3>1. PICK i \in Ends(backup.history[h]) :
                 backup' = [backup EXCEPT !.history[h] = Without(backup.history[h], i)]
      BY <2>1
    <3>2. /\ Without(backup.history[h], i) \in Seq(Transition)
          /\ Len(Without(backup.history[h], i)) = Len(backup.history[h]) - 1
      BY <1>3, <1>4, WithoutShorter
    <3>3. backup' \in RecoveryState
      BY <1>2, <3>1, <3>2 DEF RecoveryState
    <3>4. /\ backup'.lifecycle = backup.lifecycle
          /\ backup'.history = [backup.history EXCEPT ![h] = Without(backup.history[h], i)]
      BY <1>2, <3>1 DEF RecoveryState
    <3>5. original.history[h] \in Seq(Transition)
      BY <1>2 DEF LifecycleInvariant, TypeOK, RecoveryState
    <3>6. /\ Len(backup.history[h]) \in Nat /\ Len(original.history[h]) \in Nat
          /\ Len(backup.history[h]) <= Len(original.history[h])
      BY <1>1, <1>3, <3>5 DEF LifecycleInvariant, Remains
    <3>7. ASSUME NEW g \in Hypothesis
          PROVE  /\ Len(backup'.history[g]) <= Len(original.history[g])
                 /\ Len(backup'.history[g]) = Len(original.history[g]) =>
                      backup'.history[g] = original.history[g]
      <4>1. CASE g = h
        <5>1. backup'.history[g] = Without(backup.history[h], i)
          BY <1>3, <3>4, <4>1
        <5> QED
          BY <3>2, <3>6, <4>1, <5>1
      <4>2. CASE g # h
        <5>1. backup'.history[g] = backup.history[g]
          BY <1>3, <3>4, <4>2
        <5> QED
          BY <1>1, <5>1 DEF LifecycleInvariant, Remains
      <4> QED
        BY <4>1, <4>2
    <3> QED
      BY <1>1, <3>3, <3>4, <3>7 DEF LifecycleInvariant, Remains
  <2>2. CASE \E i \in Ends(backup.events[h]) :
               backup' = [backup EXCEPT !.events[h] = Without(@, i)]
    <3>1. PICK i \in Ends(backup.events[h]) :
                 backup' = [backup EXCEPT !.events[h] = Without(backup.events[h], i)]
      BY <2>2
    <3>2. Without(backup.events[h], i) \in Seq(Transition)
      BY <1>3, <1>4, WithoutShorter
    <3>3. backup' \in RecoveryState
      BY <1>2, <3>1, <3>2 DEF RecoveryState
    <3>4. backup'.lifecycle = backup.lifecycle /\ backup'.history = backup.history
      BY <1>2, <3>1 DEF RecoveryState
    <3> QED
      BY <1>1, <3>3, <3>4 DEF LifecycleInvariant, Remains
  <2>3. CASE backup' = [backup EXCEPT !.lifecycle[h] = None]
    <3>1. backup' \in RecoveryState
      BY <1>2, <2>3 DEF RecoveryState
    <3>2. /\ backup'.lifecycle = [backup.lifecycle EXCEPT ![h] = None]
          /\ backup'.history = backup.history
      BY <1>2, <2>3 DEF RecoveryState
    <3>3. \A g \in Hypothesis : backup'.lifecycle[g] \in {None, backup.lifecycle[g]}
      BY <1>3, <3>2
    <3> QED
      BY <1>1, <3>1, <3>2, <3>3 DEF LifecycleInvariant, Remains
  <2> QED
    BY <2>1, <2>2, <2>3 DEF LoseRecord
<1>8. TypeOK'
  BY <1>1, <1>5, <1>7 DEF LifecycleInvariant, TypeOK
<1>9. Remains'
  BY <1>1, <1>2, <1>7 DEF LifecycleInvariant, Remains
<1> QED
  BY <1>6, <1>8, <1>9 DEF LifecycleInvariant

LEMMA ExpireKeeps ==
  ASSUME LifecycleInvariant, NEW h \in Hypothesis, NEW asOf \in Nat,
         ExpireIfDue(h, asOf)
  PROVE  LifecycleInvariant'
<1>1. Move(h, "EXPIRED", lifecycle[h].version, FullEvidence(asOf), asOf)
  BY DEF ExpireIfDue
<1>2. "EXPIRED" \in State /\ FullEvidence(asOf) \in Precondition
  BY DEF State, FullEvidence, Precondition
<1>3. lifecycle[h] \in LifecycleRecord
  BY <1>1 DEF Move, LifecycleInvariant, TypeOK
<1>4. lifecycle[h].version \in Nat
  BY <1>3 DEF LifecycleRecord
<1> QED
  BY <1>1, <1>2, <1>4, MoveKeeps

LEMMA NextInvariant == LifecycleInvariant /\ [Next]_vars => LifecycleInvariant'
<1> SUFFICES ASSUME LifecycleInvariant, [Next]_vars PROVE LifecycleInvariant'
  OBVIOUS
<1>1. ASSUME Work PROVE LifecycleInvariant'
  <2>1. PICK h \in Hypothesis, asOf \in Time :
          \/ \E epoch \in Epoch : Create(h, asOf, epoch)
          \/ \E read \in DOMAIN versions[h] : \E pre \in Evidence, to \in State :
               Move(h, to, versions[h][read].version, pre, asOf)
          \/ ExpireIfDue(h, asOf)
    BY <1>1 DEF Work
  <2>2. asOf \in Nat
    BY LifecycleAssumption DEF LifecycleAssumption, LifecycleConfiguration, Time
  <2>3. CASE \E epoch \in Epoch : Create(h, asOf, epoch)
    BY <2>2, <2>3, CreateKeeps
  <2>4. CASE \E read \in DOMAIN versions[h] : \E pre \in Evidence, to \in State :
               Move(h, to, versions[h][read].version, pre, asOf)
    <3>1. PICK read \in DOMAIN versions[h], pre \in Evidence, to \in State :
            Move(h, to, versions[h][read].version, pre, asOf)
      BY <2>4
    <3>2. versions[h] \in Seq(LifecycleRecord)
      BY DEF LifecycleInvariant, TypeOK
    <3>3. versions[h][read] \in LifecycleRecord
      BY <3>2
    <3>4. versions[h][read].version \in Nat
      BY <3>3 DEF LifecycleRecord
    <3>5. pre \in Precondition
      BY LifecycleAssumption DEF LifecycleAssumption, LifecycleConfiguration
    <3> QED
      BY <2>2, <3>1, <3>4, <3>5, MoveKeeps
  <2>5. CASE ExpireIfDue(h, asOf)
    BY <2>2, <2>5, ExpireKeeps
  <2> QED
    BY <2>1, <2>3, <2>4, <2>5
<1>2. ASSUME NEW epoch \in Epoch, TakeBackup(epoch) PROVE LifecycleInvariant'
  BY <1>2, TakeBackupKeeps
<1>3. ASSUME NEW epoch \in Epoch, RestoreAccepted(epoch) PROVE LifecycleInvariant'
  BY <1>3, RestoreKeeps
<1>4. ASSUME NEW epoch \in Epoch, RestoreRefused(epoch) PROVE LifecycleInvariant'
  BY <1>4, RefusedKeeps
<1>5. CASE Restart
  BY <1>5, RestartKeeps
<1>6. ASSUME NEW h \in Hypothesis, LoseRecord(h) PROVE LifecycleInvariant'
  BY <1>6, LoseRecordKeeps
<1>7. CASE UNCHANGED vars
  BY <1>7 DEF vars, LifecycleInvariant, TypeOK, SoundState, Remains
<1> QED
  BY <1>1, <1>2, <1>3, <1>4, <1>5, <1>6, <1>7 DEF Next

-----------------------------------------------------------------------------
(* Theorems of the specification.                                          *)

\* The lifecycle engine's records fit together at every step, and say of every
\* activated lifecycle how it came there; a stored state is what remains of a
\* state that was so.
THEOREM InvariantHolds == Spec => []LifecycleInvariant
<1>1. Init => LifecycleInvariant
  BY InitInvariant
<1>2. LifecycleInvariant /\ [Next]_vars => LifecycleInvariant'
  BY NextInvariant
<1> QED
  BY <1>1, <1>2, PTL DEF Spec

\* Every variable of the engine and of the stored state keeps its type.
THEOREM LifecycleTyped == Spec => []TypeOK
<1>1. LifecycleInvariant => TypeOK
  BY DEF LifecycleInvariant
<1> QED
  BY <1>1, InvariantHolds, PTL

\* reconcile finds every lifecycle consistent, in any run of calls, restarts
\* and restores from damaged states.
THEOREM AlwaysReconciled == Spec => []Reconciled
<1>1. LifecycleInvariant => Reconciled
  <2> SUFFICES ASSUME LifecycleInvariant, NEW h \in Live
               PROVE  Issues(lifecycle[h], history[h], events[h]) = {}
    BY DEF Reconciled
  <2>1. Consistent(lifecycle[h], history[h], events[h])
    BY DEF LifecycleInvariant, SoundState, Live
  <2> QED
    BY <2>1 DEF Consistent, Issues
<1> QED
  BY <1>1, InvariantHolds, PTL

\* No lifecycle is activated but after an authorization on sufficient evidence.
THEOREM ActivationQualified == Spec => []ActivatedWasAuthorized
<1>1. LifecycleInvariant => ActivatedWasAuthorized
  <2> SUFFICES ASSUME LifecycleInvariant, NEW h \in Live,
                      lifecycle[h].state \in Activated
               PROVE  \E i, j \in DOMAIN history[h] :
                        i < j /\ Authorization(history[h][i]) /\ Activation(history[h][j])
    BY DEF ActivatedWasAuthorized, Authorization, Activation
  <2> QED
    BY DEF LifecycleInvariant, SoundState, Live, Qualified
<1> QED
  BY <1>1, InvariantHolds, PTL

\* An accepted restore brings every lifecycle back whole or not at all.
THEOREM RestoresFaithfully == Spec => RestoreFaithful
<1> DEFINE Faithful(h) ==
             \/ lifecycle'[h] = original.lifecycle[h] /\ history'[h] = original.history[h]
             \/ lifecycle'[h] = None /\ history'[h] = <<>>
           Restored == backup' # None /\ history' # history /\ committed' = {} /\ ~restricted'
<1>1. LifecycleInvariant /\ [Next]_vars =>
        [Restored => \A h \in Hypothesis : Faithful(h)]_vars
  <2> SUFFICES ASSUME LifecycleInvariant, Next, Restored, NEW h \in Hypothesis
               PROVE  Faithful(h)
    OBVIOUS
  <2>1. PICK epoch \in Epoch : RestoreAccepted(epoch)
    <3>1. ASSUME NEW g \in Hypothesis, NEW asOf \in Time, NEW epoch \in Epoch,
                 Create(g, asOf, epoch)
          PROVE  FALSE
      BY <3>1 DEF Create
    <3>2. ASSUME NEW g \in Hypothesis, NEW to, NEW expected, NEW pre, NEW asOf,
                 Move(g, to, expected, pre, asOf)
          PROVE  FALSE
      BY <3>2 DEF Move, Commit
    <3>3. ASSUME NEW g \in Hypothesis, NEW asOf \in Time, ExpireIfDue(g, asOf)
          PROVE  FALSE
      BY <3>2, <3>3 DEF ExpireIfDue
    <3>4. ~Work
      BY <3>1, <3>2, <3>3 DEF Work
    <3>5. ASSUME NEW epoch \in Epoch, TakeBackup(epoch) PROVE FALSE
      BY <3>5 DEF TakeBackup
    <3>6. ASSUME NEW epoch \in Epoch, RestoreRefused(epoch) PROVE FALSE
      BY <3>6 DEF RestoreRefused
    <3>7. ~Restart
      BY DEF Restart
    <3>8. ASSUME NEW g \in Hypothesis, LoseRecord(g) PROVE FALSE
      BY <3>8 DEF LoseRecord
    <3> QED
      BY <3>4, <3>5, <3>6, <3>7, <3>8 DEF Next
  <2>2. /\ backup # None /\ Acceptable(backup, epoch)
        /\ lifecycle' = backup.lifecycle /\ history' = backup.history
    BY <2>1 DEF RestoreAccepted
  <2>3. CASE backup.lifecycle[h] = None
    BY <2>2, <2>3 DEF Acceptable
  <2>4. CASE backup.lifecycle[h] # None
    BY <2>2, <2>4, AcceptedWhole
  <2> QED
    BY <2>3, <2>4
<1>2. Spec => [][Restored => \A h \in Hypothesis : Faithful(h)]_vars
  BY <1>1, InvariantHolds, PTL DEF Spec
<1> QED
  BY <1>2 DEF RestoreFaithful

-----------------------------------------------------------------------------
(* What a snapshot shows.                                                  *)

\* The order of the natural numbers, as a set of pairs.
Smaller == {pair \in Nat \X Nat : pair[1] < pair[2]}

LEMMA SmallerWellFounded == IsWellFoundedOn(Smaller, Nat)
BY NatLessThanWellFounded DEF OpToRel, Smaller

\* Induction over the natural numbers, for a set.
LEMMA InductiveSet ==
  ASSUME NEW P, 0 \in P, \A n \in Nat : n \in P => n + 1 \in P
  PROVE  Nat \subseteq P
<1>1. SUFFICES ASSUME Nat \ P # {} PROVE FALSE
  OBVIOUS
<1>2. PICK n \in Nat \ P : \A m \in Nat \ P : ~(<<m, n>> \in Smaller)
  BY <1>1, SmallerWellFounded, WFMin
<1>3. n # 0 /\ n - 1 \in Nat /\ n - 1 \in P => FALSE
  BY <1>2
<1>4. n # 0 /\ n - 1 \in Nat /\ n - 1 < n
  BY <1>2
<1>5. <<n - 1, n>> \in Smaller
  <2>1. <<n - 1, n>> \in Nat \X Nat
    BY <1>2, <1>4
  <2>2. QED
    BY <1>4, <2>1 DEF Smaller
<1>6. QED
  BY <1>2, <1>3, <1>4, <1>5

\* Of the natural numbers f gives to some positions of a sequence, one is the highest.
LEMMA HighestOf ==
  ASSUME NEW n \in Nat, NEW f \in [1..n -> Nat], NEW K \in SUBSET (1..n), K # {}
  PROVE  \E i \in K : \A j \in K : f[j] <= f[i]
<1> DEFINE P == {m \in Nat : m <= n =>
                   \A S \in SUBSET (1..m) : S # {} => \E i \in S : \A j \in S : f[j] <= f[i]}
<1>1. 0 \in P
  <2>1. 1..0 = {}
    OBVIOUS
  <2>2. QED
    BY <2>1
<1>2. ASSUME NEW m \in Nat, m \in P PROVE m + 1 \in P
  <2>1. SUFFICES ASSUME m + 1 <= n, NEW S \in SUBSET (1..(m + 1)), S # {}
                 PROVE  \E i \in S : \A j \in S : f[j] <= f[i]
    OBVIOUS
  <2>2. \A j \in S : f[j] \in Nat /\ j \in 1..n
    BY <2>1
  <2>3. CASE S \cap 1..m = {}
    <3>1. \A j \in S : j = m + 1
      BY <2>1, <2>3
    <3>2. m + 1 \in S /\ f[m + 1] \in Nat
      BY <2>1, <2>2, <3>1
    <3>3. QED
      BY <3>1, <3>2
  <2>4. CASE S \cap 1..m # {}
    <3>1. PICK i \in S \cap 1..m : \A j \in S \cap 1..m : f[j] <= f[i]
      <4>1. m <= n /\ S \cap 1..m \in SUBSET (1..m)
        BY <2>1
      <4>2. QED
        BY <1>2, <2>4, <4>1
    <3>2. \A j \in S : j \in 1..m \/ j = m + 1
      BY <2>1
    <3>3. CASE m + 1 \in S /\ f[m + 1] > f[i]
      <4>1. \A j \in S : f[j] <= f[m + 1]
        BY <2>2, <3>1, <3>2, <3>3
      <4>2. QED
        BY <3>3, <4>1
    <3>4. CASE ~(m + 1 \in S /\ f[m + 1] > f[i])
      <4>1. \A j \in S : f[j] <= f[i]
        BY <2>2, <3>1, <3>2, <3>4
      <4>2. QED
        BY <3>1, <4>1
    <3>5. QED
      BY <3>3, <3>4
  <2>5. QED
    BY <2>3, <2>4
<1>3. Nat \subseteq P
  <2> HIDE DEF P
  <2> QED
    BY <1>1, <1>2, InductiveSet
<1>4. n \in P
  BY <1>3
<1>5. QED
  BY <1>4

\* A version and a transition of a later time change nothing that a snapshot says.
LEMMA LaterUnseen ==
  ASSUME TypeOK, NEW h \in Hypothesis, NEW asOf \in Nat, NEW c \in LifecycleRecord,
         NEW t \in Transition, c.updated > asOf, t.at > asOf,
         versions'[h] = Append(versions[h], c), history'[h] = Append(history[h], t)
  PROVE  Snapshot(h, asOf)' = Snapshot(h, asOf)
<1> DEFINE vs    == versions[h]
           ws    == versions'[h]
           known == {i \in DOMAIN vs : vs[i].updated <= asOf}
           after == {i \in DOMAIN ws : ws[i].updated <= asOf}
           last  == CHOOSE i \in known : \A j \in known : vs[j].version <= vs[i].version
           later == CHOOSE i \in after : \A j \in after : ws[j].version <= ws[i].version
           seen(v) == {i \in DOMAIN history[h] :
                         history[h][i].at <= asOf /\ history[h][i].seq <= v.sequence}
           now(v)  == {i \in DOMAIN history'[h] :
                         history'[h][i].at <= asOf /\ history'[h][i].seq <= v.sequence}
<1>1. vs \in Seq(LifecycleRecord) /\ history[h] \in Seq(Transition)
  BY DEF TypeOK
<1>2. c.updated \in Nat /\ t.at \in Nat
  BY DEF LifecycleRecord, Transition
<1>3. /\ DOMAIN vs = 1..Len(vs) /\ DOMAIN ws = 1..(Len(vs) + 1) /\ Len(vs) \in Nat
      /\ ws[Len(vs) + 1] = c /\ \A i \in DOMAIN vs : ws[i] = vs[i]
  BY <1>1
<1>4. /\ Snapshot(h, asOf) = IF known = {} THEN None
                            ELSE [record |-> vs[last], transitions |-> seen(vs[last])]
      /\ Snapshot(h, asOf)' = IF after = {} THEN None
                             ELSE [record |-> ws[later], transitions |-> now(ws[later])]
  BY DEF Snapshot
<1>5. \A v : now(v) = seen(v)
  <2>1. ~(t.at <= asOf)
    BY <1>2
  <2>2. /\ DOMAIN history[h] = 1..Len(history[h]) /\ Len(history[h]) \in Nat
        /\ DOMAIN history'[h] = 1..(Len(history[h]) + 1)
        /\ history'[h][Len(history[h]) + 1] = t
        /\ \A i \in DOMAIN history[h] : history'[h][i] = history[h][i]
    BY <1>1
  <2>3. QED
    BY <2>1, <2>2
<1>6. after = known
  <2>1. ~(c.updated <= asOf)
    BY <1>2
  <2>2. QED
    BY <1>3, <2>1
<1>7. known \subseteq DOMAIN vs
  OBVIOUS
<1>8. \A i \in known : ws[i] = vs[i]
  BY <1>3
<1> HIDE DEF known, after, vs, ws
<1>9. later = last
  BY <1>6, <1>8, Zenon
<1>10. known # {} => last \in known
  <2>1. SUFFICES ASSUME known # {}
                 PROVE  \E i \in known : \A j \in known : vs[j].version <= vs[i].version
    OBVIOUS
  <2> DEFINE f == [i \in 1..Len(vs) |-> vs[i].version]
  <2>2. \A i \in 1..Len(vs) : vs[i] \in LifecycleRecord
    BY <1>1, <1>3
  <2>3. f \in [1..Len(vs) -> Nat]
    BY <2>2 DEF LifecycleRecord
  <2>4. known \in SUBSET (1..Len(vs))
    BY <1>3, <1>7
  <2>5. \A i \in known : f[i] = vs[i].version
    BY <2>4
  <2> HIDE DEF f
  <2>6. \E i \in known : \A j \in known : f[j] <= f[i]
    BY <1>3, <2>1, <2>3, <2>4, HighestOf
  <2>7. QED
    BY <2>5, <2>6
<1>11. known # {} => ws[later] = vs[last]
  BY <1>8, <1>9, <1>10
<1> HIDE DEF seen, now, last, later
<1>12. QED
  BY <1>4, <1>5, <1>6, <1>11

\* A transition that is committed leaves what a snapshot says of earlier times.
LEMMA MoveFreezes ==
  ASSUME LifecycleInvariant, NEW g \in Hypothesis, NEW to \in State, NEW expected,
         NEW pre \in Precondition, NEW now \in Time, Move(g, to, expected, pre, now),
         NEW h \in Live, NEW asOf \in Time, asOf < lifecycle[h].updated
  PROVE  Snapshot(h, asOf)' = Snapshot(h, asOf)
<1> DEFINE c == lifecycle[g]
           t == [seq |-> c.sequence + 1, from |-> c.state, to |-> to, at |-> now,
                 pre |-> pre, epoch |-> c.epoch]
<1>1. /\ TypeOK /\ c \in LifecycleRecord /\ h \in Hypothesis /\ asOf \in Nat /\ now \in Nat
      /\ c.updated <= now /\ c.updated \in Nat
  <2>1. c \in LifecycleRecord
    BY DEF Move, LifecycleInvariant, TypeOK
  <2>2. c.updated <= now
    BY DEF Move, Permitted
  <2>3. QED
    BY <2>1, <2>2 DEF LifecycleInvariant, Live, Time, LifecycleRecord
<1>2. /\ history' = [history EXCEPT ![g] = Append(history[g], t)]
      /\ versions' = [versions EXCEPT ![g] = Append(versions[g], Updated(c, to, now))]
  BY DEF Move, Commit
<1>3. Updated(c, to, now) \in LifecycleRecord /\ t \in Transition
  BY <1>1, CommitTypes
<1>4. Updated(c, to, now).updated = now /\ t.at = now
  BY <1>1 DEF Updated, LifecycleRecord
<1>5. CASE h = g
  <2>1. now > asOf
    BY <1>1, <1>5
  <2>2. /\ versions'[h] = Append(versions[h], Updated(c, to, now))
        /\ history'[h] = Append(history[h], t)
    BY <1>1, <1>2, <1>5 DEF TypeOK
  <2> HIDE DEF t
  <2>3. QED
    BY <1>1, <1>3, <1>4, <2>1, <2>2, LaterUnseen
<1>6. CASE h # g
  <2>1. versions'[h] = versions[h] /\ history'[h] = history[h]
    BY <1>1, <1>2, <1>6 DEF TypeOK
  <2>2. QED
    BY <2>1 DEF Snapshot
<1>7. QED
  BY <1>5, <1>6

\* What a snapshot says of a time before the last update is final, whatever
\* transitions are committed later, in any order of calls, restarts and restores.
THEOREM SnapshotsAreFinal == Spec => SnapshotsFrozen
<1> DEFINE Frozen == \A h \in Live, asOf \in Time :
                       asOf < lifecycle[h].updated => Snapshot(h, asOf)' = Snapshot(h, asOf)
           Commits == committed' # committed /\ committed \subseteq committed'
<1>1. LifecycleInvariant /\ [Next]_vars => [Commits => Frozen]_vars
  <2> SUFFICES ASSUME LifecycleInvariant, Next, Commits PROVE Frozen
    OBVIOUS
  <2>1. ASSUME NEW g \in Hypothesis, NEW to \in State, NEW expected,
               NEW pre \in Precondition, NEW now \in Time, Move(g, to, expected, pre, now)
        PROVE  Frozen
    BY <2>1, MoveFreezes
  <2> HIDE DEF Frozen
  <2>2. ASSUME Work PROVE Frozen
    <3>1. PICK g \in Hypothesis, now \in Time :
            \/ \E epoch \in Epoch : Create(g, now, epoch)
            \/ \E read \in DOMAIN versions[g] : \E pre \in Evidence, to \in State :
                 Move(g, to, versions[g][read].version, pre, now)
            \/ ExpireIfDue(g, now)
      BY <2>2 DEF Work
    <3>2. ~\E epoch \in Epoch : Create(g, now, epoch)
      BY DEF Create
    <3>3. CASE \E read \in DOMAIN versions[g] : \E pre \in Evidence, to \in State :
                 Move(g, to, versions[g][read].version, pre, now)
      BY <2>1, <3>3, LifecycleAssumption DEF LifecycleAssumption
    <3>4. CASE ExpireIfDue(g, now)
      <4>1. Move(g, "EXPIRED", lifecycle[g].version, FullEvidence(now), now)
        BY <3>4 DEF ExpireIfDue
      <4>2. "EXPIRED" \in State /\ FullEvidence(now) \in Precondition
        BY DEF State, FullEvidence, Precondition, Time
      <4>3. QED
        BY <2>1, <4>1, <4>2
    <3>5. QED
      BY <3>1, <3>2, <3>3, <3>4
  <2>3. ASSUME NEW epoch \in Epoch, TakeBackup(epoch) PROVE FALSE
    BY <2>3 DEF TakeBackup
  <2>4. ASSUME NEW epoch \in Epoch, RestoreAccepted(epoch) PROVE FALSE
    BY <2>4 DEF RestoreAccepted
  <2>5. ASSUME NEW epoch \in Epoch, RestoreRefused(epoch) PROVE FALSE
    BY <2>5 DEF RestoreRefused
  <2>6. ~Restart
    BY DEF Restart
  <2>7. ASSUME NEW h \in Hypothesis, LoseRecord(h) PROVE FALSE
    BY <2>7 DEF LoseRecord
  <2>8. QED
    BY <2>2, <2>3, <2>4, <2>5, <2>6, <2>7 DEF Next
<1>2. Spec => [][Commits => Frozen]_vars
  BY <1>1, InvariantHolds, PTL DEF Spec
<1>3. QED
  BY <1>2 DEF SnapshotsFrozen
=============================================================================
