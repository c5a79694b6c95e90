------------------------- MODULE Operations_proofs -------------------------
(***************************************************************************)
(* Six engines of the operations: that the forward-only ledger is sound,   *)
(* that a severe report holds the permission of a deployment, that alarms  *)
(* are heard, that the journal and its files are kept, that recoveries of  *)
(* observation quality are confirmed, that the layers of a configuration   *)
(* weaken nothing.                                                         *)
(***************************************************************************)
EXTENDS ForwardOps, Deployment, Observability, ObservationQuality, ConfigEngine,
        FiniteSetTheorems, SequenceTheorems, WellFoundedInduction, TLAPS

-----------------------------------------------------------------------------
(* Forward operations: the ledger of a shadow run.                         *)

\* What a heartbeat notes.
Beat == [id : Time \X OperationalHealth \X Nat]

\* The control fields of an engine are typed.
Controlled(e) ==
  /\ e = [environment |-> e.environment, token |-> e.token, health |-> e.health,
          paused |-> e.paused, clock |-> e.clock, restricted |-> e.restricted,
          sessions |-> e.sessions, listed |-> e.listed, observations |-> e.observations,
          decisions |-> e.decisions, promotions |-> e.promotions, heartbeats |-> e.heartbeats]
  /\ e.token \in Tokens \cup {None} /\ e.health \in OperationalHealth
  /\ e.environment \in BOOLEAN /\ e.paused \in BOOLEAN /\ e.restricted \in BOOLEAN
  /\ e.clock \in Time \cup {None}

\* The records are typed, observations stand in the order of their numbers, and
\* a decision was made forward and has the identity of its session and observation.
Recorded(e) ==
  /\ e.sessions \subseteq Sessions
  /\ e.listed \in [Sessions -> Seq(Observations)]
  /\ e.observations \in Seq(Observations) /\ Len(e.observations) <= MaxObservations
  /\ e.decisions \in Seq(ForwardShadowDecision)
  /\ \A i, j \in 1..Len(e.observations) :
       i < j /\ e.observations[i].source = e.observations[j].source
       => e.observations[i].number < e.observations[j].number
  /\ \A i \in 1..Len(e.decisions) :
       LET d == e.decisions[i]
       IN /\ d.observation.observed > d.session.cutoff
          /\ d.observation.available <= d.asOf
          /\ d.id = <<d.session.id, d.observation.id>>

\* The heartbeats are bounded.
Beaten(e) == e.heartbeats \in Seq(Beat) /\ Len(e.heartbeats) <= MaxBeats

\* Every observation has one decision, in the session that lists it.
Decided(e) ==
  /\ Len(e.decisions) = Len(e.observations)
  /\ \A i \in 1..Len(e.decisions) :
       /\ e.decisions[i].observation = e.observations[i]
       /\ \E k \in 1..Len(e.listed[e.decisions[i].session]) :
            e.listed[e.decisions[i].session][k] = e.observations[i]

\* The inductive invariant: a recovery state is as whole as the engine was.
OpsInvariant ==
  /\ opsLosses \in 0..MaxLosses
  /\ Controlled(ops) /\ Recorded(ops) /\ Beaten(ops)
  /\ ~ops.restricted => OpsReconciled(ops)
  /\ opsLosses = 0 => Decided(ops)
  /\ opsSaved # None =>
       /\ opsSaved = [environment |-> opsSaved.environment, sessions |-> opsSaved.sessions,
                      listed |-> opsSaved.listed, observations |-> opsSaved.observations,
                      decisions |-> opsSaved.decisions, promotions |-> opsSaved.promotions,
                      heartbeats |-> opsSaved.heartbeats]
       /\ opsSaved.environment \in BOOLEAN
       /\ Recorded(opsSaved) /\ Beaten(opsSaved)
       /\ opsLosses = 0 => Decided(opsSaved)

\* The records of another are the same.
SameRecords(e, f) ==
  /\ e.sessions = f.sessions /\ e.listed = f.listed
  /\ e.observations = f.observations /\ e.decisions = f.decisions

\* What is said of the records of one is true of the same records in another.
LEMMA SameFacts ==
  ASSUME NEW e, NEW f, SameRecords(e, f)
  PROVE  /\ Recorded(e) <=> Recorded(f)
         /\ Decided(e) <=> Decided(f)
         /\ OpsReconciled(e) <=> OpsReconciled(f)
BY DEF SameRecords, Recorded, Decided, OpsReconciled

\* An engine without records.
LEMMA FreshRecorded ==
  /\ Controlled(FreshOps) /\ Recorded(FreshOps) /\ Beaten(FreshOps)
  /\ Decided(FreshOps) /\ OpsReconciled(FreshOps)
<1>1. FreshOps = [environment |-> FreshOps.environment, token |-> FreshOps.token,
          health |-> FreshOps.health,
          paused |-> FreshOps.paused, clock |-> FreshOps.clock, restricted |-> FreshOps.restricted,
          sessions |-> FreshOps.sessions, listed |-> FreshOps.listed,
          observations |-> FreshOps.observations, decisions |-> FreshOps.decisions,
          promotions |-> FreshOps.promotions, heartbeats |-> FreshOps.heartbeats]
  BY DEF FreshOps
<1>2. /\ FreshOps.token = None /\ FreshOps.clock = None /\ FreshOps.health = "RECOVERY_PENDING"
      /\ FreshOps.environment = FALSE /\ FreshOps.paused = TRUE /\ FreshOps.restricted = FALSE
  BY DEF FreshOps
<1>3. /\ FreshOps.sessions = {} /\ FreshOps.listed = [s \in Sessions |-> <<>>]
      /\ FreshOps.observations = <<>> /\ FreshOps.decisions = <<>>
      /\ FreshOps.heartbeats = <<>>
  BY DEF FreshOps
<1>4. /\ <<>> \in Seq(Observations) /\ <<>> \in Seq(ForwardShadowDecision) /\ <<>> \in Seq(Beat)
      /\ Len(<<>>) = 0
  OBVIOUS
<1>5. MaxObservations \in Nat /\ MaxBeats \in Nat
  BY OpsAssumption DEF OpsAssumption, OperationsConfiguration
<1>6. Controlled(FreshOps)
  <2>1. "RECOVERY_PENDING" \in OperationalHealth
    BY DEF OperationalHealth
  <2>2. QED
    BY <1>1, <1>2, <2>1 DEF Controlled
<1>7. Recorded(FreshOps)
  <2>1. FreshOps.listed \in [Sessions -> Seq(Observations)]
    BY <1>3, <1>4
  <2>2. Len(FreshOps.observations) = 0 /\ Len(FreshOps.decisions) = 0
    BY <1>3, <1>4
  <2>3. QED
    BY <1>3, <1>4, <1>5, <2>1, <2>2 DEF Recorded
<1>8. Beaten(FreshOps)
  BY <1>3, <1>4, <1>5 DEF Beaten
<1>9. Decided(FreshOps) /\ OpsReconciled(FreshOps)
  BY <1>3 DEF Decided, OpsReconciled
<1>10. QED
  BY <1>6, <1>7, <1>8, <1>9

\* Forward operations begin without records.
LEMMA InitOps == OpsInit => OpsInvariant
<1>1. 0 \in 0..MaxLosses
  BY EvidenceAssumption DEF EvidenceAssumption
<1>2. QED
  BY <1>1, FreshRecorded DEF OpsInit, OpsInvariant

\* A call that keeps the records.
LEMMA ControlKeeps ==
  ASSUME OpsInvariant, Controlled(ops)', SameRecords(ops', ops), Beaten(ops)',
         ops.restricted => ops'.restricted,
         opsSaved' = opsSaved \/ opsSaved' = None, UNCHANGED opsLosses
  PROVE  OpsInvariant'
<1>1. /\ Recorded(ops') /\ (opsLosses = 0 => Decided(ops'))
      /\ ~ops.restricted => OpsReconciled(ops')
  BY SameFacts DEF OpsInvariant
<1>2. QED
  BY <1>1 DEF OpsInvariant

\* After a call the control fields are these, and the records and heartbeats the same.
Living(environment, token, health, paused, time, restricted) ==
  ops' = [environment |-> environment, token |-> token, health |-> health,
          paused |-> paused, clock |-> time, restricted |-> restricted,
          sessions |-> ops.sessions, listed |-> ops.listed,
          observations |-> ops.observations, decisions |-> ops.decisions,
          promotions |-> ops'.promotions, heartbeats |-> ops.heartbeats]

\* They are typed, and nothing lifts a restriction.
LifeTyped(environment, token, health, paused, time, restricted) ==
  /\ environment \in BOOLEAN /\ token \in Tokens \cup {None}
  /\ health \in OperationalHealth /\ paused \in BOOLEAN
  /\ time \in Time \cup {None} /\ restricted \in BOOLEAN
  /\ ops.restricted => restricted

\* The recovery state is as it was, or used up.
SavedKept == (opsSaved' = opsSaved \/ opsSaved' = None) /\ opsLosses' = opsLosses

\* The calls that start, stop, pause or restrict an instance, and promote.
LEMMA LifeKeeps ==
  ASSUME OpsInvariant,
         \/ \E t \in Tokens, at \in Time : Startup(t, at)
         \/ \E t \in Tokens : StartupInvalid(t)
         \/ ShutdownOps \/ Pause \/ Resume \/ StorageLow
         \/ RestoreOpsIncompatible
         \/ \E r \in PromotionRequests : Promote(r)
  PROVE  OpsInvariant'
<1>1. /\ Controlled(ops) /\ Beaten(ops)
      /\ ops.token \in Tokens \cup {None} /\ ops.health \in OperationalHealth
      /\ ops.environment \in BOOLEAN /\ ops.paused \in BOOLEAN /\ ops.restricted \in BOOLEAN
      /\ ops.clock \in Time \cup {None}
  BY DEF OpsInvariant, Controlled
<1>2. /\ "HEALTHY" \in OperationalHealth /\ "RESTRICTED" \in OperationalHealth
      /\ "RECOVERY_PENDING" \in OperationalHealth /\ "FAILED" \in OperationalHealth
  BY DEF OperationalHealth
<1>3. ASSUME NEW environment, NEW token, NEW health, NEW paused, NEW time, NEW restricted,
             LifeTyped(environment, token, health, paused, time, restricted),
             Living(environment, token, health, paused, time, restricted), SavedKept
      PROVE  OpsInvariant'
  <2>1. /\ ops'.environment = environment /\ ops'.token = token /\ ops'.health = health
        /\ ops'.paused = paused /\ ops'.clock = time /\ ops'.restricted = restricted
        /\ ops'.sessions = ops.sessions /\ ops'.listed = ops.listed
        /\ ops'.observations = ops.observations /\ ops'.decisions = ops.decisions
        /\ ops'.heartbeats = ops.heartbeats
    BY <1>3 DEF Living
  <2>2. SameRecords(ops', ops) /\ Beaten(ops)' /\ (ops.restricted => ops'.restricted)
    BY <1>1, <1>3, <2>1 DEF SameRecords, Beaten, LifeTyped
  <2>3. Controlled(ops)'
    BY <1>3, <2>1 DEF Controlled, Living, LifeTyped
  <2>4. QED
    BY <1>3, <2>2, <2>3, ControlKeeps DEF SavedKept
<1>4. CASE \E t \in Tokens, at \in Time : Startup(t, at)
  <2>1. PICK t \in Tokens, at \in Time : Startup(t, at)
    BY <1>4
  <2>2. Living(TRUE, t, "HEALTHY", FALSE, at, ops.restricted)
    BY <1>1, <2>1 DEF Startup, Controlled, Living
  <2>3. LifeTyped(TRUE, t, "HEALTHY", FALSE, at, ops.restricted) /\ SavedKept
    BY <1>1, <1>2, <2>1 DEF Startup, LifeTyped, SavedKept
  <2>4. QED
    BY <1>3, <2>2, <2>3
<1>5. CASE \E t \in Tokens : StartupInvalid(t)
  <2>1. PICK t \in Tokens : StartupInvalid(t)
    BY <1>5
  <2>2. Living(ops.environment, ops.token, "FAILED", ops.paused, ops.clock, ops.restricted)
    BY <1>1, <2>1 DEF StartupInvalid, Controlled, Living
  <2>3. LifeTyped(ops.environment, ops.token, "FAILED", ops.paused, ops.clock, ops.restricted) /\ SavedKept
    BY <1>1, <1>2, <2>1 DEF StartupInvalid, LifeTyped, SavedKept
  <2>4. QED
    BY <1>3, <2>2, <2>3
<1>6. CASE ShutdownOps
  <2>1. Living(ops.environment, None, ops.health, TRUE, ops.clock, ops.restricted)
    BY <1>1, <1>6 DEF ShutdownOps, Controlled, Living
  <2>2. LifeTyped(ops.environment, None, ops.health, TRUE, ops.clock, ops.restricted) /\ SavedKept
    BY <1>1, <1>2, <1>6 DEF ShutdownOps, LifeTyped, SavedKept
  <2>3. QED
    BY <1>3, <2>1, <2>2
<1>7. CASE Pause
  <2>1. Living(ops.environment, ops.token, ops.health, TRUE, ops.clock, ops.restricted)
    BY <1>1, <1>7 DEF Pause, Controlled, Living
  <2>2. LifeTyped(ops.environment, ops.token, ops.health, TRUE, ops.clock, ops.restricted) /\ SavedKept
    BY <1>1, <1>2, <1>7 DEF Pause, LifeTyped, SavedKept
  <2>3. QED
    BY <1>3, <2>1, <2>2
<1>8. CASE Resume
  <2>1. Living(ops.environment, ops.token, ops.health, FALSE, ops.clock, ops.restricted)
    BY <1>1, <1>8 DEF Resume, Controlled, Living
  <2>2. LifeTyped(ops.environment, ops.token, ops.health, FALSE, ops.clock, ops.restricted) /\ SavedKept
    BY <1>1, <1>2, <1>8 DEF Resume, LifeTyped, SavedKept
  <2>3. QED
    BY <1>3, <2>1, <2>2
<1>9. CASE StorageLow
  <2>1. Living(ops.environment, ops.token, "RESTRICTED", TRUE, ops.clock, ops.restricted)
    BY <1>1, <1>9 DEF StorageLow, Controlled, Living
  <2>2. LifeTyped(ops.environment, ops.token, "RESTRICTED", TRUE, ops.clock, ops.restricted) /\ SavedKept
    BY <1>1, <1>2, <1>9 DEF StorageLow, LifeTyped, SavedKept
  <2>3. QED
    BY <1>3, <2>1, <2>2
<1>10. CASE RestoreOpsIncompatible
  <2>1. Living(ops.environment, ops.token, "RECOVERY_PENDING", TRUE, ops.clock, TRUE)
    BY <1>1, <1>10 DEF RestoreOpsIncompatible, Controlled, Living
  <2>2. LifeTyped(ops.environment, ops.token, "RECOVERY_PENDING", TRUE, ops.clock, TRUE) /\ SavedKept
    BY <1>1, <1>2, <1>10 DEF RestoreOpsIncompatible, LifeTyped, SavedKept
  <2>3. QED
    BY <1>3, <2>1, <2>2
<1>11. CASE \E r \in PromotionRequests : Promote(r)
  <2>1. PICK r \in PromotionRequests : Promote(r)
    BY <1>11
  <2>2. Living(ops.environment, ops.token, ops.health, ops.paused, ops.clock, ops.restricted)
    BY <1>1, <2>1 DEF Promote, Controlled, Living
  <2>3. LifeTyped(ops.environment, ops.token, ops.health, ops.paused, ops.clock, ops.restricted) /\ SavedKept
    BY <1>1, <1>2, <2>1 DEF Promote, LifeTyped, SavedKept
  <2>4. QED
    BY <1>3, <2>2, <2>3
<1>12. QED
  BY <1>4, <1>5, <1>6, <1>7, <1>8, <1>9, <1>10, <1>11

\* heartbeat moves the clock and the health, and adds to the heartbeats.
LEMMA HeartbeatKeeps ==
  ASSUME OpsInvariant, NEW at \in Time, HeartbeatOps(at)
  PROVE  OpsInvariant'
<1> DEFINE checked == ClockChecked(at)
           beat == [id |-> <<at, checked.health, Len(ops.decisions)>>]
           beats == Evicted(Put(ops.heartbeats, beat), MaxBeats)
<1>1. Controlled(ops) /\ Beaten(ops) /\ Len(ops.decisions) \in Nat /\ MaxBeats \in Nat
  BY OpsAssumption DEF OpsInvariant, Recorded, OpsAssumption, OperationsConfiguration
<1>2. /\ Controlled(checked) /\ SameRecords(checked, ops)
      /\ checked.heartbeats = ops.heartbeats /\ checked.restricted = ops.restricted
  <2>1. "RESTRICTED" \in OperationalHealth
    BY DEF OperationalHealth
  <2>2. CASE Jumped(at)
    <3>1. checked = [ops EXCEPT !.health = "RESTRICTED", !.paused = TRUE, !.clock = at]
      BY <2>2 DEF ClockChecked
    <3> HIDE DEF checked
    <3>2. checked =
            [environment |-> ops.environment, token |-> ops.token, health |-> "RESTRICTED",
             paused |-> TRUE, clock |-> at, restricted |-> ops.restricted,
             sessions |-> ops.sessions, listed |-> ops.listed,
             observations |-> ops.observations, decisions |-> ops.decisions,
             promotions |-> ops.promotions, heartbeats |-> ops.heartbeats]
      BY <1>1, <3>1 DEF Controlled
    <3>3. QED
      BY <1>1, <2>1, <3>2 DEF Controlled, SameRecords
  <2>3. CASE ~Jumped(at)
    <3>1. checked = [ops EXCEPT !.clock = at]
      BY <2>3 DEF ClockChecked
    <3> HIDE DEF checked
    <3>2. checked =
            [environment |-> ops.environment, token |-> ops.token, health |-> ops.health,
             paused |-> ops.paused, clock |-> at, restricted |-> ops.restricted,
             sessions |-> ops.sessions, listed |-> ops.listed,
             observations |-> ops.observations, decisions |-> ops.decisions,
             promotions |-> ops.promotions, heartbeats |-> ops.heartbeats]
      BY <1>1, <3>1 DEF Controlled
    <3>3. QED
      BY <1>1, <3>2 DEF Controlled, SameRecords
  <2>4. QED
    BY <2>2, <2>3
<1>3. /\ ops' = IF ~ops.environment THEN checked
                ELSE [checked EXCEPT !.heartbeats = Evicted(Put(@, beat), MaxBeats)]
      /\ UNCHANGED <<opsSaved, opsLosses>>
  BY DEF HeartbeatOps
<1> HIDE DEF checked
<1>4. CASE ~ops.environment
  <2>1. ops' = checked
    BY <1>3, <1>4
  <2>2. Controlled(ops') /\ SameRecords(ops', ops) /\ Beaten(ops')
        /\ ops'.restricted = ops.restricted
    BY <1>1, <1>2, <2>1 DEF Beaten
  <2>3. QED
    BY <1>3, <2>2, ControlKeeps
<1>5. CASE ops.environment
  <2>1. beat \in Beat
    <3>1. <<at, checked.health, Len(ops.decisions)>> \in Time \X OperationalHealth \X Nat
      BY <1>1, <1>2 DEF Controlled
    <3>2. QED
      BY <3>1 DEF Beat
  <2>2. ops' = [checked EXCEPT !.heartbeats = beats]
    BY <1>2, <1>3, <1>5
  <2> HIDE DEF beat
  <2>3. Put(ops.heartbeats, beat) \in Seq(Beat)
    BY <1>1, <2>1, PutFacts DEF Beaten
  <2>4. beats \in Seq(Beat) /\ Len(beats) <= MaxBeats
    BY <1>1, <2>3, EvictedFacts
  <2> HIDE DEF beats
  <2>5. ops' = [environment |-> checked.environment, token |-> checked.token,
                health |-> checked.health, paused |-> checked.paused,
                clock |-> checked.clock, restricted |-> checked.restricted,
                sessions |-> checked.sessions, listed |-> checked.listed,
                observations |-> checked.observations, decisions |-> checked.decisions,
                promotions |-> checked.promotions, heartbeats |-> beats]
    BY <1>2, <2>2 DEF Controlled
  <2>6. Controlled(ops') /\ ops'.restricted = checked.restricted /\ ops'.heartbeats = beats
    BY <1>2, <2>5 DEF Controlled
  <2>7. SameRecords(ops', ops)
    BY <1>2, <2>5 DEF SameRecords
  <2>8. Beaten(ops')
    BY <2>4, <2>6 DEF Beaten
  <2>9. QED
    BY <1>2, <1>3, <2>6, <2>7, <2>8, ControlKeeps
<1>6. QED
  BY <1>1, <1>4, <1>5

\* create_session adds a session that lists nothing.
LEMMA SessionKeeps ==
  ASSUME OpsInvariant, NEW s \in Sessions, CreateSession(s)
  PROVE  OpsInvariant'
<1>1. Controlled(ops) /\ Recorded(ops) /\ Beaten(ops)
  BY DEF OpsInvariant
<1>2. ops' = [ops EXCEPT !.sessions = @ \cup {s}] /\ UNCHANGED <<opsSaved, opsLosses>>
  BY DEF CreateSession
<1>3. ops' = [environment |-> ops.environment, token |-> ops.token, health |-> ops.health,
              paused |-> ops.paused, clock |-> ops.clock, restricted |-> ops.restricted,
              sessions |-> ops.sessions \cup {s}, listed |-> ops.listed,
              observations |-> ops.observations, decisions |-> ops.decisions,
              promotions |-> ops.promotions, heartbeats |-> ops.heartbeats]
  BY <1>1, <1>2 DEF Controlled
<1>4. Controlled(ops') /\ Beaten(ops')
  BY <1>1, <1>3 DEF Controlled, Beaten
<1>5. /\ ops'.sessions = ops.sessions \cup {s} /\ ops'.listed = ops.listed
      /\ ops'.observations = ops.observations /\ ops'.decisions = ops.decisions
      /\ ops'.restricted = ops.restricted
  BY <1>3
<1>6. Recorded(ops') /\ (Decided(ops) => Decided(ops'))
  BY <1>1, <1>5 DEF Recorded, Decided
<1>7. OpsReconciled(ops) => OpsReconciled(ops')
  BY <1>5 DEF OpsReconciled
<1>8. QED
  BY <1>2, <1>4, <1>5, <1>6, <1>7 DEF OpsInvariant

\* The decision of an observation.
DecisionOf(s, o, asOf) ==
  [id |-> <<s.id, o.id>>, session |-> s, observation |-> o, asOf |-> asOf]

\* What is held stays held when another entry is appended.
LEMMA AppendedHeld ==
  ASSUME NEW S, NEW store \in Seq(S), NEW entry \in S
  PROVE  /\ \A id : Held(store, id) => Held(Append(store, entry), id)
         /\ Held(Append(store, entry), entry.id)
<1>1. /\ DOMAIN store = 1..Len(store) /\ DOMAIN Append(store, entry) = 1..(Len(store) + 1)
      /\ Len(store) \in Nat
      /\ \A i \in 1..Len(store) : Append(store, entry)[i] = store[i]
      /\ Append(store, entry)[Len(store) + 1] = entry
  OBVIOUS
<1>2. QED
  BY <1>1 DEF Held, Holding

\* ingest adds an observation, lists it in its session and adds its decision.
LEMMA IngestKeeps ==
  ASSUME OpsInvariant, NEW s \in Sessions, NEW o \in Observations, NEW asOf \in Time,
         Ingest(s, o, asOf)
  PROVE  OpsInvariant'
<1> DEFINE d == DecisionOf(s, o, asOf)
           n == Len(ops.observations)
           observations == Append(ops.observations, o)
           decisions == Put(ops.decisions, d)
           listed == [ops.listed EXCEPT ![s] = Append(@, o)]
<1>1. Controlled(ops) /\ Recorded(ops) /\ Beaten(ops)
  BY DEF OpsInvariant
<1>2. /\ s \in ops.sessions /\ ForwardEligible(s, o, asOf) /\ ~Held(ops.observations, o.id)
      /\ InSequence(o) /\ n < MaxObservations
      /\ ops' = [ops EXCEPT !.observations = observations, !.decisions = decisions,
                            !.listed = listed]
      /\ UNCHANGED <<opsSaved, opsLosses>>
  BY DEF Ingest, DecisionOf
<1>3. /\ d \in ForwardShadowDecision /\ d.session = s /\ d.observation = o
      /\ d.asOf = asOf /\ d.id = <<s.id, o.id>>
  <2>1. s.id \in Nat /\ o.id \in Nat
    BY OpsAssumption DEF OpsAssumption, ForwardShadowSession, ForwardObservation
  <2>2. QED
    BY <2>1 DEF DecisionOf, ForwardShadowDecision
<1>4. /\ n \in Nat /\ observations \in Seq(Observations) /\ Len(observations) = n + 1
      /\ \A i \in 1..n : observations[i] = ops.observations[i]
      /\ observations[n + 1] = o
  BY <1>1 DEF Recorded
<1>5. listed \in [Sessions -> Seq(Observations)]
      /\ listed[s] = Append(ops.listed[s], o)
      /\ \A t \in Sessions : t # s => listed[t] = ops.listed[t]
  BY <1>1 DEF Recorded
<1> HIDE DEF d
<1>6. /\ decisions \in Seq(ForwardShadowDecision)
      /\ ~Held(ops.decisions, d.id) => decisions = Append(ops.decisions, d)
      /\ \A i \in 1..Len(decisions) :
           \/ decisions[i] = d
           \/ i \in 1..Len(ops.decisions) /\ decisions[i] = ops.decisions[i]
  <2>1. ops.decisions \in Seq(ForwardShadowDecision) /\ d \in ForwardShadowDecision
    BY <1>1, <1>3 DEF Recorded
  <2>2. decisions = Put(ops.decisions, d)
    OBVIOUS
  <2> DEFINE before == ops.decisions
  <2> HIDE DEF decisions, before
  <2>3. before \in Seq(ForwardShadowDecision) /\ before = ops.decisions
    BY <2>1 DEF before
  <2>4. /\ Put(before, d) \in Seq(ForwardShadowDecision)
        /\ ~Held(before, d.id) => Put(before, d) = Append(before, d)
        /\ \A i \in 1..Len(Put(before, d)) :
             \/ Put(before, d)[i] = d
             \/ i \in 1..Len(before) /\ Put(before, d)[i] = before[i]
    <3>1. Put(before, d) \in Seq(ForwardShadowDecision)
      BY <2>1, <2>3, PutFacts
    <3>2. ~Held(before, d.id) => Put(before, d) = Append(before, d)
      BY DEF Put
    <3>3. \A i \in 1..Len(Put(before, d)) :
             \/ Put(before, d)[i] = d
             \/ i \in 1..Len(before) /\ Put(before, d)[i] = before[i]
      <4>1. Placed(ForwardShadowDecision, before, d)
        BY <2>1, <2>3, PlacedFacts
      <4>2. QED
        BY <4>1 DEF Placed
    <3>4. QED
      BY <3>1, <3>2, <3>3
  <2>5. QED
    BY <2>2, <2>3, <2>4
<1>7. /\ \A id : Held(ops.observations, id) => Held(observations, id)
      /\ Held(observations, o.id)
  BY <1>1, AppendedHeld DEF Recorded
<1> HIDE DEF observations, decisions, listed, n
<1>8. ops' = [environment |-> ops.environment, token |-> ops.token, health |-> ops.health,
              paused |-> ops.paused, clock |-> ops.clock, restricted |-> ops.restricted,
              sessions |-> ops.sessions, listed |-> listed,
              observations |-> observations, decisions |-> decisions,
              promotions |-> ops.promotions, heartbeats |-> ops.heartbeats]
  BY <1>1, <1>2 DEF Controlled
<1>9. /\ ops'.sessions = ops.sessions /\ ops'.listed = listed
      /\ ops'.observations = observations /\ ops'.decisions = decisions
      /\ ops'.restricted = ops.restricted /\ ops'.heartbeats = ops.heartbeats
  BY <1>8
<1>10. Controlled(ops') /\ Beaten(ops')
  BY <1>1, <1>8, <1>9 DEF Controlled, Beaten
<1>11. \A i, j \in 1..Len(observations) :
         i < j /\ observations[i].source = observations[j].source
         => observations[i].number < observations[j].number
  <2>1. SUFFICES ASSUME NEW i \in 1..Len(observations), NEW j \in 1..Len(observations),
                        i < j, observations[i].source = observations[j].source
                 PROVE  observations[i].number < observations[j].number
    OBVIOUS
  <2>2. i \in 1..n /\ (j \in 1..n \/ j = n + 1)
    BY <1>4, <2>1
  <2>3. CASE j \in 1..n
    <3>1. observations[i] = ops.observations[i] /\ observations[j] = ops.observations[j]
      BY <1>4, <2>2, <2>3
    <3>2. QED
      BY <1>1, <2>1, <2>2, <2>3, <3>1 DEF Recorded, n
  <2>4. CASE j = n + 1
    <3>1. observations[i] = ops.observations[i] /\ observations[j] = o
      BY <1>4, <2>2, <2>4
    <3>2. i \in DOMAIN ops.observations
      BY <1>1, <2>2 DEF Recorded, n
    <3>3. QED
      BY <1>2, <2>1, <3>1, <3>2 DEF InSequence
  <2>5. QED
    BY <2>2, <2>3, <2>4
<1>12. \A i \in 1..Len(decisions) :
         /\ decisions[i].observation.observed > decisions[i].session.cutoff
         /\ decisions[i].observation.available <= decisions[i].asOf
         /\ decisions[i].id = <<decisions[i].session.id, decisions[i].observation.id>>
  <2>1. SUFFICES ASSUME NEW i \in 1..Len(decisions)
                 PROVE  /\ decisions[i].observation.observed > decisions[i].session.cutoff
                        /\ decisions[i].observation.available <= decisions[i].asOf
                        /\ decisions[i].id =
                             <<decisions[i].session.id, decisions[i].observation.id>>
    OBVIOUS
  <2>2. CASE decisions[i] = d
    BY <1>2, <1>3, <2>2 DEF ForwardEligible
  <2>3. CASE i \in 1..Len(ops.decisions) /\ decisions[i] = ops.decisions[i]
    BY <1>1, <2>3 DEF Recorded
  <2>4. QED
    BY <1>6, <2>2, <2>3
<1>13. Recorded(ops')
  <2>1. Len(observations) <= MaxObservations
    BY <1>2, <1>4, OpsAssumption DEF OpsAssumption, OperationsConfiguration
  <2>2. ops.sessions \subseteq Sessions
    BY <1>1 DEF Recorded
  <2>3. QED
    BY <1>4, <1>5, <1>6, <1>9, <1>11, <1>12, <2>1, <2>2 DEF Recorded
<1>14. OpsReconciled(ops) => OpsReconciled(ops')
  <2>1. SUFFICES ASSUME OpsReconciled(ops), NEW i \in DOMAIN decisions
                 PROVE  Held(observations, decisions[i].observation.id)
                        /\ decisions[i].session \in ops.sessions
    BY <1>9 DEF OpsReconciled
  <2>2. i \in 1..Len(decisions)
    BY <1>6, <2>1
  <2>3. CASE decisions[i] = d
    BY <1>2, <1>3, <1>7, <2>3
  <2>4. CASE i \in 1..Len(ops.decisions) /\ decisions[i] = ops.decisions[i]
    <3>1. i \in DOMAIN ops.decisions
      BY <1>1, <2>4 DEF Recorded
    <3>2. QED
      BY <1>7, <2>1, <2>4, <3>1 DEF OpsReconciled
  <2>5. QED
    BY <1>6, <2>2, <2>3, <2>4
<1>15. Decided(ops) => Decided(ops')
  <2>1. SUFFICES ASSUME Decided(ops) PROVE Decided(ops')
    OBVIOUS
  <2>2. Len(ops.decisions) = n /\ \A i \in 1..n :
          /\ ops.decisions[i] \in ForwardShadowDecision
          /\ ops.decisions[i].observation = ops.observations[i]
          /\ ops.decisions[i].session \in Sessions
          /\ ops.decisions[i].id =
               <<ops.decisions[i].session.id, ops.decisions[i].observation.id>>
    <3>1. /\ Len(ops.decisions) = n
          /\ \A i \in 1..n : ops.decisions[i].observation = ops.observations[i]
      BY <2>1 DEF Decided, n
    <3>2. \A i \in 1..n : ops.decisions[i] \in ForwardShadowDecision
      BY <1>1, <3>1 DEF Recorded
    <3>3. \A i \in 1..n : ops.decisions[i].session \in Sessions
      BY <3>2 DEF ForwardShadowDecision
    <3>4. \A i \in 1..n : ops.decisions[i].id =
            <<ops.decisions[i].session.id, ops.decisions[i].observation.id>>
      BY <1>1, <3>1 DEF Recorded
    <3>5. QED
      BY <3>1, <3>2, <3>3, <3>4
  <2>3. ~Held(ops.decisions, d.id)
    <3>1. SUFFICES ASSUME Held(ops.decisions, d.id) PROVE FALSE
      OBVIOUS
    <3>2. PICK i \in DOMAIN ops.decisions : ops.decisions[i].id = d.id
      BY <3>1 DEF Held, Holding
    <3>3. i \in 1..n
      BY <1>1, <2>2, <3>2 DEF Recorded
    <3>4. ops.observations[i].id = o.id
      BY <1>3, <2>2, <3>2, <3>3
    <3>5. i \in DOMAIN ops.observations
      BY <1>1, <3>3 DEF Recorded, n
    <3>6. QED
      BY <1>2, <3>4, <3>5 DEF Held, Holding
  <2>4. /\ Len(decisions) = n + 1 /\ decisions[n + 1] = d
        /\ \A i \in 1..n : decisions[i] = ops.decisions[i]
    <3>1. decisions = Append(ops.decisions, d) /\ ops.decisions \in Seq(ForwardShadowDecision)
          /\ Len(ops.decisions) = n
      BY <1>1, <1>6, <2>2, <2>3 DEF Recorded
    <3>2. QED
      BY <1>3, <3>1
  <2>5. ASSUME NEW i \in 1..(n + 1)
        PROVE  /\ decisions[i].observation = observations[i]
               /\ \E k \in 1..Len(listed[decisions[i].session]) :
                    listed[decisions[i].session][k] = observations[i]
    <3>1. ops.listed[s] \in Seq(Observations)
      BY <1>1 DEF Recorded
    <3>2. CASE i = n + 1
      <4>1. Len(listed[s]) \in 1..Len(listed[s]) /\ listed[s][Len(listed[s])] = o
        BY <1>5, <3>1
      <4>2. decisions[i] = d /\ observations[i] = o
        BY <1>4, <2>4, <3>2
      <4>3. QED
        BY <1>3, <4>1, <4>2
    <3>3. CASE i \in 1..n
      <4> DEFINE t == ops.decisions[i].session
      <4>1. /\ decisions[i] = ops.decisions[i] /\ observations[i] = ops.observations[i]
            /\ decisions[i].observation = observations[i] /\ t \in Sessions
        BY <1>4, <2>2, <2>4, <3>3
      <4>2. PICK k \in 1..Len(ops.listed[t]) : ops.listed[t][k] = ops.observations[i]
        BY <2>1, <2>2, <3>3 DEF Decided
      <4>3. k \in 1..Len(listed[t]) /\ listed[t][k] = ops.listed[t][k]
        <5>1. CASE t = s
          BY <1>5, <3>1, <4>2, <5>1
        <5>2. CASE t # s
          BY <1>5, <4>1, <4>2, <5>2
        <5>3. QED
          BY <5>1, <5>2
      <4>4. QED
        BY <4>1, <4>2, <4>3
    <3>4. QED
      BY <1>4, <3>2, <3>3
  <2>6. QED
    BY <1>4, <1>9, <2>4, <2>5 DEF Decided
<1>16. QED
  BY <1>2, <1>9, <1>10, <1>13, <1>14, <1>15 DEF OpsInvariant

\* The engine is given up, or given a recovery state.
LEMMA RecoveryKeepsOps ==
  ASSUME OpsInvariant, StopOps \/ RestoreOps
  PROVE  OpsInvariant'
<1>1. CASE StopOps
  <2> DEFINE e == [environment |-> ops.environment, sessions |-> ops.sessions,
                  listed |-> ops.listed, observations |-> ops.observations,
                  decisions |-> ops.decisions, promotions |-> ops.promotions,
                  heartbeats |-> ops.heartbeats]
  <2>1. opsSaved' = e /\ ops' = FreshOps /\ opsLosses' = opsLosses
    BY <1>1 DEF StopOps
  <2>2. SameRecords(e, ops) /\ e.heartbeats = ops.heartbeats /\ e.environment = ops.environment
    BY DEF SameRecords
  <2>3. e = [environment |-> e.environment, sessions |-> e.sessions,
             listed |-> e.listed, observations |-> e.observations,
             decisions |-> e.decisions, promotions |-> e.promotions,
             heartbeats |-> e.heartbeats]
    OBVIOUS
  <2> HIDE DEF e
  <2>4. Recorded(e) /\ (opsLosses = 0 => Decided(e))
    BY <2>2, SameFacts DEF OpsInvariant
  <2>5. Beaten(e) /\ e.environment \in BOOLEAN
    BY <2>2 DEF Beaten, OpsInvariant, Controlled
  <2>6. QED
    BY <2>1, <2>3, <2>4, <2>5, FreshRecorded DEF OpsInvariant
<1>2. CASE RestoreOps
  <2> DEFINE health == IF OpsReconciled(opsSaved) THEN "HEALTHY" ELSE "RECOVERY_PENDING"
             restricted == ~OpsReconciled(opsSaved)
  <2>1. /\ Controlled(ops) /\ opsSaved # None /\ opsSaved.environment \in BOOLEAN
        /\ Recorded(opsSaved) /\ Beaten(opsSaved) /\ (opsLosses = 0 => Decided(opsSaved))
        /\ opsSaved' = None /\ opsLosses' = opsLosses
    BY <1>2 DEF OpsInvariant, RestoreOps
  <2>2. ops' = [Assigned EXCEPT !.health = health, !.restricted = restricted]
    <3>1. CASE OpsReconciled(opsSaved)
      BY <1>2, <3>1 DEF RestoreOps
    <3>2. CASE ~OpsReconciled(opsSaved)
      BY <1>2, <3>2 DEF RestoreOps
    <3>3. QED
      BY <3>1, <3>2
  <2>3. health \in OperationalHealth /\ restricted \in BOOLEAN
    BY DEF OperationalHealth
  <2>4. ~restricted => OpsReconciled(opsSaved)
    OBVIOUS
  <2> HIDE DEF health, restricted
  <2>5. Assigned = [environment |-> opsSaved.environment, token |-> ops.token,
                    health |-> ops.health, paused |-> TRUE, clock |-> ops.clock,
                    restricted |-> ops.restricted, sessions |-> opsSaved.sessions,
                    listed |-> opsSaved.listed, observations |-> opsSaved.observations,
                    decisions |-> opsSaved.decisions, promotions |-> opsSaved.promotions,
                    heartbeats |-> opsSaved.heartbeats]
    <3>1. ops = [environment |-> ops.environment, token |-> ops.token, health |-> ops.health,
                 paused |-> ops.paused, clock |-> ops.clock, restricted |-> ops.restricted,
                 sessions |-> ops.sessions, listed |-> ops.listed,
                 observations |-> ops.observations, decisions |-> ops.decisions,
                 promotions |-> ops.promotions, heartbeats |-> ops.heartbeats]
      BY <2>1 DEF Controlled
    <3>2. PICK e : e = [ops EXCEPT !.environment = opsSaved.environment,
                          !.sessions = opsSaved.sessions, !.listed = opsSaved.listed,
                          !.observations = opsSaved.observations]
      OBVIOUS
    <3>3. e = [environment |-> opsSaved.environment, token |-> ops.token,
               health |-> ops.health, paused |-> ops.paused, clock |-> ops.clock,
               restricted |-> ops.restricted, sessions |-> opsSaved.sessions,
               listed |-> opsSaved.listed, observations |-> opsSaved.observations,
               decisions |-> ops.decisions, promotions |-> ops.promotions,
               heartbeats |-> ops.heartbeats]
      BY <3>1, <3>2
    <3>4. Assigned = [e EXCEPT !.decisions = opsSaved.decisions,
                        !.promotions = opsSaved.promotions,
                        !.heartbeats = opsSaved.heartbeats, !.paused = TRUE]
      BY <3>2 DEF Assigned
    <3>5. QED
      BY <3>3, <3>4
  <2>6. ops' = [environment |-> opsSaved.environment, token |-> ops.token,
                health |-> health, paused |-> TRUE, clock |-> ops.clock,
                restricted |-> restricted, sessions |-> opsSaved.sessions,
                listed |-> opsSaved.listed, observations |-> opsSaved.observations,
                decisions |-> opsSaved.decisions, promotions |-> opsSaved.promotions,
                heartbeats |-> opsSaved.heartbeats]
    BY <2>2, <2>5
  <2>7. Controlled(ops') /\ Beaten(ops') /\ ops'.restricted = restricted
    BY <2>1, <2>3, <2>6 DEF Controlled, Beaten
  <2>8. SameRecords(ops', opsSaved)
    BY <2>6 DEF SameRecords
  <2>9. /\ Recorded(ops') /\ (opsLosses = 0 => Decided(ops'))
        /\ ~restricted => OpsReconciled(ops')
    BY <2>1, <2>4, <2>8, SameFacts
  <2>10. QED
    BY <2>1, <2>7, <2>9 DEF OpsInvariant
<1>3. QED
  BY <1>1, <1>2

\* A recovery state without one of its records.
LEMMA LossKeeps ==
  ASSUME OpsInvariant, LoseOpsRecord
  PROVE  OpsInvariant'
<1>1. /\ opsSaved # None /\ opsLosses \in 0..MaxLosses /\ opsLosses < MaxLosses
      /\ opsLosses' = opsLosses + 1 /\ UNCHANGED ops
      /\ opsSaved = [environment |-> opsSaved.environment, sessions |-> opsSaved.sessions,
                     listed |-> opsSaved.listed, observations |-> opsSaved.observations,
                     decisions |-> opsSaved.decisions, promotions |-> opsSaved.promotions,
                     heartbeats |-> opsSaved.heartbeats]
      /\ opsSaved.environment \in BOOLEAN /\ Recorded(opsSaved) /\ Beaten(opsSaved)
  BY DEF LoseOpsRecord, OpsInvariant
<1>2. opsLosses' \in 0..MaxLosses /\ opsLosses' # 0
  BY <1>1, EvidenceAssumption DEF EvidenceAssumption
<1>3. SUFFICES ASSUME NEW sessions, NEW listed, NEW observations, NEW decisions,
                      opsSaved' = [environment |-> opsSaved.environment, sessions |-> sessions,
                        listed |-> listed, observations |-> observations,
                        decisions |-> decisions, promotions |-> opsSaved.promotions,
                        heartbeats |-> opsSaved.heartbeats],
                      \/ /\ sessions = opsSaved.sessions /\ listed = opsSaved.listed
                         /\ decisions = opsSaved.decisions
                         /\ \E i \in DOMAIN opsSaved.observations :
                              observations = RemoveAt(opsSaved.observations, i)
                      \/ /\ sessions = opsSaved.sessions /\ listed = opsSaved.listed
                         /\ observations = opsSaved.observations
                         /\ \E i \in DOMAIN opsSaved.decisions :
                              decisions = RemoveAt(opsSaved.decisions, i)
                      \/ /\ decisions = opsSaved.decisions
                         /\ observations = opsSaved.observations
                         /\ \E s \in opsSaved.sessions :
                              /\ sessions = opsSaved.sessions \ {s}
                              /\ listed = [opsSaved.listed EXCEPT ![s] = <<>>]
               PROVE  OpsInvariant'
  <2>1. CASE \E i \in DOMAIN opsSaved.observations :
               opsSaved' = [opsSaved EXCEPT !.observations = RemoveAt(@, i)]
    <3>1. PICK i \in DOMAIN opsSaved.observations :
                 opsSaved' = [opsSaved EXCEPT !.observations = RemoveAt(@, i)]
      BY <2>1
    <3>2. opsSaved' = [environment |-> opsSaved.environment, sessions |-> opsSaved.sessions,
                       listed |-> opsSaved.listed,
                       observations |-> RemoveAt(opsSaved.observations, i),
                       decisions |-> opsSaved.decisions, promotions |-> opsSaved.promotions,
                       heartbeats |-> opsSaved.heartbeats]
      BY <1>1, <3>1
    <3>3. QED
      BY <3>2
  <2>2. CASE \E i \in DOMAIN opsSaved.decisions :
               opsSaved' = [opsSaved EXCEPT !.decisions = RemoveAt(@, i)]
    <3>1. PICK i \in DOMAIN opsSaved.decisions :
                 opsSaved' = [opsSaved EXCEPT !.decisions = RemoveAt(@, i)]
      BY <2>2
    <3>2. opsSaved' = [environment |-> opsSaved.environment, sessions |-> opsSaved.sessions,
                       listed |-> opsSaved.listed,
                       observations |-> opsSaved.observations,
                       decisions |-> RemoveAt(opsSaved.decisions, i),
                       promotions |-> opsSaved.promotions,
                       heartbeats |-> opsSaved.heartbeats]
      BY <1>1, <3>1
    <3>3. QED
      BY <3>2
  <2>3. CASE \E s \in opsSaved.sessions :
               opsSaved' = [opsSaved EXCEPT !.sessions = @ \ {s}, !.listed[s] = <<>>]
    <3>1. PICK s \in opsSaved.sessions :
                 opsSaved' = [opsSaved EXCEPT !.sessions = @ \ {s}, !.listed[s] = <<>>]
      BY <2>3
    <3>2. opsSaved' = [environment |-> opsSaved.environment,
                       sessions |-> opsSaved.sessions \ {s},
                       listed |-> [opsSaved.listed EXCEPT ![s] = <<>>],
                       observations |-> opsSaved.observations,
                       decisions |-> opsSaved.decisions, promotions |-> opsSaved.promotions,
                       heartbeats |-> opsSaved.heartbeats]
      BY <1>1, <3>1
    <3>3. QED
      BY <3>2
  <2>4. QED
    BY <2>1, <2>2, <2>3 DEF LoseOpsRecord
<1>4. /\ opsSaved'.sessions = sessions /\ opsSaved'.listed = listed
      /\ opsSaved'.observations = observations /\ opsSaved'.decisions = decisions
      /\ opsSaved'.heartbeats = opsSaved.heartbeats
      /\ opsSaved'.environment = opsSaved.environment
      /\ opsSaved' = [environment |-> opsSaved'.environment, sessions |-> opsSaved'.sessions,
           listed |-> opsSaved'.listed, observations |-> opsSaved'.observations,
           decisions |-> opsSaved'.decisions, promotions |-> opsSaved'.promotions,
           heartbeats |-> opsSaved'.heartbeats]
  BY <1>3
<1>5. Beaten(opsSaved')
  BY <1>1, <1>4 DEF Beaten
<1>6. CASE /\ sessions = opsSaved.sessions /\ listed = opsSaved.listed
           /\ decisions = opsSaved.decisions
           /\ \E i \in DOMAIN opsSaved.observations :
                observations = RemoveAt(opsSaved.observations, i)
  <2>1. PICK i \in DOMAIN opsSaved.observations :
               observations = RemoveAt(opsSaved.observations, i)
    BY <1>6
  <2> DEFINE old == opsSaved.observations
  <2>2. old \in Seq(Observations) /\ Len(old) \in Nat /\ i \in 1..Len(old)
    BY <1>1, <2>1 DEF Recorded
  <2>3. /\ observations \in Seq(Observations) /\ Len(observations) = Len(old) - 1
        /\ \A j \in 1..(Len(old) - 1) :
             observations[j] = IF j < i THEN old[j] ELSE old[j + 1]
    BY <2>1, <2>2, RemovedFacts
  <2>4. ASSUME NEW j \in 1..Len(observations), NEW k \in 1..Len(observations), j < k,
               observations[j].source = observations[k].source
        PROVE  observations[j].number < observations[k].number
    <3> DEFINE x == IF j < i THEN j ELSE j + 1
               y == IF k < i THEN k ELSE k + 1
    <3>1. x \in 1..Len(old) /\ y \in 1..Len(old) /\ x < y
      BY <2>2, <2>3, <2>4
    <3>2. observations[j] = old[x] /\ observations[k] = old[y]
      BY <2>2, <2>3, <2>4
    <3> HIDE DEF x, y
    <3>3. QED
      BY <1>1, <2>4, <3>1, <3>2 DEF Recorded
  <2>5. Len(observations) <= MaxObservations
    BY <1>1, <2>2, <2>3, OpsAssumption DEF Recorded, OpsAssumption, OperationsConfiguration
  <2> HIDE DEF old
  <2>6. Recorded(opsSaved')
    BY <1>1, <1>4, <1>6, <2>3, <2>4, <2>5 DEF Recorded
  <2>7. QED
    BY <1>1, <1>2, <1>4, <1>5, <2>6 DEF OpsInvariant
<1>7. CASE /\ sessions = opsSaved.sessions /\ listed = opsSaved.listed
           /\ observations = opsSaved.observations
           /\ \E i \in DOMAIN opsSaved.decisions :
                decisions = RemoveAt(opsSaved.decisions, i)
  <2>1. PICK i \in DOMAIN opsSaved.decisions : decisions = RemoveAt(opsSaved.decisions, i)
    BY <1>7
  <2> DEFINE old == opsSaved.decisions
  <2>2. old \in Seq(ForwardShadowDecision) /\ Len(old) \in Nat /\ i \in 1..Len(old)
    BY <1>1, <2>1 DEF Recorded
  <2>3. /\ decisions \in Seq(ForwardShadowDecision) /\ Len(decisions) = Len(old) - 1
        /\ \A j \in 1..(Len(old) - 1) : decisions[j] = IF j < i THEN old[j] ELSE old[j + 1]
    BY <2>1, <2>2, RemovedFacts
  <2>4. ASSUME NEW j \in 1..Len(decisions)
        PROVE  \E x \in 1..Len(old) : decisions[j] = old[x]
    <3> DEFINE x == IF j < i THEN j ELSE j + 1
    <3>1. x \in 1..Len(old) /\ decisions[j] = old[x]
      BY <2>2, <2>3, <2>4
    <3>2. QED
      BY <3>1
  <2>5. \A j \in 1..Len(decisions) :
          /\ decisions[j].observation.observed > decisions[j].session.cutoff
          /\ decisions[j].observation.available <= decisions[j].asOf
          /\ decisions[j].id = <<decisions[j].session.id, decisions[j].observation.id>>
    BY <1>1, <2>4 DEF Recorded
  <2>6. Recorded(opsSaved')
    BY <1>1, <1>4, <1>7, <2>3, <2>5 DEF Recorded
  <2>7. QED
    BY <1>1, <1>2, <1>4, <1>5, <2>6 DEF OpsInvariant
<1>8. CASE /\ decisions = opsSaved.decisions /\ observations = opsSaved.observations
           /\ \E s \in opsSaved.sessions :
                /\ sessions = opsSaved.sessions \ {s}
                /\ listed = [opsSaved.listed EXCEPT ![s] = <<>>]
  <2>1. listed \in [Sessions -> Seq(Observations)] /\ sessions \subseteq Sessions
    <3>1. opsSaved.listed \in [Sessions -> Seq(Observations)] /\ <<>> \in Seq(Observations)
      BY <1>1 DEF Recorded
    <3>2. QED
      BY <1>1, <1>8, <3>1 DEF Recorded
  <2>2. Recorded(opsSaved')
    BY <1>1, <1>4, <1>8, <2>1 DEF Recorded
  <2>3. QED
    BY <1>1, <1>2, <1>4, <1>5, <2>2 DEF OpsInvariant
<1>9. QED
  BY <1>3, <1>6, <1>7, <1>8

\* The invariant of forward operations is inductive.
LEMMA NextOps == OpsInvariant /\ [OpsNext]_opsVars => OpsInvariant'
<1>1. SUFFICES ASSUME OpsInvariant, [OpsNext]_opsVars PROVE OpsInvariant'
  OBVIOUS
<1>2. CASE UNCHANGED opsVars
  BY <1>1, <1>2 DEF opsVars, OpsInvariant, Controlled, Recorded, Beaten, Decided, OpsReconciled
<1>3. CASE \E s \in Sessions, o \in Observations, asOf \in Time : Ingest(s, o, asOf)
  BY <1>1, <1>3, IngestKeeps
<1>4. CASE \E s \in Sessions : CreateSession(s)
  BY <1>1, <1>4, SessionKeeps
<1>5. CASE \E at \in Time : HeartbeatOps(at)
  BY <1>1, <1>5, HeartbeatKeeps
<1>6. CASE StopOps \/ RestoreOps
  BY <1>1, <1>6, RecoveryKeepsOps
<1>7. CASE LoseOpsRecord
  BY <1>1, <1>7, LossKeeps
<1>8. CASE \/ \E t \in Tokens, at \in Time : Startup(t, at)
           \/ \E t \in Tokens : StartupInvalid(t)
           \/ ShutdownOps \/ Pause \/ Resume \/ StorageLow
           \/ RestoreOpsIncompatible
           \/ \E r \in PromotionRequests : Promote(r)
  BY <1>1, <1>8, LifeKeeps
<1>9. QED
  BY <1>1, <1>2, <1>3, <1>4, <1>5, <1>6, <1>7, <1>8 DEF OpsNext

\* Whatever is paused, restarted, restored or lost, the ledger of a shadow run is
\* forward only, has one decision for an observation as long as nothing was lost,
\* and is marked as restricted when a decision lacks its observation or session.
THEOREM ForwardIsSound == OpsSpec => []ForwardSound
<1>1. OpsInvariant => ForwardSound
  <2>1. SUFFICES ASSUME OpsInvariant PROVE ForwardSound
    OBVIOUS
  <2>2. /\ DOMAIN ops.observations = 1..Len(ops.observations)
        /\ DOMAIN ops.decisions = 1..Len(ops.decisions)
        /\ ops.listed \in [Sessions -> Seq(Observations)]
        /\ \A i \in 1..Len(ops.decisions) : ops.decisions[i] \in ForwardShadowDecision
    BY <2>1 DEF OpsInvariant, Recorded
  <2>3. OpsTypeOK
    BY <2>1 DEF OpsInvariant, Controlled, Recorded, Beaten, OpsTypeOK
  <2>4. ForwardOnly
    BY <2>1, <2>2 DEF OpsInvariant, Recorded, ForwardOnly
  <2>5. DecidedOnce
    <3>1. \A i \in 1..Len(ops.decisions) :
            DOMAIN ops.listed[ops.decisions[i].session]
              = 1..Len(ops.listed[ops.decisions[i].session])
      BY <2>2 DEF ForwardShadowDecision
    <3>2. QED
      BY <2>1, <2>2, <3>1 DEF OpsInvariant, Decided, DecidedOnce
  <2>6. QED
    BY <2>3, <2>4, <2>5 DEF ForwardSound
<1>2. QED
  BY InitOps, NextOps, <1>1, PTL DEF OpsSpec

-----------------------------------------------------------------------------
(* Deployment: the components that are affected.                           *)

\* The passes reach the least set that has the blocking components and what
\* depends on its members.
LEMMA AffectedFacts ==
  ASSUME NEW health, IsFiniteSet(DOMAIN health)
  PROVE  LET affected == Affected(health)
         IN /\ Blocking(health) \subseteq affected
            /\ Dependent(health, affected) = affected
            /\ \A s \in SUBSET DOMAIN health :
                 Blocking(health) \subseteq s /\ Dependent(health, s) = s => affected \subseteq s
<1> DEFINE D == DOMAIN health
           N == Cardinality(D)
           B == Blocking(health)
           Next(s) == Dependent(health, s)
           step == [s \in SUBSET D |-> Next(s)]
           pass == CHOOSE pass : pass = [n \in 0..N |-> IF n = 0 THEN B ELSE Next(pass[n - 1])]
<1>1. N \in Nat
  BY FS_CardinalityType
<1>2. B \in SUBSET D /\ \A s \in SUBSET D : Next(s) \in SUBSET D /\ s \subseteq Next(s)
  BY DEF Blocking, Dependent
<1>3. step \in [SUBSET D -> SUBSET D]
  BY <1>2
<1> HIDE DEF N, B, Next
<1>4. PICK f : Iterates(f, SUBSET D, B, step, N)
  <2> HIDE DEF step
  <2> QED
    BY <1>1, <1>2, <1>3, IterationFacts
<1>5. f = [n \in 0..N |-> IF n = 0 THEN B ELSE Next(f[n - 1])]
  <2>1. \A n \in 0..N : n # 0 => n - 1 \in 0..N /\ n \in 1..N
    BY <1>1
  <2>2. \A n \in 0..N : n # 0 => f[n] = Next(f[n - 1])
    <3>1. \A n \in 1..N : n - 1 \in 0..N
      BY <1>1
    <3>2. QED
      BY <1>4, <2>1, <3>1 DEF Iterates
  <2> HIDE DEF step
  <2>3. QED
    BY <1>1, <1>4, <2>2 DEF Iterates
<1>6. pass = [n \in 0..N |-> IF n = 0 THEN B ELSE Next(pass[n - 1])]
  BY <1>5, Zenon
<1>7. Affected(health) = pass[N]
  BY Zenon DEF Affected, N, B, Next
<1> HIDE DEF pass, D, step
<1>8. pass[0] = B /\ \A n \in 1..N : pass[n] = Next(pass[n - 1])
  BY <1>1, <1>6
<1> DEFINE Fixed(s) == Next(s) = s
           P == {n \in Nat : n <= N =>
                   /\ pass[n] \in SUBSET D /\ B \subseteq pass[n]
                   /\ Fixed(pass[n]) \/ Cardinality(pass[n]) >= n
                   /\ \A s \in SUBSET D : B \subseteq s /\ Next(s) = s => pass[n] \subseteq s}
<1>9. 0 \in P
  <2>1. IsFiniteSet(B)
    BY <1>2, FS_Subset DEF D
  <2>2. Cardinality(B) \in Nat
    BY <2>1, FS_CardinalityType
  <2>3. Cardinality(pass[0]) >= 0
    BY <1>8, <2>2
  <2>4. QED
    BY <1>1, <1>2, <1>8, <2>3
<1>10. ASSUME NEW n \in Nat, n \in P PROVE n + 1 \in P
  <2>1. SUFFICES ASSUME n + 1 <= N
                 PROVE  /\ pass[n + 1] \in SUBSET D /\ B \subseteq pass[n + 1]
                        /\ Fixed(pass[n + 1]) \/ Cardinality(pass[n + 1]) >= n + 1
                        /\ \A s \in SUBSET D :
                             B \subseteq s /\ Next(s) = s => pass[n + 1] \subseteq s
    OBVIOUS
  <2>2. /\ pass[n] \in SUBSET D /\ B \subseteq pass[n]
        /\ Fixed(pass[n]) \/ Cardinality(pass[n]) >= n
        /\ \A s \in SUBSET D : B \subseteq s /\ Next(s) = s => pass[n] \subseteq s
    BY <1>1, <1>10, <2>1
  <2>3. pass[n + 1] = Next(pass[n])
    BY <1>1, <1>8, <2>1
  <2>4. pass[n + 1] \in SUBSET D /\ pass[n] \subseteq pass[n + 1]
    BY <1>2, <2>2, <2>3
  <2>5. Fixed(pass[n + 1]) \/ Cardinality(pass[n + 1]) >= n + 1
    <3>1. CASE Fixed(pass[n])
      BY <2>3, <3>1
    <3>2. CASE ~Fixed(pass[n])
      <4>1. Cardinality(pass[n]) >= n
        BY <2>2, <3>2
      <4>2. PICK c \in pass[n + 1] : c \notin pass[n]
        BY <2>3, <2>4, <3>2
      <4>3. IsFiniteSet(pass[n + 1]) /\ IsFiniteSet(pass[n])
        BY <2>2, <2>4, FS_Subset DEF D
      <4>4. Cardinality(pass[n] \cup {c}) = Cardinality(pass[n]) + 1
        BY <4>2, <4>3, FS_AddElement
      <4>5. Cardinality(pass[n] \cup {c}) <= Cardinality(pass[n + 1])
        BY <2>4, <4>2, <4>3, FS_Subset
      <4>6. Cardinality(pass[n]) \in Nat /\ Cardinality(pass[n + 1]) \in Nat
        BY <4>3, FS_CardinalityType
      <4>7. QED
        BY <4>1, <4>4, <4>5, <4>6
    <3>3. QED
      BY <3>1, <3>2
  <2>6. ASSUME NEW s \in SUBSET D, B \subseteq s, Next(s) = s
        PROVE  pass[n + 1] \subseteq s
    <3>1. pass[n] \subseteq s
      BY <2>2, <2>6
    <3>2. Next(pass[n]) \subseteq Next(s)
      BY <3>1 DEF Next, Dependent
    <3>3. QED
      BY <2>3, <2>6, <3>2
  <2>7. QED
    BY <2>2, <2>4, <2>5, <2>6
<1>11. Nat \subseteq P
  <2> HIDE DEF P
  <2> QED
    BY <1>9, <1>10, InductiveSet
<1>12. /\ pass[N] \in SUBSET D /\ B \subseteq pass[N]
       /\ Fixed(pass[N]) \/ Cardinality(pass[N]) >= N
       /\ \A s \in SUBSET D : B \subseteq s /\ Next(s) = s => pass[N] \subseteq s
  BY <1>1, <1>11
<1>13. Fixed(pass[N])
  <2>1. CASE Cardinality(pass[N]) >= N
    <3>1. Cardinality(pass[N]) <= N
      BY <1>12, FS_Subset DEF D, N
    <3>2. Cardinality(pass[N]) = N
      <4>1. Cardinality(pass[N]) \in Nat
        BY <1>12, FS_Subset, FS_CardinalityType DEF D
      <4>2. QED
        BY <1>1, <2>1, <3>1, <4>1
    <3>3. pass[N] = D
      BY <1>12, <3>2, FS_Subset DEF D, N
    <3>4. QED
      BY <1>2, <3>3
  <2>2. QED
    BY <1>12, <2>1
<1>14. QED
  BY <1>7, <1>12, <1>13 DEF D, B, Next

-----------------------------------------------------------------------------
(* The permission of a deployment.                                         *)

\* An engine, or a recovery state, of the types of its fields.
Deployed(d) ==
  /\ d = [health |-> d.health, alerts |-> d.alerts, updates |-> d.updates,
          permission |-> d.permission, restricted |-> d.restricted]
  /\ DOMAIN d.health \subseteq Components
  /\ \A c \in DOMAIN d.health : d.health[c] \in ComponentHealthRecord
  /\ d.permission \in HealthState /\ d.restricted \in BOOLEAN
  /\ d.updates \in Seq(UpdateRecord) /\ d.alerts \in Seq(OperationalAlert)

\* Its permission is no better than a severe report.
SevereIn(d) ==
  \A c \in DOMAIN d.health :
    d.health[c].state \in {"SUSPENDED", "FAILED"} =>
      HealthRank[d.permission] >= HealthRank[d.health[c].state]

\* The inductive invariant: a recovery state holds the permission as the engine does.
DeploymentInvariant ==
  /\ depEased \in BOOLEAN
  /\ Deployed(dep) /\ (depEased \/ SevereIn(dep))
  /\ depSaved # None => Deployed(depSaved) /\ (depEased \/ SevereIn(depSaved))

\* The health states have these ranks.
LEMMA RankFacts ==
  /\ \A s \in HealthState : HealthRank[s] \in 0..6
  /\ HealthRank["HEALTHY"] = 0 /\ HealthRank["RECOVERY_PENDING"] = 4
  /\ HealthRank["SUSPENDED"] = 5 /\ HealthRank["FAILED"] = 6
BY DEF HealthRank, HealthState

\* A report makes the permission no better, unless nothing severe was held.
LEMMA PermissionFacts ==
  ASSUME dep.permission \in HealthState, NEW state \in HealthState
  PROVE  /\ PermissionAfter(state) \in HealthState
         /\ HealthRank[PermissionAfter(state)] >= HealthRank[state]
         /\ \/ HealthRank[PermissionAfter(state)] >= HealthRank[dep.permission]
            \/ HealthRank[dep.permission] = 4
<1>1. HealthRank[state] \in 0..6 /\ HealthRank[dep.permission] \in 0..6
  BY RankFacts
<1>2. CASE HealthRank[state] > HealthRank[dep.permission]
  BY <1>1, <1>2 DEF PermissionAfter
<1>3. CASE ~(HealthRank[state] > HealthRank[dep.permission])
  <2>1. CASE dep.permission = "RECOVERY_PENDING" /\ state = "HEALTHY"
    <3>1. PermissionAfter(state) = "HEALTHY"
      BY <1>3, <2>1 DEF PermissionAfter
    <3>2. QED
      BY <2>1, <3>1, RankFacts
  <2>2. CASE ~(dep.permission = "RECOVERY_PENDING" /\ state = "HEALTHY")
    <3>1. PermissionAfter(state) = dep.permission
      BY <1>3, <2>2 DEF PermissionAfter
    <3>2. QED
      BY <1>1, <1>3, <3>1
  <2>3. QED
    BY <2>1, <2>2
<1>4. QED
  BY <1>2, <1>3

\* A deployment begins with nothing reported.
LEMMA FreshDeployed == Deployed(FreshDep) /\ SevereIn(FreshDep)
<1>1. FreshDep = [health |-> FreshDep.health, alerts |-> FreshDep.alerts,
                  updates |-> FreshDep.updates, permission |-> FreshDep.permission,
                  restricted |-> FreshDep.restricted]
  BY DEF FreshDep
<1>2. /\ DOMAIN FreshDep.health = {} /\ FreshDep.permission = "RECOVERY_PENDING"
      /\ FreshDep.restricted = FALSE /\ FreshDep.updates = <<>> /\ FreshDep.alerts = <<>>
  BY DEF FreshDep
<1>3. <<>> \in Seq(UpdateRecord) /\ <<>> \in Seq(OperationalAlert)
  OBVIOUS
<1>4. "RECOVERY_PENDING" \in HealthState
  BY DEF HealthState
<1>5. QED
  BY <1>1, <1>2, <1>3, <1>4 DEF Deployed, SevereIn

\* A deployment begins sound.
LEMMA InitDeployment == DepInit => DeploymentInvariant
BY FreshDeployed DEF DepInit, DeploymentInvariant

\* publish_health: a severe report is in the permission, by PermissionFacts.
LEMMA PublishKeeps ==
  ASSUME DeploymentInvariant, NEW c \in Components, NEW s \in Reports,
         NEW d \in SUBSET Components, PublishHealth(c, s, d)
  PROVE  DeploymentInvariant'
<1> DEFINE health == [e \in DOMAIN dep.health \cup {c} |->
                        IF e = c THEN [state |-> s, dependencies |-> d] ELSE dep.health[e]]
           new == PermissionAfter(s)
<1>1. /\ dep' = [dep EXCEPT !.health = health, !.permission = new]
      /\ UNCHANGED <<depSaved, depEased>>
  BY DEF PublishHealth
<1>2. s \in HealthState /\ Deployed(dep)
  BY DeploymentAssumption DEF DeploymentAssumption, DeploymentInvariant
<1>3. /\ new \in HealthState /\ HealthRank[new] >= HealthRank[s]
      /\ HealthRank[new] >= HealthRank[dep.permission] \/ HealthRank[dep.permission] = 4
  BY <1>2, PermissionFacts DEF Deployed
<1>4. /\ DOMAIN health = DOMAIN dep.health \cup {c}
      /\ health[c] = [state |-> s, dependencies |-> d]
      /\ \A e \in DOMAIN dep.health : e # c => health[e] = dep.health[e]
  OBVIOUS
<1> HIDE DEF health, new
<1>5. dep' = [health |-> health, alerts |-> dep.alerts, updates |-> dep.updates,
              permission |-> new, restricted |-> dep.restricted]
  BY <1>1, <1>2 DEF Deployed
<1>6. Deployed(dep')
  <2>1. [state |-> s, dependencies |-> d] \in ComponentHealthRecord
    BY <1>2 DEF ComponentHealthRecord
  <2>2. QED
    BY <1>2, <1>3, <1>4, <1>5, <2>1 DEF Deployed
<1>7. SevereIn(dep) => SevereIn(dep')
  <2>1. SUFFICES ASSUME SevereIn(dep), NEW e \in DOMAIN health,
                        health[e].state \in {"SUSPENDED", "FAILED"}
                 PROVE  HealthRank[new] >= HealthRank[health[e].state]
    BY <1>5 DEF SevereIn
  <2>2. CASE e = c
    BY <1>3, <1>4, <2>2
  <2>3. CASE e # c
    <3>1. /\ e \in DOMAIN dep.health /\ health[e] = dep.health[e]
          /\ HealthRank[dep.permission] >= HealthRank[health[e].state]
      BY <1>4, <2>1, <2>3 DEF SevereIn
    <3>2. HealthRank[health[e].state] \in 5..6
      BY <2>1, RankFacts
    <3>3. HealthRank[new] \in 0..6 /\ HealthRank[dep.permission] \in 0..6
      BY <1>2, <1>3, RankFacts DEF Deployed
    <3>4. QED
      BY <1>3, <3>1, <3>2, <3>3
  <2>4. QED
    BY <2>2, <2>3
<1>8. QED
  BY <1>1, <1>6, <1>7 DEF DeploymentInvariant

\* What is left of an engine but for its updates, alerts and permission.
Changed(updates, alerts, permission) ==
  dep' = [health |-> dep.health, alerts |-> alerts, updates |-> updates,
          permission |-> permission, restricted |-> dep.restricted]

\* A call that keeps the permission, or restores an earlier one, keeps the invariant.
LEMMA RecordsKeep ==
  ASSUME DeploymentInvariant, NEW updates \in Seq(UpdateRecord),
         NEW alerts \in Seq(OperationalAlert), NEW permission \in HealthState,
         Changed(updates, alerts, permission),
         \/ permission = dep.permission /\ depEased' = depEased
         \/ depEased' = TRUE,
         depSaved' = depSaved
  PROVE  DeploymentInvariant'
<1>1. Deployed(dep)
  BY DEF DeploymentInvariant
<1>2. dep' = [health |-> dep.health, alerts |-> alerts, updates |-> updates,
              permission |-> permission, restricted |-> dep.restricted]
  BY DEF Changed
<1>3. Deployed(dep')
  BY <1>1, <1>2 DEF Deployed
<1>4. permission = dep.permission /\ SevereIn(dep) => SevereIn(dep')
  BY <1>2 DEF SevereIn
<1>5. QED
  BY <1>3, <1>4 DEF DeploymentInvariant

\* prepare_update keeps the permission.
LEMMA PrepareKeeps ==
  ASSUME DeploymentInvariant, NEW m \in Manifests, NEW ok \in BOOLEAN, PrepareUpdate(m, ok)
  PROVE  DeploymentInvariant'
<1> DEFINE new == [id |-> <<m, ok>>, state |-> IF ok THEN "READY" ELSE "BLOCKED",
                   previous |-> dep.permission, resulting |-> dep.permission]
<1>1. Deployed(dep)
  BY DEF DeploymentInvariant
<1>2. new \in UpdateRecord
  BY <1>1 DEF Deployed, UpdateRecord, UpdateState
<1>3. dep' = [dep EXCEPT !.updates = Put(@, new)] /\ UNCHANGED <<depSaved, depEased>>
  BY DEF PrepareUpdate
<1> HIDE DEF new
<1>4. Put(dep.updates, new) \in Seq(UpdateRecord)
  BY <1>1, <1>2, PutFacts DEF Deployed
<1>5. /\ Changed(Put(dep.updates, new), dep.alerts, dep.permission)
      /\ dep.alerts \in Seq(OperationalAlert) /\ dep.permission \in HealthState
  BY <1>1, <1>3 DEF Deployed, Changed
<1>6. QED
  BY <1>3, <1>4, <1>5, RecordsKeep

\* complete_update restores the permission that the preparation captured.
LEMMA CompleteKeeps ==
  ASSUME DeploymentInvariant, NEW m \in Manifests, NEW success \in BOOLEAN,
         CompleteUpdate(m, success)
  PROVE  DeploymentInvariant'
<1> DEFINE record == Entry(dep.updates, <<m, TRUE>>)
           result == Resulting(record, success)
           new == [record EXCEPT !.state = IF success THEN "APPLIED" ELSE "ROLLED_BACK",
                                 !.resulting = result]
           updates == Evicted(Put(dep.updates, new), MaxUpdates)
<1>1. Deployed(dep) /\ MaxUpdates \in Nat
  BY DeploymentAssumption
     DEF DeploymentInvariant, DeploymentAssumption, DeploymentConfiguration
<1>2. record \in UpdateRecord
  BY <1>1, EntryFacts DEF CompleteUpdate, Deployed
<1>3. result \in HealthState
  <2>1. record.previous \in HealthState /\ "RESTRICTED" \in HealthState
    BY <1>2 DEF UpdateRecord, HealthState
  <2> HIDE DEF record
  <2>2. QED
    BY <2>1 DEF Resulting, WorseHealth
<1>4. /\ dep' = [dep EXCEPT !.permission = result, !.updates = updates]
      /\ depEased' = TRUE /\ UNCHANGED depSaved
  BY DEF CompleteUpdate
<1> HIDE DEF result, record
<1>5. new \in UpdateRecord
  BY <1>2, <1>3 DEF UpdateRecord, UpdateState
<1> HIDE DEF new
<1>6. Put(dep.updates, new) \in Seq(UpdateRecord)
  BY <1>1, <1>5, PutFacts DEF Deployed
<1>7. updates \in Seq(UpdateRecord)
  BY <1>1, <1>6, EvictedFacts
<1> HIDE DEF updates
<1>8. Changed(updates, dep.alerts, result) /\ dep.alerts \in Seq(OperationalAlert)
  BY <1>1, <1>4 DEF Deployed, Changed
<1>9. QED
  BY <1>3, <1>4, <1>7, <1>8, RecordsKeep

\* A call that is about alerts only keeps the invariant.
LEMMA AlertsKeep ==
  ASSUME DeploymentInvariant, NEW alerts \in Seq(OperationalAlert),
         dep' = [dep EXCEPT !.alerts = alerts], UNCHANGED <<depSaved, depEased>>
  PROVE  DeploymentInvariant'
<1>1. dep.updates \in Seq(UpdateRecord) /\ dep.permission \in HealthState
  BY DEF DeploymentInvariant, Deployed
<1> DEFINE same == dep.updates
           held == dep.permission
<1>3. Changed(same, alerts, held)
  BY DEF DeploymentInvariant, Deployed, Changed
<1>2. QED
  BY <1>1, <1>3, RecordsKeep

\* raise_alert is about alerts only.
LEMMA RaiseKeeps ==
  ASSUME DeploymentInvariant, NEW a \in Alerts, NEW at \in Time, RaiseAlert(a, at)
  PROVE  DeploymentInvariant'
<1> DEFINE new == [id |-> a, first |-> at, last |-> at, count |-> 1, resolved |-> None]
           again == Recounted(Entry(dep.alerts, a), at)
<1>1. dep.alerts \in Seq(OperationalAlert) /\ MaxAlerts \in Nat
  BY DeploymentAssumption
     DEF DeploymentInvariant, Deployed, DeploymentAssumption, DeploymentConfiguration
<1>2. CASE Repeats(a, at)
  <2>1. Entry(dep.alerts, a) \in OperationalAlert
    BY <1>1, <1>2, EntryFacts DEF Repeats
  <2>2. Entry(dep.alerts, a).count + 1 \in Nat
    BY <2>1 DEF OperationalAlert
  <2>3. again \in OperationalAlert
    BY <2>1, <2>2 DEF OperationalAlert, Recounted
  <2>4. dep' = [dep EXCEPT !.alerts = Put(@, again)] /\ UNCHANGED <<depSaved, depEased>>
    BY <1>2 DEF RaiseAlert
  <2> HIDE DEF again
  <2>5. Put(dep.alerts, again) \in Seq(OperationalAlert)
    BY <1>1, <2>3, PutFacts
  <2>6. QED
    BY <2>4, <2>5, AlertsKeep
<1>3. CASE ~Repeats(a, at)
  <2>1. new \in OperationalAlert
    BY DEF OperationalAlert
  <2>2. /\ dep' = [dep EXCEPT !.alerts = Evicted(Put(@, new), MaxAlerts)]
        /\ UNCHANGED <<depSaved, depEased>>
    BY <1>3 DEF RaiseAlert
  <2> HIDE DEF new
  <2>3. Put(dep.alerts, new) \in Seq(OperationalAlert)
    BY <1>1, <2>1, PutFacts
  <2>4. Evicted(Put(dep.alerts, new), MaxAlerts) \in Seq(OperationalAlert)
    BY <1>1, <2>3, EvictedFacts
  <2>5. QED
    BY <2>2, <2>4, AlertsKeep
<1>4. QED
  BY <1>2, <1>3

\* resolve_alert is about alerts only.
LEMMA ResolveKeeps ==
  ASSUME DeploymentInvariant, NEW a \in Alerts, NEW at \in Time, ResolveAlert(a, at)
  PROVE  DeploymentInvariant'
<1> DEFINE new == [Entry(dep.alerts, a) EXCEPT !.resolved = at]
<1>1. dep.alerts \in Seq(OperationalAlert) /\ Held(dep.alerts, a)
  BY DEF DeploymentInvariant, Deployed, ResolveAlert
<1>2. Entry(dep.alerts, a) \in OperationalAlert
  BY <1>1, EntryFacts
<1>3. new \in OperationalAlert
  BY <1>2 DEF OperationalAlert
<1>4. dep' = [dep EXCEPT !.alerts = Put(@, new)] /\ UNCHANGED <<depSaved, depEased>>
  BY DEF ResolveAlert
<1> HIDE DEF new
<1>5. Put(dep.alerts, new) \in Seq(OperationalAlert)
  BY <1>1, <1>3, PutFacts
<1>6. QED
  BY <1>4, <1>5, AlertsKeep

\* The engine is given up, or given a recovery state, or refuses one.
LEMMA RecoveryKeepsDeployment ==
  ASSUME DeploymentInvariant, StopDep \/ RestoreDep \/ RestoreDepIncompatible
  PROVE  DeploymentInvariant'
<1>1. CASE StopDep
  <2>1. Deployed(FreshDep) /\ SevereIn(FreshDep)
    BY FreshDeployed
  <2>2. QED
    BY <1>1, <2>1 DEF StopDep, DeploymentInvariant
<1>2. CASE RestoreDep
  <2>1. depSaved # None /\ Deployed(depSaved) /\ (depEased \/ SevereIn(depSaved))
    BY <1>2 DEF RestoreDep, DeploymentInvariant
  <2>2. CASE Sound(depSaved)
    <3>1. dep' = [depSaved EXCEPT !.restricted = FALSE] /\ depEased' = (depEased \/ FALSE)
          /\ depSaved' = None
      BY <1>2, <2>2 DEF RestoreDep
    <3>2. dep' = [health |-> depSaved.health, alerts |-> depSaved.alerts,
                  updates |-> depSaved.updates, permission |-> depSaved.permission,
                  restricted |-> FALSE]
      BY <2>1, <3>1 DEF Deployed
    <3>3. Deployed(dep') /\ (SevereIn(depSaved) => SevereIn(dep'))
      BY <2>1, <3>2 DEF Deployed, SevereIn
    <3>4. depEased' = depEased
      BY <3>1 DEF DeploymentInvariant
    <3>5. QED
      BY <2>1, <3>1, <3>3, <3>4 DEF DeploymentInvariant
  <2>3. CASE ~Sound(depSaved)
    <3>1. /\ dep' = [depSaved EXCEPT !.permission = "RECOVERY_PENDING", !.restricted = TRUE]
          /\ depEased' = (depEased \/ TRUE) /\ depSaved' = None
      BY <1>2, <2>3 DEF RestoreDep
    <3>2. dep' = [health |-> depSaved.health, alerts |-> depSaved.alerts,
                  updates |-> depSaved.updates, permission |-> "RECOVERY_PENDING",
                  restricted |-> TRUE]
      BY <2>1, <3>1 DEF Deployed
    <3>3. "RECOVERY_PENDING" \in HealthState
      BY DEF HealthState
    <3>4. Deployed(dep')
      BY <2>1, <3>2, <3>3 DEF Deployed
    <3>5. QED
      BY <3>1, <3>4 DEF DeploymentInvariant
  <2>4. QED
    BY <2>2, <2>3
<1>3. CASE RestoreDepIncompatible
  <2>1. /\ dep' = [dep EXCEPT !.permission = "RECOVERY_PENDING", !.restricted = TRUE]
        /\ depEased' = TRUE /\ depSaved' = None /\ Deployed(dep)
    BY <1>3 DEF RestoreDepIncompatible, DeploymentInvariant
  <2>2. dep' = [health |-> dep.health, alerts |-> dep.alerts, updates |-> dep.updates,
                permission |-> "RECOVERY_PENDING", restricted |-> TRUE]
    BY <2>1 DEF Deployed
  <2>3. "RECOVERY_PENDING" \in HealthState
    BY DEF HealthState
  <2>4. Deployed(dep')
    BY <2>1, <2>2, <2>3 DEF Deployed
  <2>5. QED
    BY <2>1, <2>4 DEF DeploymentInvariant
<1>4. QED
  BY <1>1, <1>2, <1>3

\* The invariant of a deployment is inductive.
LEMMA NextDeployment == DeploymentInvariant /\ [DepNext]_depVars => DeploymentInvariant'
<1>1. SUFFICES ASSUME DeploymentInvariant, [DepNext]_depVars PROVE DeploymentInvariant'
  OBVIOUS
<1>2. CASE UNCHANGED depVars
  BY <1>1, <1>2 DEF depVars, DeploymentInvariant
<1>3. QED
  BY <1>1, <1>2, PublishKeeps, PrepareKeeps, CompleteKeeps, RaiseKeeps, ResolveKeeps,
     RecoveryKeepsDeployment
     DEF DepNext, HealthNext, UpdateNext, AlertNext

\* A severe report holds the permission, whatever else is reported and through a
\* restart, and the summary names exactly what a blocking component affects.
THEOREM DeploymentIsSound == DepSpec => []DeploymentSound
<1>1. DeploymentInvariant => DeploymentSound
  <2>1. SUFFICES ASSUME DeploymentInvariant PROVE DeploymentSound
    OBVIOUS
  <2>2. DepTypeOK /\ SevereHeld
    BY <2>1 DEF DeploymentInvariant, Deployed, SevereIn, DepTypeOK, SevereHeld
  <2>3. IsFiniteSet(DOMAIN dep.health)
    BY <2>1, FS_Subset, DeploymentAssumption
       DEF DeploymentInvariant, Deployed, DeploymentAssumption
  <2>4. AffectedLeast
    BY <2>3, AffectedFacts DEF AffectedLeast
  <2>5. QED
    BY <2>2, <2>4 DEF DeploymentSound
<1>2. QED
  BY <1>1, InitDeployment, NextDeployment, PTL DEF DepSpec

-----------------------------------------------------------------------------
(* Observation quality: what one evaluation publishes.                     *)

\* What is heard of one evaluation.
Hearing ==
  [raw : ResearchQualityState, published : ResearchQualityState, multiplier : Percent]

\* The snapshot counts the failures, or the good results, that end a history.
Follows(r, h) ==
  /\ h # <<>> /\ r.published = h[Len(h)].published
  /\ r.failures <= Len(h) /\ r.progress <= Len(h)
  /\ \A i \in 1..Len(h) : i > Len(h) - r.failures => h[i].raw \in Poor
  /\ r.failures < Len(h) => h[Len(h) - r.failures].raw \notin Poor
  /\ \A i \in 1..Len(h) : i > Len(h) - r.progress => h[i].raw \notin Poor
  /\ r.published \in Poor => r.progress < QualityConfirmations

\* What RecoveryIsConfirmed says of one evaluation.
Confirmed(h, n) ==
  /\ h[n].multiplier <= Multiplier(h[n].raw)
  /\ n > 1 /\ h[n].published \notin Poor /\ h[n - 1].published \in Poor =>
       /\ n >= QualityConfirmations
       /\ \A i \in (n - QualityConfirmations + 1)..n : h[i].raw \notin Poor
  /\ n >= FailureLimit /\ (\A i \in (n - FailureLimit + 1)..n : h[i].raw \in Poor) =>
       h[n].multiplier = 0

\* What the configuration of the quality engine promises.
LEMMA ConfigurationFacts ==
  /\ QualityConfirmations \in Nat /\ QualityConfirmations >= 1
  /\ FailureLimit \in Nat /\ FailureLimit >= 1
  /\ MaxSnapshots \in Nat /\ MaxSnapshots >= 1 /\ MaxScopeHistory \in Nat
  /\ PoorMultiplier \in 0..100 /\ DegradedMultiplier \in 0..100
  /\ PoorMultiplier <= DegradedMultiplier
BY QualityAssumption DEF QualityAssumption, QualityConfiguration, Percent

\* A poor state has no larger multiplier than another one.
LEMMA MultiplierFacts ==
  /\ \A s \in ResearchQualityState : Multiplier(s) \in 0..100
  /\ \A s \in Poor, r \in ResearchQualityState \ Poor : Multiplier(s) <= Multiplier(r)
  /\ Multiplier("UNTRUSTED") = 0
  /\ \A r \in ResearchQualityState : /\ Multiplier("UNTRUSTED") <= Multiplier(r)
                                     /\ Multiplier(r) <= Multiplier(r)
BY ConfigurationFacts DEF Multiplier, ResearchQualityState, Poor

\* What evaluate publishes after a history.
LEMMA EvaluationFacts ==
  ASSUME NEW raw \in ResearchQualityState, NEW previous, NEW h \in Seq(Hearing),
         NEW scope \in Scopes, NEW asOf \in Time, qualityEpoch \in Nat,
         \/ previous = None /\ h = <<>>
         \/ previous \in ResearchQualitySnapshot /\ Follows(previous, h)
  PROVE  LET r == Evaluation(scope, raw, previous, asOf)
             a == Append(h, [raw |-> raw, published |-> r.published,
                             multiplier |-> r.multiplier])
         IN /\ r \in ResearchQualitySnapshot /\ a \in Seq(Hearing)
            /\ Follows(r, a) /\ Confirmed(a, Len(a))
<1> DEFINE new == Published(raw, previous)
           state == IF new.failures >= FailureLimit THEN "UNTRUSTED" ELSE new.state
           r == Evaluation(scope, raw, previous, asOf)
           last == [raw |-> raw, published |-> r.published, multiplier |-> r.multiplier]
           a == Append(h, last)
           n == Len(h)
           known == previous # None
<1>1. known => previous \in ResearchQualitySnapshot /\ Follows(previous, h)
  OBVIOUS
<1>2. ~known => h = <<>>
  BY NoQualityIsNone
<1>3. known => /\ previous.failures \in Nat /\ previous.progress \in Nat
               /\ previous.published \in ResearchQualityState
  BY <1>1 DEF ResearchQualitySnapshot
<1>4. n \in Nat /\ Len(a) = n + 1 /\ a[n + 1] = last /\ \A i \in 1..n : a[i] = h[i]
  OBVIOUS
<1>5. /\ raw \in Poor => /\ new.state = raw /\ new.progress = 0
                         /\ new.failures = IF known THEN previous.failures + 1 ELSE 1
      /\ raw \notin Poor => new.failures = 0
      /\ raw \notin Poor /\ known /\ previous.published \in Poor
         /\ previous.progress + 1 < QualityConfirmations =>
           new.state = previous.published /\ new.progress = previous.progress + 1
      /\ raw \notin Poor /\ ~(known /\ previous.published \in Poor
                              /\ previous.progress + 1 < QualityConfirmations) =>
           new.state = raw /\ new.progress = 0
  BY DEF Published
<1> HIDE DEF new
<1>6. new.failures \in Nat /\ new.progress \in Nat /\ new.state \in ResearchQualityState
  BY <1>3, <1>5
<1>7. state \in ResearchQualityState
  BY <1>6 DEF ResearchQualityState
<1>8. /\ r.failures = new.failures /\ r.progress = new.progress
      /\ r.published = state /\ r.multiplier = Multiplier(state)
      /\ r = [id |-> <<scope, raw, state, new.failures, new.progress, asOf, qualityEpoch>>,
              scope |-> scope, raw |-> raw, published |-> state,
              multiplier |-> Multiplier(state), failures |-> new.failures,
              progress |-> new.progress, epoch |-> qualityEpoch]
  BY DEF Evaluation, new
<1>9. Multiplier(state) \in Percent
  BY <1>7, MultiplierFacts DEF Percent
<1> HIDE DEF state, r
<1>10. r \in ResearchQualitySnapshot
  BY <1>6, <1>7, <1>8, <1>9 DEF ResearchQualitySnapshot
<1>11. last \in Hearing
  BY <1>7, <1>8, <1>9 DEF Hearing
<1>12. last.raw = raw /\ last.published = state /\ last.multiplier = Multiplier(state)
  BY <1>8
<1>13. a \in Seq(Hearing)
  BY <1>11
<1> HIDE DEF last, a, n
<1>14. state # new.state => raw \in Poor /\ new.failures >= FailureLimit /\ state = "UNTRUSTED"
  BY <1>5, <1>6, ConfigurationFacts DEF state
<1>15. known => /\ n >= 1 /\ previous.published = h[n].published
                /\ previous.failures <= n /\ previous.progress <= n
                /\ \A i \in 1..n : i > n - previous.failures => h[i].raw \in Poor
                /\ previous.failures < n => h[n - previous.failures].raw \notin Poor
                /\ \A i \in 1..n : i > n - previous.progress => h[i].raw \notin Poor
                /\ previous.published \in Poor => previous.progress < QualityConfirmations
  BY <1>1 DEF Follows, n
<1>16. ~known => n = 0
  BY <1>2 DEF n
<1> HIDE DEF known
<1>17. /\ r.failures <= n + 1
       /\ \A i \in 1..(n + 1) : i > (n + 1) - r.failures => a[i].raw \in Poor
       /\ r.failures < n + 1 => a[(n + 1) - r.failures].raw \notin Poor
  <2>1. CASE raw \notin Poor
    BY <1>4, <1>5, <1>8, <1>12, <2>1
  <2>2. CASE raw \in Poor /\ known
    <3>1. r.failures = previous.failures + 1 /\ previous.failures \in Nat
      BY <1>3, <1>5, <1>8, <2>2
    <3>2. \A i \in 1..(n + 1) : i \in 1..n \/ i = n + 1
      BY <1>4
    <3>3. ASSUME NEW i \in 1..(n + 1), i > (n + 1) - r.failures PROVE a[i].raw \in Poor
      <4>1. CASE i = n + 1
        BY <1>4, <1>12, <2>2, <4>1
      <4>2. CASE i \in 1..n
        BY <1>4, <1>15, <2>2, <3>1, <3>3, <4>2
      <4>3. QED
        BY <3>2, <4>1, <4>2
    <3>4. ASSUME r.failures < n + 1 PROVE a[(n + 1) - r.failures].raw \notin Poor
      <4>1. (n + 1) - r.failures = n - previous.failures /\ previous.failures < n
            /\ n - previous.failures \in 1..n
        BY <1>4, <3>1, <3>4
      <4>2. QED
        BY <1>4, <1>15, <2>2, <4>1
    <3>5. QED
      BY <1>4, <1>15, <2>2, <3>1, <3>3, <3>4
  <2>3. CASE raw \in Poor /\ ~known
    <3>1. r.failures = 1 /\ n = 0
      BY <1>5, <1>8, <1>16, <2>3
    <3>2. QED
      BY <1>4, <1>12, <2>3, <3>1
  <2>4. QED
    BY <2>1, <2>2, <2>3
<1> DEFINE steps == raw \notin Poor /\ known /\ previous.published \in Poor
                    /\ previous.progress + 1 < QualityConfirmations
<1>18. /\ steps => r.progress = previous.progress + 1 /\ previous.progress \in Nat
       /\ ~steps => r.progress = 0
  BY <1>3, <1>5, <1>8
<1>19. /\ r.progress <= n + 1
       /\ \A i \in 1..(n + 1) : i > (n + 1) - r.progress => a[i].raw \notin Poor
  <2>1. CASE ~steps
    BY <1>4, <1>18, <2>1
  <2>2. CASE steps
    <3>1. \A i \in 1..(n + 1) : i \in 1..n \/ i = n + 1
      BY <1>4
    <3>2. ASSUME NEW i \in 1..(n + 1), i > (n + 1) - r.progress PROVE a[i].raw \notin Poor
      <4>1. CASE i = n + 1
        BY <1>4, <1>12, <2>2, <4>1
      <4>2. CASE i \in 1..n
        BY <1>4, <1>15, <1>18, <2>2, <3>2, <4>2
      <4>3. QED
        BY <3>1, <4>1, <4>2
    <3>3. QED
      BY <1>4, <1>15, <1>18, <2>2, <3>2
  <2>3. QED
    BY <2>1, <2>2
<1>20. state \in Poor => r.progress < QualityConfirmations
  <2>1. CASE steps
    BY <1>18, <2>1
  <2>2. CASE ~steps
    BY <1>18, <2>2, ConfigurationFacts
  <2>3. QED
    BY <2>1, <2>2
<1>21. Follows(r, a)
  <2>1. a # <<>> /\ r.published = a[Len(a)].published
    BY <1>4, <1>8, <1>12
  <2>2. QED
    BY <1>4, <1>8, <1>17, <1>19, <1>20, <2>1 DEF Follows
<1>22. last.multiplier <= Multiplier(last.raw)
  <2>1. Multiplier(state) <= Multiplier(raw)
    <3>1. CASE state # new.state
      BY <1>14, <3>1, MultiplierFacts
    <3>2. CASE state = new.state /\ new.state = raw
      BY <3>2, MultiplierFacts
    <3>3. CASE state = new.state /\ new.state # raw
      <4>1. raw \notin Poor /\ new.state \in Poor
        BY <1>5, <3>3
      <4>2. QED
        BY <3>3, <4>1, MultiplierFacts
    <3>4. QED
      BY <3>1, <3>2, <3>3
  <2>2. Multiplier(last.raw) = Multiplier(raw) /\ last.multiplier = Multiplier(state)
    BY <1>12
  <2>3. QED
    BY <2>1, <2>2
<1>23. ASSUME n + 1 > 1, state \notin Poor, h[n].published \in Poor
       PROVE  /\ n + 1 >= QualityConfirmations
              /\ \A i \in ((n + 1) - QualityConfirmations + 1)..(n + 1) : a[i].raw \notin Poor
  <2>1. known /\ previous.published \in Poor
    BY <1>4, <1>15, <1>16, <1>23
  <2>2. state = new.state
    BY <1>14, <1>23 DEF Poor, ResearchQualityState
  <2>3. raw \notin Poor /\ previous.progress + 1 >= QualityConfirmations
    BY <1>3, <1>5, <1>23, <2>1, <2>2, ConfigurationFacts
  <2>4. /\ previous.progress \in Nat /\ previous.progress + 1 = QualityConfirmations
        /\ previous.progress <= n
    BY <1>3, <1>15, <2>1, <2>3, ConfigurationFacts
  <2>5. ASSUME NEW i \in ((n + 1) - QualityConfirmations + 1)..(n + 1)
        PROVE  a[i].raw \notin Poor
    <3>1. CASE i = n + 1
      BY <1>4, <1>12, <2>3, <3>1
    <3>2. CASE i # n + 1
      <4>1. i \in 1..n /\ i > n - previous.progress
        BY <1>4, <2>4, <2>5, <3>2
      <4>2. QED
        BY <1>4, <1>15, <2>1, <4>1
    <3>3. QED
      BY <3>1, <3>2
  <2>6. QED
    BY <1>4, <2>4, <2>5
<1>24. ASSUME n + 1 >= FailureLimit,
              \A i \in ((n + 1) - FailureLimit + 1)..(n + 1) : a[i].raw \in Poor
       PROVE  last.multiplier = 0
  <2>1. n + 1 \in ((n + 1) - FailureLimit + 1)..(n + 1)
    BY <1>4, ConfigurationFacts
  <2>2. raw \in Poor
    BY <1>4, <1>12, <1>24, <2>1
  <2>3. new.failures >= FailureLimit
    <3>1. CASE ~known
      BY <1>5, <1>16, <1>24, <2>2, <3>1, ConfigurationFacts
    <3>2. CASE known
      <4>1. new.failures = previous.failures + 1 /\ previous.failures \in Nat
        BY <1>3, <1>5, <2>2, <3>2
      <4>2. SUFFICES ASSUME previous.failures + 1 < FailureLimit PROVE FALSE
        BY <4>1, ConfigurationFacts
      <4>3. previous.failures < n
        BY <1>4, <1>24, <4>1, <4>2, ConfigurationFacts
      <4>4. /\ n - previous.failures \in 1..n
            /\ n - previous.failures \in ((n + 1) - FailureLimit + 1)..(n + 1)
        BY <1>4, <4>1, <4>2, <4>3, ConfigurationFacts
      <4>5. QED
        BY <1>4, <1>15, <1>24, <3>2, <4>3, <4>4
    <3>3. QED
      BY <3>1, <3>2
  <2>4. state = "UNTRUSTED"
    BY <2>3 DEF state
  <2>5. QED
    BY <1>12, <2>4, MultiplierFacts
<1>25. Confirmed(a, n + 1)
  <2>1. n + 1 > 1 => a[(n + 1) - 1] = h[n]
    BY <1>4
  <2>2. QED
    BY <1>4, <1>12, <1>22, <1>23, <1>24, <2>1 DEF Confirmed
<1>26. QED
  BY <1>4, <1>10, <1>13, <1>21, <1>25 DEF r, a, last

\* What is made of an observation is one of the states.
LEMMA RawFacts ==
  ASSUME NEW o, NEW observations, NEW asOf, NEW evidence
  PROVE  Raw(o, observations, asOf, evidence) \in ResearchQualityState
<1> DEFINE b == Baseline(observations, asOf)
           observed == Observed(o, b, asOf)
<1>1. \A r \in DeviationRegime : StateOf[r] \in ResearchQualityState
  BY DEF DeviationRegime, StateOf, ResearchQualityState
<1>2. \A v, m : Regime(v, m) \in DeviationRegime
  BY DEF Regime, DeviationRegime
<1> HIDE DEF b
<1>3. observed \in ResearchQualityState
  <2>1. CASE b = None
    BY <2>1 DEF Observed, ResearchQualityState
  <2>2. CASE b # None /\ DeviationHealth(o, b, asOf) = "STALE"
    BY <2>2 DEF Observed, ResearchQualityState
  <2>3. CASE b # None /\ DeviationHealth(o, b, asOf) = "INVALID"
    BY <2>3 DEF Observed, ResearchQualityState
  <2>4. CASE /\ b # None /\ DeviationHealth(o, b, asOf) # "STALE"
             /\ DeviationHealth(o, b, asOf) # "INVALID"
    <3>1. observed = StateOf[Regime(o.value, b.median2)]
      BY <2>4 DEF Observed
    <3>2. QED
      BY <1>1, <1>2, <3>1
  <2>5. QED
    BY <2>1, <2>2, <2>3, <2>4
<1>4. Raw(o, observations, asOf, evidence) \in {observed, "UNTRUSTED", "DEGRADED"}
  BY DEF Raw, b
<1> HIDE DEF observed
<1>5. QED
  BY <1>3, <1>4 DEF ResearchQualityState

\* No two entries of a store have one identity.
Distinct(store) == \A i, j \in 1..Len(store) : store[i].id = store[j].id => i = j

\* A store without an identity has its other entries, in their order.
Dropped(S, store, id) ==
  /\ Without(store, id) \in Seq(S) /\ Distinct(Without(store, id))
  /\ \A j \in 1..Len(Without(store, id)) :
       \E i \in 1..Len(store) : Without(store, id)[j] = store[i] /\ store[i].id # id
  /\ \A i \in 1..Len(store) : store[i].id # id =>
       \E j \in 1..Len(Without(store, id)) : Without(store, id)[j] = store[i]

\* Without drops one entry of a store whose identities are distinct.
LEMMA DroppedFacts ==
  ASSUME NEW S, NEW store \in Seq(S), NEW id, Distinct(store)
  PROVE  Dropped(S, store, id)
<1>1. Len(store) \in Nat /\ DOMAIN store = 1..Len(store)
  OBVIOUS
<1>2. CASE ~Held(store, id)
  <2>1. \A i \in 1..Len(store) : store[i].id # id
    BY <1>1, <1>2 DEF Held, Holding
  <2>2. Without(store, id) = store
    BY <1>2 DEF Without
  <2>3. QED
    BY <2>1, <2>2 DEF Dropped
<1>3. CASE Held(store, id)
  <2> DEFINE x == CHOOSE i \in Holding(store, id) : TRUE
             after == RemoveAt(store, x)
  <2>1. x \in 1..Len(store) /\ store[x].id = id
    BY <1>1, <1>3 DEF Held, Holding
  <2>2. Without(store, id) = after
    BY <1>3 DEF Without
  <2> HIDE DEF x
  <2>3. /\ after \in Seq(S) /\ Len(after) = Len(store) - 1
        /\ \A j \in 1..(Len(store) - 1) :
             after[j] = IF j < x THEN store[j] ELSE store[j + 1]
    BY <2>1, RemovedFacts
  <2> HIDE DEF after
  <2>4. \A i \in 1..Len(store) : store[i].id = id <=> i = x
    BY <2>1 DEF Distinct
  <2> DEFINE From(j) == IF j < x THEN j ELSE j + 1
  <2>5. \A j \in 1..Len(after) :
          From(j) \in 1..Len(store) /\ From(j) # x /\ after[j] = store[From(j)]
    BY <1>1, <2>1, <2>3
  <2>6. \A j, k \in 1..Len(after) : From(j) = From(k) => j = k
    BY <1>1, <2>1, <2>3
  <2>7. ASSUME NEW i \in 1..Len(store), i # x
        PROVE  \E j \in 1..Len(after) : From(j) = i
    <3>1. CASE i < x
      BY <1>1, <2>1, <2>3, <3>1
    <3>2. CASE i > x
      <4>1. i - 1 \in 1..Len(after) /\ From(i - 1) = i
        BY <1>1, <2>1, <2>3, <3>2
      <4>2. QED
        BY <4>1
    <3>3. QED
      BY <1>1, <2>1, <2>7, <3>1, <3>2
  <2> HIDE DEF From
  <2>8. Distinct(after)
    <3>1. SUFFICES ASSUME NEW j \in 1..Len(after), NEW k \in 1..Len(after),
                          after[j].id = after[k].id
                   PROVE  j = k
      BY DEF Distinct
    <3>2. store[From(j)].id = store[From(k)].id
      BY <2>5, <3>1
    <3>3. From(j) = From(k)
      BY <2>5, <3>2 DEF Distinct
    <3>4. QED
      BY <2>6, <3>3
  <2>9. \A j \in 1..Len(after) :
          \E i \in 1..Len(store) : after[j] = store[i] /\ store[i].id # id
    BY <2>4, <2>5
  <2>10. \A i \in 1..Len(store) : store[i].id # id =>
           \E j \in 1..Len(after) : after[j] = store[i]
    BY <2>4, <2>5, <2>7
  <2>11. QED
    BY <2>2, <2>3, <2>8, <2>9, <2>10 DEF Dropped
<1>4. QED
  BY <1>2, <1>3

\* There is at most one entry for each identity of a finite set.
LEMMA DistinctFits ==
  ASSUME NEW S, NEW T, IsFiniteSet(T), NEW store \in Seq(S), Distinct(store),
         \A i \in 1..Len(store) : store[i].id \in T
  PROVE  Len(store) <= Cardinality(T)
<1> DEFINE f == [i \in 1..Len(store) |-> store[i].id]
<1>1. Len(store) \in Nat
  OBVIOUS
<1>2. f \in Injection(1..Len(store), T)
  BY DEF Injection, IsInjective, Distinct
<1> HIDE DEF f
<1>3. Cardinality(1..Len(store)) <= Cardinality(T)
  BY <1>2, FS_Injection
<1>4. Cardinality(1..Len(store)) = Len(store)
  BY <1>1, FS_Interval
<1>5. QED
  BY <1>3, <1>4

\* The latest snapshots, one of each scope of which anything was heard.
Tracks(latest, told) ==
  /\ latest \in Seq(LatestSnapshot) /\ Distinct(latest)
  /\ \A s \in Scopes : told[s] # <<>> => \E i \in 1..Len(latest) : latest[i].id = s
  /\ \A i \in 1..Len(latest) : Follows(latest[i].result, told[latest[i].id])

\* The inductive invariant: an engine, or a recovery state, tracks what was heard.
QualityInvariant ==
  /\ qualityEpoch \in Nat
  /\ heard \in [Scopes -> Seq(Hearing)]
  /\ \A s \in Scopes : \A n \in 1..Len(heard[s]) : Confirmed(heard[s], n)
  /\ quality = [latest |-> quality.latest, histories |-> quality.histories,
                snapshots |-> quality.snapshots, restricted |-> quality.restricted]
  /\ quality.histories \in [Scopes -> Seq(ResearchQualitySnapshot)]
  /\ qualitySaved = None => Tracks(quality.latest, heard)
  /\ qualitySaved # None =>
       /\ qualitySaved \in QualityRecoveryState /\ Tracks(qualitySaved.latest, heard)
       /\ quality.latest = <<>>

\* The bounded store of latest snapshots has room for all scopes.
RoomForAll == IsFiniteSet(Scopes) /\ Cardinality(Scopes) <= MaxSnapshots

\* With room for all scopes no latest snapshot is evicted.
LEMMA LatestFits ==
  ASSUME RoomForAll, NEW latest \in Seq(LatestSnapshot), Distinct(latest)
  PROVE  Evicted(latest, MaxSnapshots) = latest
<1>1. \A i \in 1..Len(latest) : latest[i] \in LatestSnapshot
  OBVIOUS
<1>2. \A i \in 1..Len(latest) : latest[i].id \in Scopes
  BY <1>1 DEF LatestSnapshot
<1>3. Len(latest) <= Cardinality(Scopes) /\ Cardinality(Scopes) \in Nat
  BY <1>2, DistinctFits, FS_CardinalityType DEF RoomForAll
<1>4. Len(latest) <= MaxSnapshots /\ Len(latest) \in Nat
  BY <1>3, ConfigurationFacts DEF RoomForAll
<1>5. QED
  BY <1>4 DEF Evicted

\* Nothing is tracked when nothing was heard.
LEMMA NothingTracked == Tracks(<<>>, [s \in Scopes |-> <<>>])
<1>1. <<>> \in Seq(LatestSnapshot) /\ Len(<<>>) = 0
  OBVIOUS
<1>2. QED
  BY <1>1 DEF Tracks, Distinct

\* The quality engine begins with nothing heard.
LEMMA InitQuality == QualityInit => QualityInvariant
<1>1. SUFFICES ASSUME QualityInit PROVE QualityInvariant
  OBVIOUS
<1>2. /\ quality = FreshQuality /\ qualityEpoch = 0 /\ qualitySaved = None
      /\ heard = [s \in Scopes |-> <<>>]
  BY <1>1 DEF QualityInit
<1>3. /\ <<>> \in Seq(Hearing) /\ <<>> \in Seq(ResearchQualitySnapshot) /\ Len(<<>>) = 0
  OBVIOUS
<1>4. /\ quality.latest = <<>> /\ quality.histories = [s \in Scopes |-> <<>>]
      /\ quality = [latest |-> quality.latest, histories |-> quality.histories,
                    snapshots |-> quality.snapshots, restricted |-> quality.restricted]
  BY <1>2 DEF FreshQuality
<1>5. heard \in [Scopes -> Seq(Hearing)] /\ \A s \in Scopes : Len(heard[s]) = 0
  BY <1>2, <1>3
<1>6. quality.histories \in [Scopes -> Seq(ResearchQualitySnapshot)]
  BY <1>3, <1>4
<1>7. QED
  BY <1>2, <1>4, <1>5, <1>6, NothingTracked DEF QualityInvariant

\* The snapshot an evaluation goes on from follows what was heard of its scope.
LEMMA PreviousFacts ==
  ASSUME NEW latest, heard \in [Scopes -> Seq(Hearing)], Tracks(latest, heard), NEW s \in Scopes
  PROVE  LET previous == IF Held(latest, s) THEN Entry(latest, s).result ELSE None
         IN \/ previous = None /\ heard[s] = <<>>
            \/ previous \in ResearchQualitySnapshot /\ Follows(previous, heard[s])
<1>1. latest \in Seq(LatestSnapshot) /\ DOMAIN latest = 1..Len(latest)
  BY DEF Tracks
<1>2. CASE Held(latest, s)
  <2>1. PICK i \in DOMAIN latest : latest[i].id = s
    BY <1>2 DEF Held, Holding
  <2> DEFINE c == CHOOSE j \in DOMAIN latest : latest[j].id = s
  <2>2. c \in DOMAIN latest /\ latest[c].id = s
    BY <2>1
  <2>3. Entry(latest, s) = latest[c]
    BY DEF Entry
  <2> HIDE DEF c
  <2>4. latest[c] \in LatestSnapshot /\ Follows(latest[c].result, heard[s])
    BY <1>1, <2>2 DEF Tracks
  <2>5. latest[c].result \in ResearchQualitySnapshot
    BY <2>4 DEF LatestSnapshot
  <2>6. QED
    BY <1>2, <2>3, <2>4, <2>5
<1>3. CASE ~Held(latest, s)
  <2>1. ~\E i \in 1..Len(latest) : latest[i].id = s
    BY <1>1, <1>3 DEF Held, Holding
  <2>2. QED
    BY <1>3, <2>1 DEF Tracks
<1>4. QED
  BY <1>2, <1>3

\* The latest snapshots with that of one scope replaced, and what is heard of it.
LEMMA LatestTracks ==
  ASSUME NEW latest, NEW told \in [Scopes -> Seq(Hearing)], Tracks(latest, told),
         NEW s \in Scopes, NEW result \in ResearchQualitySnapshot,
         NEW longer \in Seq(Hearing), Follows(result, longer)
  PROVE  Tracks(Latest(latest, s, result), [told EXCEPT ![s] = longer])
<1> DEFINE entry == [id |-> s, result |-> result]
           left == Without(latest, s)
           after == Latest(latest, s, result)
           now == [told EXCEPT ![s] = longer]
<1>1. latest \in Seq(LatestSnapshot) /\ Distinct(latest)
  BY DEF Tracks
<1>2. Dropped(LatestSnapshot, latest, s)
  BY <1>1, DroppedFacts
<1>3. entry \in LatestSnapshot /\ entry.id = s /\ entry.result = result
  BY DEF LatestSnapshot
<1>4. after = Append(left, entry)
  BY DEF Latest
<1>5. now[s] = longer /\ \A t \in Scopes : t # s => now[t] = told[t]
  OBVIOUS
<1> HIDE DEF entry, left, after, now
<1>6. /\ left \in Seq(LatestSnapshot) /\ Distinct(left)
      /\ \A j \in 1..Len(left) :
           \E i \in 1..Len(latest) : left[j] = latest[i] /\ latest[i].id # s
      /\ \A i \in 1..Len(latest) : latest[i].id # s =>
           \E j \in 1..Len(left) : left[j] = latest[i]
  BY <1>2 DEF Dropped, left
<1>7. /\ after \in Seq(LatestSnapshot) /\ Len(left) \in Nat /\ Len(after) = Len(left) + 1
      /\ after[Len(left) + 1] = entry /\ \A j \in 1..Len(left) : after[j] = left[j]
      /\ \A j \in 1..Len(after) : j \in 1..Len(left) \/ j = Len(left) + 1
  BY <1>3, <1>4, <1>6
<1>8. ASSUME NEW j \in 1..Len(left) PROVE after[j].id # s
  <2>1. PICK i \in 1..Len(latest) : left[j] = latest[i] /\ latest[i].id # s
    BY <1>6
  <2>2. QED
    BY <1>7, <2>1
<1>9. Distinct(after)
  <2>1. SUFFICES ASSUME NEW j \in 1..Len(after), NEW k \in 1..Len(after),
                        after[j].id = after[k].id
                 PROVE  j = k
    BY DEF Distinct
  <2>2. CASE j \in 1..Len(left) /\ k \in 1..Len(left)
    BY <1>6, <1>7, <2>1, <2>2 DEF Distinct
  <2>3. QED
    BY <1>3, <1>7, <1>8, <2>1, <2>2
<1>10. ASSUME NEW t \in Scopes, now[t] # <<>>
       PROVE  \E j \in 1..Len(after) : after[j].id = t
  <2>1. CASE t = s
    <3>1. Len(left) + 1 \in 1..Len(after) /\ after[Len(left) + 1].id = s
      BY <1>3, <1>7
    <3>2. QED
      BY <2>1, <3>1
  <2>2. CASE t # s
    <3>1. PICK i \in 1..Len(latest) : latest[i].id = t
      BY <1>5, <1>10, <2>2 DEF Tracks
    <3>2. PICK j \in 1..Len(left) : left[j] = latest[i]
      BY <1>6, <2>2, <3>1
    <3>3. j \in 1..Len(after) /\ after[j].id = t
      BY <1>7, <3>1, <3>2
    <3>4. QED
      BY <3>3
  <2>3. QED
    BY <2>1, <2>2
<1>11. ASSUME NEW j \in 1..Len(after) PROVE Follows(after[j].result, now[after[j].id])
  <2>1. CASE j = Len(left) + 1
    BY <1>3, <1>5, <1>7, <2>1
  <2>2. CASE j \in 1..Len(left)
    <3>1. PICK i \in 1..Len(latest) : left[j] = latest[i] /\ latest[i].id # s
      BY <1>6, <2>2
    <3>2. latest[i] \in LatestSnapshot
      BY <1>1
    <3>3. latest[i].id \in Scopes
      BY <3>2 DEF LatestSnapshot
    <3>4. after[j] = latest[i] /\ now[after[j].id] = told[latest[i].id]
      BY <1>5, <1>7, <2>2, <3>1, <3>3
    <3>5. QED
      BY <3>4 DEF Tracks
  <2>3. QED
    BY <1>7, <2>1, <2>2
<1>12. QED
  BY <1>7, <1>9, <1>10, <1>11 DEF Tracks, after, now

\* evaluate keeps the invariant: the snapshot it stores follows what was heard.
LEMMA EvaluateKeeps ==
  ASSUME QualityInvariant, RoomForAll,
         NEW o \in QualityObservations, NEW h \in ObservationSets, NEW asOf \in Time,
         NEW w \in WorkflowEvidence \cup {None}, Evaluate(o, h, asOf, w)
  PROVE  QualityInvariant'
<1> DEFINE scope == o.scope
           previous == IF Held(quality.latest, scope) THEN Entry(quality.latest, scope).result
                       ELSE None
           raw == Raw(o, h, asOf, w)
           result == Evaluation(scope, raw, previous, asOf)
           grown == Append(quality.histories[scope], result)
           kept == SubSeq(grown, Greatest(1, Len(grown) - MaxScopeHistory + 1), Len(grown))
           hearing == [raw |-> raw, published |-> result.published,
                       multiplier |-> result.multiplier]
           longer == Append(heard[scope], hearing)
           latest == Latest(quality.latest, scope, result)
           next == [quality EXCEPT !.latest = latest, !.histories[scope] = kept,
                                   !.snapshots = Put(@, result)]
<1>1. /\ qualitySaved = None /\ quality' = Bounded(next)
      /\ heard' = [heard EXCEPT ![scope] = longer]
      /\ qualityEpoch' = qualityEpoch /\ qualitySaved' = qualitySaved
  BY DEF Evaluate
<1>2. /\ qualityEpoch \in Nat /\ heard \in [Scopes -> Seq(Hearing)]
      /\ quality.histories \in [Scopes -> Seq(ResearchQualitySnapshot)]
      /\ Tracks(quality.latest, heard)
      /\ quality = [latest |-> quality.latest, histories |-> quality.histories,
                    snapshots |-> quality.snapshots, restricted |-> quality.restricted]
  BY <1>1 DEF QualityInvariant
<1>3. scope \in Scopes /\ raw \in ResearchQualityState
  <2>1. o \in ScalarObservation
    BY QualityAssumption DEF QualityAssumption
  <2>2. QED
    BY <2>1, RawFacts DEF ScalarObservation
<1> HIDE DEF scope, raw
<1>4. \/ previous = None /\ heard[scope] = <<>>
      \/ previous \in ResearchQualitySnapshot /\ Follows(previous, heard[scope])
  BY <1>2, <1>3, PreviousFacts
<1> HIDE DEF previous
<1>5. heard[scope] \in Seq(Hearing)
  BY <1>2, <1>3
<1>6. /\ result \in ResearchQualitySnapshot /\ longer \in Seq(Hearing)
      /\ Follows(result, longer) /\ Confirmed(longer, Len(longer))
  <2> DEFINE before == heard[scope]
  <2>1. before = heard[scope] /\ before \in Seq(Hearing)
    BY <1>5
  <2> HIDE DEF before
  <2>2. LET r == Evaluation(scope, raw, previous, asOf)
            a == Append(before, [raw |-> raw, published |-> r.published,
                                 multiplier |-> r.multiplier])
        IN /\ r \in ResearchQualitySnapshot /\ a \in Seq(Hearing)
           /\ Follows(r, a) /\ Confirmed(a, Len(a))
    BY <1>2, <1>3, <1>4, <2>1, EvaluationFacts
  <2>3. QED
    BY <2>1, <2>2
<1>7. Len(longer) = Len(heard[scope]) + 1
      /\ \A i \in 1..Len(heard[scope]) : longer[i] = heard[scope][i]
  BY <1>5
<1> HIDE DEF hearing, result, longer
<1>8. Tracks(latest, [heard EXCEPT ![scope] = longer])
  BY <1>2, <1>3, <1>6, LatestTracks
<1>9. latest \in Seq(LatestSnapshot) /\ Distinct(latest)
  BY <1>8 DEF Tracks
<1> HIDE DEF latest
<1>10. kept \in Seq(ResearchQualitySnapshot)
  <2>1. grown \in Seq(ResearchQualitySnapshot)
    BY <1>2, <1>3, <1>6
  <2> HIDE DEF grown
  <2>2. Len(grown) \in Nat /\ \A i \in 1..Len(grown) : grown[i] \in ResearchQualitySnapshot
    BY <2>1
  <2> DEFINE from == Greatest(1, Len(grown) - MaxScopeHistory + 1)
  <2>3. from \in Int /\ from >= 1
    BY <2>2, ConfigurationFacts DEF Greatest
  <2> HIDE DEF from
  <2>4. \A i \in from..Len(grown) : grown[i] \in ResearchQualitySnapshot
    BY <2>2, <2>3
  <2>5. SubSeq(grown, from, Len(grown)) \in Seq(ResearchQualitySnapshot)
    BY <2>2, <2>3, <2>4, SubSeqProperties
  <2>6. QED
    BY <2>5 DEF from
<1> HIDE DEF kept
<1>11. next = [latest |-> latest, histories |-> [quality.histories EXCEPT ![scope] = kept],
               snapshots |-> Put(quality.snapshots, result),
               restricted |-> quality.restricted]
  <2> DEFINE changed == [quality.histories EXCEPT ![scope] = kept]
             snapshots == Put(quality.snapshots, result)
  <2>1. next = [quality EXCEPT !.latest = latest, !.histories = changed,
                              !.snapshots = snapshots]
    BY <1>2
  <2> HIDE DEF next, changed, snapshots
  <2>2. next = [latest |-> latest, histories |-> changed, snapshots |-> snapshots,
                restricted |-> quality.restricted]
    BY <1>2, <2>1
  <2>3. QED
    BY <2>2 DEF changed, snapshots
<1> HIDE DEF next
<1>12. quality' = [latest |-> Evicted(latest, MaxSnapshots),
                   histories |-> [quality.histories EXCEPT ![scope] = kept],
                   snapshots |-> Evicted(Put(quality.snapshots, result), MaxSnapshots),
                   restricted |-> quality.restricted]
  BY <1>1, <1>11 DEF Bounded
<1>13. Evicted(latest, MaxSnapshots) = latest
  BY <1>9, LatestFits
<1>14. Tracks(quality'.latest, heard')
  BY <1>1, <1>8, <1>12, <1>13
<1>15. quality'.histories \in [Scopes -> Seq(ResearchQualitySnapshot)]
  BY <1>2, <1>3, <1>10, <1>12
<1>16. heard' \in [Scopes -> Seq(Hearing)]
  BY <1>1, <1>2, <1>3, <1>6
<1>17. ASSUME NEW s \in Scopes, NEW n \in 1..Len(heard'[s]) PROVE Confirmed(heard'[s], n)
  <2>1. CASE s # scope
    <3>1. heard'[s] = heard[s]
      BY <1>1, <1>2, <2>1
    <3>2. QED
      BY <1>17, <3>1 DEF QualityInvariant
  <2>2. CASE s = scope
    <3>1. heard'[s] = longer
      BY <1>1, <1>2, <1>3, <2>2
    <3>2. CASE n = Len(longer)
      BY <1>6, <3>1, <3>2
    <3>3. CASE n # Len(longer)
      <4>1. Len(heard[scope]) \in Nat /\ n \in 1..Len(heard[scope])
        BY <1>5, <1>7, <1>17, <3>1, <3>3
      <4>2. Confirmed(heard[scope], n)
        BY <1>3, <4>1 DEF QualityInvariant
      <4>3. \A i \in 1..n : longer[i] = heard[scope][i]
        BY <1>7, <4>1
      <4>4. Confirmed(longer, n)
        BY <4>1, <4>2, <4>3, ConfigurationFacts DEF Confirmed
      <4>5. QED
        BY <3>1, <4>4
    <3>4. QED
      BY <3>2, <3>3
  <2>3. QED
    BY <2>1, <2>2
<1>18. quality' = [latest |-> quality'.latest, histories |-> quality'.histories,
                   snapshots |-> quality'.snapshots, restricted |-> quality'.restricted]
  BY <1>12
<1>19. QED
  BY <1>1, <1>2, <1>14, <1>15, <1>16, <1>17, <1>18 DEF QualityInvariant

\* The engine is given up, or given a recovery state, or refuses one.
LEMMA RecoveryKeepsQuality ==
  ASSUME QualityInvariant, RoomForAll,
         \/ \E e \in 0..MaxQualityEpoch : StopQuality(e)
         \/ RestoreQuality \/ RestoreQualityRefused
  PROVE  QualityInvariant'
<1>1. CASE \E e \in 0..MaxQualityEpoch : StopQuality(e)
  <2>1. PICK e \in 0..MaxQualityEpoch : StopQuality(e)
    BY <1>1
  <2> DEFINE saved == [epoch |-> e, latest |-> quality.latest, histories |-> quality.histories]
  <2>2. /\ qualitySaved = None /\ qualitySaved' = saved /\ qualityEpoch' = e
        /\ quality' = FreshQuality /\ heard' = heard /\ e \in {qualityEpoch, qualityEpoch + 1}
    BY <2>1 DEF StopQuality
  <2>3. e \in Nat
    BY <2>2 DEF QualityInvariant
  <2>4. Tracks(quality.latest, heard)
    BY <2>2 DEF QualityInvariant
  <2>5. quality.latest \in Seq(LatestSnapshot)
        /\ quality.histories \in [Scopes -> Seq(ResearchQualitySnapshot)]
    BY <2>4 DEF Tracks, QualityInvariant
  <2>6. saved \in QualityRecoveryState /\ saved.latest = quality.latest
    BY <2>3, <2>5 DEF QualityRecoveryState
  <2>7. saved # None
    BY <2>6, NoQualityIsNone
  <2> HIDE DEF saved
  <2>8. /\ FreshQuality.latest = <<>> /\ FreshQuality.histories = [s \in Scopes |-> <<>>]
        /\ FreshQuality = [latest |-> FreshQuality.latest, histories |-> FreshQuality.histories,
              snapshots |-> FreshQuality.snapshots, restricted |-> FreshQuality.restricted]
    BY DEF FreshQuality
  <2>9. FreshQuality.histories \in [Scopes -> Seq(ResearchQualitySnapshot)]
    BY <2>8
  <2>10. Tracks(saved.latest, heard)
    BY <2>4, <2>6
  <2>11. QED
    BY <2>2, <2>3, <2>6, <2>7, <2>8, <2>9, <2>10 DEF QualityInvariant
<1>2. CASE RestoreQuality
  <2> DEFINE snapshots == FoldLeft(Put, <<>>, Retold(qualitySaved.histories))
             next == [latest |-> qualitySaved.latest, histories |-> qualitySaved.histories,
                      snapshots |-> snapshots, restricted |-> FALSE]
  <2>1. /\ qualitySaved # None /\ quality' = Bounded(next) /\ qualitySaved' = None
        /\ heard' = heard /\ qualityEpoch' = qualityEpoch
    BY <1>2 DEF RestoreQuality
  <2>2. qualitySaved \in QualityRecoveryState /\ Tracks(qualitySaved.latest, heard)
    BY <2>1 DEF QualityInvariant
  <2> HIDE DEF snapshots
  <2>3. quality' = [latest |-> Evicted(qualitySaved.latest, MaxSnapshots),
                    histories |-> qualitySaved.histories,
                    snapshots |-> Evicted(snapshots, MaxSnapshots), restricted |-> FALSE]
    BY <2>1 DEF Bounded
  <2>4. Evicted(qualitySaved.latest, MaxSnapshots) = qualitySaved.latest
    BY <2>2, LatestFits DEF Tracks
  <2>9. quality'.latest = qualitySaved.latest
    BY <2>3, <2>4
  <2>5. Tracks(quality'.latest, heard')
    BY <2>1, <2>2, <2>9
  <2>6. quality'.histories \in [Scopes -> Seq(ResearchQualitySnapshot)]
    BY <2>2, <2>3 DEF QualityRecoveryState
  <2>7. quality' = [latest |-> quality'.latest, histories |-> quality'.histories,
                    snapshots |-> quality'.snapshots, restricted |-> quality'.restricted]
    BY <2>3
  <2>8. QED
    BY <2>1, <2>5, <2>6, <2>7 DEF QualityInvariant
<1>3. CASE RestoreQualityRefused
  <2>1. /\ qualitySaved # None /\ qualitySaved' = None /\ qualityEpoch' = qualityEpoch
        /\ quality' = [quality EXCEPT !.restricted = TRUE] /\ heard' = [s \in Scopes |-> <<>>]
    BY <1>3 DEF RestoreQualityRefused
  <2>2. quality' = [latest |-> quality.latest, histories |-> quality.histories,
                    snapshots |-> quality.snapshots, restricted |-> TRUE]
    BY <2>1 DEF QualityInvariant
  <2>3. /\ quality'.latest = <<>> /\ quality'.histories = quality.histories
        /\ quality' = [latest |-> quality'.latest, histories |-> quality'.histories,
              snapshots |-> quality'.snapshots, restricted |-> quality'.restricted]
    BY <2>1, <2>2 DEF QualityInvariant
  <2>4. Tracks(quality'.latest, heard')
    BY <2>1, <2>3, NothingTracked
  <2>5. <<>> \in Seq(Hearing) /\ Len(<<>>) = 0
    OBVIOUS
  <2>6. heard' \in [Scopes -> Seq(Hearing)] /\ \A s \in Scopes : Len(heard'[s]) = 0
    BY <2>1, <2>5
  <2>7. QED
    BY <2>1, <2>3, <2>4, <2>6 DEF QualityInvariant
<1>4. QED
  BY <1>1, <1>2, <1>3

\* The invariant of the quality engine is inductive.
LEMMA NextQuality ==
  ASSUME RoomForAll
  PROVE  QualityInvariant /\ [QualityNext]_qualityVars => QualityInvariant'
<1>1. SUFFICES ASSUME QualityInvariant, [QualityNext]_qualityVars PROVE QualityInvariant'
  OBVIOUS
<1>2. CASE UNCHANGED qualityVars
  BY <1>1, <1>2 DEF qualityVars, QualityInvariant
<1>3. CASE \E o \in QualityObservations, h \in ObservationSets, t \in Time,
              w \in WorkflowEvidence \cup {None} : Evaluate(o, h, t, w)
  BY <1>1, <1>3, EvaluateKeeps
<1>4. CASE \/ \E e \in 0..MaxQualityEpoch : StopQuality(e)
           \/ RestoreQuality \/ RestoreQualityRefused
  BY <1>1, <1>4, RecoveryKeepsQuality
<1>5. QED
  BY <1>1, <1>2, <1>3, <1>4 DEF QualityNext

\* As long as the store of latest snapshots has room for all scopes, good quality
\* is given again only after the configured number of good results in a row,
\* whatever restarts there are.  (Without room a scope is forgotten.)
THEOREM RecoveriesAreConfirmed ==
  ASSUME RoomForAll
  PROVE  QualitySpec => []RecoveryIsConfirmed
<1>1. QualityInvariant => RecoveryIsConfirmed
  <2>1. SUFFICES ASSUME QualityInvariant, NEW s \in Scopes, NEW n \in DOMAIN heard[s]
                 PROVE  /\ heard[s][n].multiplier <= Multiplier(heard[s][n].raw)
                        /\ n > 1 /\ heard[s][n].published \notin Poor
                           /\ heard[s][n - 1].published \in Poor =>
                             /\ n >= QualityConfirmations
                             /\ \A i \in (n - QualityConfirmations + 1)..n :
                                  heard[s][i].raw \notin Poor
                        /\ n >= FailureLimit
                           /\ (\A i \in (n - FailureLimit + 1)..n :
                                 ~(heard[s][i].raw \notin Poor)) =>
                             heard[s][n].multiplier = 0
    BY DEF RecoveryIsConfirmed
  <2>2. heard[s] \in Seq(Hearing)
    BY <2>1 DEF QualityInvariant
  <2>3. n \in 1..Len(heard[s])
    BY <2>1, <2>2
  <2>4. Confirmed(heard[s], n)
    BY <2>1, <2>3 DEF QualityInvariant
  <2>5. QED
    BY <2>4 DEF Confirmed
<1>2. QualityInvariant /\ [QualityNext]_qualityVars => QualityInvariant'
  BY NextQuality
<1>3. QED
  BY InitQuality, <1>1, <1>2, PTL DEF QualitySpec

-----------------------------------------------------------------------------
(* The error manager: storms and notifications.                            *)

\* An occurrence of a notification key.
Occurrence == [at : Time, told : BOOLEAN]

\* Between two occurrences the clock did not go back, or it went back somewhere.
Forward(os) ==
  \A i, j \in DOMAIN os :
    i <= j => os[i].at <= os[j].at \/ \E n \in i..(j - 1) : os[n + 1].at < os[n].at

\* The first occurrence is told, and told ones are a cooldown apart unless the clock
\* went back between them.
Spaced(os) ==
  \A i, j \in DOMAIN os :
    /\ os[1].told
    /\ i < j /\ os[i].told /\ os[j].told =>
         \/ \E n \in i..(j - 1) : os[n + 1].at < os[n].at
         \/ os[j].at - os[i].at >= NotifyCooldown

\* What is remembered of a key is its last occurrence.
Remembered(notice, os) ==
  IF notice = None THEN os = <<>>
  ELSE os # <<>> /\ notice.last = os[Len(os)].at

\* The types of what the error manager keeps.
AlarmsTyped ==
  /\ clock \in Time
  /\ windows \in [ErrorCodes -> Seq(Time)] /\ announced \in [ErrorCodes -> BOOLEAN]
  /\ notices \in [Keys -> NotificationState \cup {None}]
  /\ occurred \in [Keys -> Seq(Occurrence)]
  /\ committed \subseteq Keys /\ succeeded \in [Keys -> Nat]

\* The inductive invariant.
AlarmsInvariant ==
  /\ AlarmsTyped
  /\ StormReported
  /\ \A k \in Keys :
       Remembered(notices[k], occurred[k]) /\ Forward(occurred[k]) /\ Spaced(occurred[k])
  /\ SucceededOnce

\* The error manager begins with nothing captured.
LEMMA InitAlarms == JournalInit => AlarmsInvariant
<1> SUFFICES ASSUME JournalInit PROVE AlarmsInvariant
  OBVIOUS
<1>1. AlarmsTyped
  <2>1. 0 \in Time
    BY EvidenceAssumption DEF EvidenceAssumption, Time
  <2>2. QED
    BY <2>1 DEF JournalInit, AlarmsTyped
<1>2. StormReported
  <2>1. \A c \in ErrorCodes : Len(windows[c]) = 0
    BY DEF JournalInit
  <2>2. StormThreshold \in Nat \ {0}
    BY JournalAssumption DEF JournalAssumption
  <2>3. QED
    BY <2>1, <2>2 DEF StormReported
<1>3. ASSUME NEW k \in Keys
      PROVE  Remembered(notices[k], occurred[k]) /\ Forward(occurred[k]) /\ Spaced(occurred[k])
  <2>1. notices[k] = None /\ occurred[k] = <<>> /\ DOMAIN occurred[k] = {}
    BY DEF JournalInit
  <2>2. QED
    BY <2>1 DEF Remembered, Forward, Spaced
<1>4. SucceededOnce
  BY DEF SucceededOnce, JournalInit
<1>5. QED
  BY <1>1, <1>2, <1>3, <1>4 DEF AlarmsInvariant

\* capture takes one entry into the window of a code, and drops the oldest.
LEMMA WindowFacts ==
  ASSUME AlarmsTyped, NEW c \in ErrorCodes
  PROVE  /\ WindowAfter(c) \in Seq(Time)
         /\ Len(WindowAfter(c)) <= Len(windows[c]) + 1
<1> DEFINE all == Append(windows[c], clock)
           late == {i \in DOMAIN all : all[i] >= clock - StormWindow}
<1>1. /\ all \in Seq(Time) /\ Len(all) = Len(windows[c]) + 1 /\ DOMAIN all = 1..Len(all)
      /\ Len(all) \in Nat /\ Len(windows[c]) \in Nat /\ all[Len(all)] = clock
  BY DEF AlarmsTyped
<1>2. StormWindow \in Nat /\ clock \in Nat
  BY JournalAssumption DEF JournalAssumption, AlarmsTyped, Time
<1> HIDE DEF all
<1>3. Len(all) \in late
  BY <1>1, <1>2
<1>4. Min(late) \in late
  <2>1. late \subseteq Nat
    BY <1>1
  <2> HIDE DEF late
  <2>2. QED
    BY <1>3, <2>1, LeastOf
<1>5. Min(late) \in 1..Len(all)
  BY <1>1, <1>4
<1> HIDE DEF late
<1>6. /\ SubSeq(all, Min(late), Len(all)) \in Seq(Time)
      /\ Len(SubSeq(all, Min(late), Len(all))) = Len(all) - Min(late) + 1
  <2>1. \A i \in Min(late)..Len(all) : all[i] \in Time
    BY <1>1, <1>5
  <2>2. Min(late) \in Int /\ Len(all) \in Int /\ Min(late) <= Len(all)
    BY <1>1, <1>5
  <2>3. QED
    BY <2>1, <2>2, SubSeqProperties
<1>7. WindowAfter(c) = SubSeq(all, Min(late), Len(all))
  BY DEF WindowAfter, all, late
<1>8. QED
  BY <1>1, <1>5, <1>6, <1>7

\* capture announces a storm when the window of a code is full.
LEMMA CaptureKeeps ==
  ASSUME AlarmsInvariant, NEW c \in ErrorCodes, NEW s \in {2, 3, 4}, Capture(c, s)
  PROVE  AlarmsInvariant'
<1> DEFINE window == WindowAfter(c)
<1>1. window \in Seq(Time) /\ Len(window) <= Len(windows[c]) + 1
  BY WindowFacts DEF AlarmsInvariant
<1> HIDE DEF window
<1>2. /\ windows' = [windows EXCEPT ![c] = window]
      /\ announced' = [announced EXCEPT ![c] =
                         Len(window) >= StormThreshold /\ (@ \/ StormReached(window))]
      /\ UNCHANGED <<clock, notices, occurred, committed, succeeded>>
  BY DEF Capture, window
<1>3. AlarmsTyped'
  BY <1>1, <1>2 DEF AlarmsInvariant, AlarmsTyped
<1>4. StormReported'
  <2>1. SUFFICES ASSUME NEW d \in ErrorCodes, Len(windows'[d]) >= StormThreshold
                 PROVE  announced'[d]
    BY DEF StormReported
  <2>2. CASE d # c
    BY <1>2, <2>1, <2>2 DEF AlarmsInvariant, AlarmsTyped, StormReported
  <2>3. CASE d = c
    <3>1. /\ Len(window) \in Nat /\ Len(windows[c]) \in Nat /\ StormThreshold \in Nat
          /\ Len(window) >= StormThreshold
      BY <1>1, <1>2, <2>1, <2>3, JournalAssumption
         DEF JournalAssumption, AlarmsInvariant, AlarmsTyped
    <3>2. CASE Len(window) = StormThreshold
      BY <1>2, <2>3, <3>1, <3>2 DEF StormReached, AlarmsInvariant, AlarmsTyped
    <3>3. CASE Len(window) > StormThreshold
      <4>1. Len(windows[c]) >= StormThreshold
        BY <1>1, <3>1, <3>3
      <4>2. announced[c]
        BY <4>1 DEF AlarmsInvariant, StormReported
      <4>3. QED
        BY <1>2, <2>3, <3>1, <4>2 DEF AlarmsInvariant, AlarmsTyped
    <3>4. QED
      BY <3>1, <3>2, <3>3
  <2>4. QED
    BY <2>2, <2>3
<1>5. QED
  BY <1>2, <1>3, <1>4 DEF AlarmsInvariant, SucceededOnce, Remembered, Forward, Spaced

\* register tells of an occurrence when the cooldown is over.
LEMMA RegisterKeeps ==
  ASSUME AlarmsInvariant, NEW k \in Keys, Register(k)
  PROVE  AlarmsInvariant'
<1> DEFINE os == occurred[k]
           notice == notices[k]
           new == [at |-> clock, told |-> Due(k)]
           after == Append(os, new)
           n == Len(os)
<1>1. /\ notice \in NotificationState \cup {None} /\ os \in Seq(Occurrence) /\ clock \in Nat
      /\ clock \in Time /\ NotifyCooldown \in Nat /\ n \in Nat
      /\ Remembered(notice, os) /\ Forward(os) /\ Spaced(os)
  BY JournalAssumption DEF JournalAssumption, AlarmsInvariant, AlarmsTyped, Time
<1>2. Due(k) \in BOOLEAN
  BY DEF Due
<1>3. new \in Occurrence
  BY <1>1, <1>2 DEF Occurrence
<1>4. /\ after \in Seq(Occurrence) /\ Len(after) = n + 1 /\ after[n + 1] = new
      /\ \A i \in 1..n : after[i] = os[i]
      /\ DOMAIN after = 1..(n + 1) /\ DOMAIN os = 1..n
  BY <1>1, <1>3
<1>5. new.at = clock /\ new.told = Due(k)
  OBVIOUS
<1>6. /\ \A i \in 1..n : os[i].at \in Nat
  <2>1. \A i \in 1..n : os[i] \in Occurrence
    BY <1>1
  <2>2. QED
    BY <2>1 DEF Occurrence, Time
<1> HIDE DEF after, new
<1>7. /\ notices' = [notices EXCEPT ![k] = NoticeAfter(@, Due(k))]
      /\ occurred' = [occurred EXCEPT ![k] = after]
      /\ UNCHANGED <<clock, journal, windows, announced, committed, succeeded>>
  BY DEF Register, after, new
<1>8. notices'[k] \in NotificationState /\ notices'[k].last = clock
  <2>1. CASE notice = None
    <3>1. notices'[k] = [first |-> clock, last |-> clock, count |-> 1, level |-> 1]
      BY <1>7, <2>1 DEF AlarmsInvariant, AlarmsTyped, NoticeAfter
    <3>2. QED
      BY <1>1, <3>1 DEF NotificationState
  <2>2. CASE notice # None
    <3>1. /\ notice \in NotificationState
          /\ notice.count + 1 \in Nat /\ notice.level + (IF Due(k) THEN 1 ELSE 0) \in Nat
      BY <1>1, <2>2 DEF NotificationState
    <3>2. notices'[k] = [notice EXCEPT !.last = clock, !.count = @ + 1,
                                       !.level = @ + (IF Due(k) THEN 1 ELSE 0)]
      BY <1>7, <2>2 DEF AlarmsInvariant, AlarmsTyped, NoticeAfter
    <3> HIDE DEF notice
    <3>3. QED
      BY <1>1, <3>1, <3>2 DEF NotificationState
  <2>3. QED
    BY <2>1, <2>2
<1>9. notices' \in [Keys -> NotificationState \cup {None}]
  <2>1. notices' = [j \in Keys |-> IF j = k THEN notices'[k] ELSE notices[j]]
    BY <1>7 DEF AlarmsInvariant, AlarmsTyped
  <2>2. QED
    BY <1>8, <2>1 DEF AlarmsInvariant, AlarmsTyped
<1>10. AlarmsTyped'
  BY <1>4, <1>7, <1>9 DEF AlarmsInvariant, AlarmsTyped
<1>11. Remembered(notices'[k], after)
  <2>1. notices'[k] # None
    BY <1>8, NoNoticeIsNone
  <2>2. QED
    BY <1>4, <1>5, <1>8, <2>1 DEF Remembered
<1>12a. Remembered(notice, os)
  BY <1>1
<1>12. n > 0 => notice # None /\ notice.last = os[n].at
  BY <1>1, <1>4 DEF Remembered
<1>18. /\ \A i, j \in 1..n :
            i <= j => os[i].at <= os[j].at \/ \E m \in i..(j - 1) : os[m + 1].at < os[m].at
       /\ \A i, j \in 1..n :
            /\ os[1].told
            /\ i < j /\ os[i].told /\ os[j].told =>
                 \/ \E m \in i..(j - 1) : os[m + 1].at < os[m].at
                 \/ os[j].at - os[i].at >= NotifyCooldown
  <2>1. Forward(os) /\ Spaced(os) /\ DOMAIN os = 1..n
    BY <1>1, <1>4
  <2> HIDE DEF os, n
  <2>2. QED
    BY <2>1 DEF Forward, Spaced
<1>19. \A i, j \in 1..n : \A m \in i..(j - 1) : after[m + 1] = os[m + 1] /\ after[m] = os[m]
  <2>1. \A i, j \in 1..n : \A m \in i..(j - 1) : m \in 1..n /\ m + 1 \in 1..n
    BY <1>1
  <2>2. QED
    BY <1>4, <2>1
<1>20. /\ n \in Nat /\ clock \in Nat /\ NotifyCooldown \in Nat /\ after[n + 1].at = clock
       /\ n = 0 => os = <<>>
  BY <1>1, <1>4, <1>5
<1> HIDE DEF os, notice, n
<1>13. Forward(after)
  <2>1. SUFFICES ASSUME NEW i \in 1..(n + 1), NEW j \in 1..(n + 1), i <= j
                 PROVE  \/ after[i].at <= after[j].at
                        \/ \E m \in i..(j - 1) : after[m + 1].at < after[m].at
    BY <1>4 DEF Forward
  <2>2. CASE j <= n
    <3>1. /\ after[i] = os[i] /\ after[j] = os[j] /\ i \in 1..n /\ j \in 1..n
          /\ \A m \in i..(j - 1) : after[m + 1] = os[m + 1] /\ after[m] = os[m]
      BY <1>20, <1>4, <1>19, <2>1, <2>2
    <3>2. os[i].at <= os[j].at \/ \E m \in i..(j - 1) : os[m + 1].at < os[m].at
      BY <1>18, <2>1, <3>1
    <3>3. QED
      BY <3>1, <3>2
  <2>3. CASE j = n + 1 /\ i = n + 1
    BY <1>20, <1>4, <2>3
  <2>4. CASE j = n + 1 /\ i <= n
    <3>7. i \in 1..n /\ n \in 1..n /\ n \in i..(j - 1)
      BY <1>20, <2>1, <2>4
    <3>1. /\ i \in 1..n /\ n \in 1..n /\ after[i] = os[i] /\ after[n] = os[n] /\ i <= n
          /\ \A m \in i..(n - 1) : after[m + 1] = os[m + 1] /\ after[m] = os[m]
          /\ n \in i..(j - 1) /\ after[n + 1].at = clock /\ after[j].at = clock
      BY <1>20, <1>4, <1>19, <2>4, <3>7
    <3>2. os[i].at <= os[n].at \/ \E m \in i..(n - 1) : os[m + 1].at < os[m].at
      BY <1>18, <3>1
    <3>3. CASE \E m \in i..(n - 1) : os[m + 1].at < os[m].at
      <4>1. PICK m \in i..(n - 1) : os[m + 1].at < os[m].at
        BY <3>3
      <4>2. m \in i..(j - 1)
        BY <1>20, <2>4, <4>1
      <4>3. QED
        BY <3>1, <4>1, <4>2
    <3>4. CASE os[i].at <= os[n].at /\ clock < os[n].at
      BY <3>1, <3>4
    <3>5. CASE os[i].at <= os[n].at /\ clock >= os[n].at
      BY <1>20, <1>6, <3>1, <3>5
    <3>6. QED
      BY <1>20, <1>6, <3>1, <3>2, <3>3, <3>4, <3>5
  <2>5. QED
    BY <1>20, <2>1, <2>2, <2>3, <2>4
<1>14. Spaced(after)
  <2>1. after[1].told
    <3>1. CASE n = 0
      <4>1. notice = None
        <5>1. os = <<>>
          BY <1>20, <3>1
        <5>2. QED
          BY <1>12a, <5>1 DEF Remembered
      <4>2. Due(k)
        BY <4>1 DEF Due, notice
      <4>3. new.told
        BY <1>5, <4>2
      <4>4. after[1] = new
        BY <1>4, <1>20, <3>1
      <4>5. QED
        BY <4>3, <4>4
    <3>2. CASE n > 0
      <4>1. 1 \in 1..n
        BY <1>20, <3>2
      <4>2. os[1].told
        BY <1>18, <4>1
      <4>3. QED
        BY <1>4, <4>1, <4>2
    <3>3. QED
      BY <1>20, <3>1, <3>2
  <2>2. SUFFICES ASSUME NEW i \in 1..(n + 1), NEW j \in 1..(n + 1), i < j,
                        after[i].told, after[j].told
                 PROVE  \/ \E m \in i..(j - 1) : after[m + 1].at < after[m].at
                        \/ after[j].at - after[i].at >= NotifyCooldown
    BY <1>4, <2>1 DEF Spaced
  <2>3. CASE j <= n
    <3>1. /\ after[i] = os[i] /\ after[j] = os[j] /\ i \in 1..n /\ j \in 1..n
          /\ \A m \in i..(j - 1) : after[m + 1] = os[m + 1] /\ after[m] = os[m]
      BY <1>20, <1>4, <1>19, <2>2, <2>3
    <3>2. \/ \E m \in i..(j - 1) : os[m + 1].at < os[m].at
          \/ os[j].at - os[i].at >= NotifyCooldown
      BY <1>18, <2>2, <3>1
    <3>3. QED
      BY <3>1, <3>2
  <2>4. CASE j = n + 1
    <3>7. i \in 1..n /\ n \in 1..(n + 1) /\ n \in 1..n /\ i <= n /\ n > 0
      BY <1>20, <2>2, <2>4
    <3>1. /\ i \in 1..n /\ n \in 1..(n + 1) /\ n \in 1..n /\ i <= n /\ n > 0
          /\ after[i] = os[i] /\ after[n] = os[n] /\ after[j].at = clock
      BY <1>20, <1>4, <2>4, <3>7
    <3>2. clock - os[n].at >= NotifyCooldown
      BY <1>4, <1>5, <1>12, <2>2, <2>4, <3>1 DEF Due, notice
    <3>3. \/ after[i].at <= after[n].at
          \/ \E m \in i..(n - 1) : after[m + 1].at < after[m].at
      <4>1. i \in DOMAIN after /\ n \in DOMAIN after
        BY <1>4, <1>20, <3>1
      <4>2. QED
        BY <1>13, <3>1, <4>1 DEF Forward
    <3>4. CASE after[i].at <= after[n].at
      BY <1>20, <1>6, <3>1, <3>2, <3>4
    <3>5. CASE \E m \in i..(n - 1) : after[m + 1].at < after[m].at
      <4>1. PICK m \in i..(n - 1) : after[m + 1].at < after[m].at
        BY <3>5
      <4>2. m \in i..(j - 1)
        BY <1>20, <2>4, <4>1
      <4>3. QED
        BY <4>1, <4>2
    <3>6. QED
      BY <3>3, <3>4, <3>5
  <2>5. QED
    BY <1>20, <2>2, <2>3, <2>4
<1>15. ASSUME NEW l \in Keys
       PROVE  /\ Remembered(notices'[l], occurred'[l])
              /\ Forward(occurred'[l]) /\ Spaced(occurred'[l])
  <2>1. CASE l = k
    <3>1. occurred'[l] = after
      BY <1>7, <2>1 DEF AlarmsInvariant, AlarmsTyped
    <3>2. QED
      BY <1>11, <1>13, <1>14, <2>1, <3>1 DEF os
  <2>2. CASE l # k
    <3>1. occurred'[l] = occurred[l] /\ notices'[l] = notices[l]
      BY <1>7, <2>2 DEF AlarmsInvariant, AlarmsTyped
    <3>2. QED
      BY <3>1 DEF AlarmsInvariant
  <2>3. QED
    BY <2>1, <2>2
<1>16. StormReported' /\ SucceededOnce'
  BY <1>7 DEF AlarmsInvariant, StormReported, SucceededOnce
<1>17. QED
  BY <1>10, <1>15, <1>16 DEF AlarmsInvariant

\* Of the attempts of a call, no more than one succeeds.
LEMMA OneSuccess ==
  ASSUME NEW results \in [1..MaximumAttempts -> {"SUCCESS", "RETRYABLE", "FAILURE"}],
         NEW done, done = {n \in Attempts(results) : results[n] = "SUCCESS"}
  PROVE  Cardinality(done) \in Nat /\ Cardinality(done) <= IF done # {} THEN 1 ELSE 0
<1>1. MaximumAttempts \in Nat
  BY JournalAssumption DEF JournalAssumption
<1>2. CASE done = {}
  <2>1. Cardinality(done) = 0
    BY <1>2, FS_EmptySet
  <2>2. QED
    BY <1>2, <2>1
<1>3. CASE done # {}
  <2>1. PICK n : n \in done
    BY <1>3
  <2>2. \A m \in done : m = n
    <3>1. SUFFICES ASSUME NEW m \in done, m # n PROVE FALSE
      OBVIOUS
    <3>2. /\ m \in Attempts(results) /\ n \in Attempts(results)
          /\ results[m] = "SUCCESS" /\ results[n] = "SUCCESS"
      BY <2>1
    <3>3. Len(results) = MaximumAttempts
      <4>1. results \in Seq({"SUCCESS", "RETRYABLE", "FAILURE"})
        BY <1>1
      <4>2. DOMAIN results = 1..Len(results) /\ DOMAIN results = 1..MaximumAttempts
        BY <4>1
      <4>3. QED
        BY <1>1, <4>1, <4>2
    <3>4. m \in 1..MaximumAttempts /\ n \in 1..MaximumAttempts
      BY <3>2, <3>3 DEF Attempts
    <3>5. /\ \A i \in 1..(m - 1) : results[i] = "RETRYABLE"
          /\ \A i \in 1..(n - 1) : results[i] = "RETRYABLE"
      BY <3>2 DEF Attempts
    <3>6. m \in 1..(n - 1) \/ n \in 1..(m - 1)
      BY <1>1, <3>1, <3>4
    <3>7. QED
      BY <3>2, <3>5, <3>6
  <2>3. done = {n}
    BY <2>1, <2>2
  <2>4. QED
    <3>1. Cardinality(done) = 1
      BY <2>3, FS_Singleton
    <3>2. QED
      BY <1>3, <3>1
<1>4. QED
  BY <1>2, <1>3

\* execute_with_retry has one success at most for a key.
LEMMA ExecuteKeeps ==
  ASSUME AlarmsInvariant, NEW k \in Keys,
         NEW results \in [1..MaximumAttempts -> {"SUCCESS", "RETRYABLE", "FAILURE"}],
         ExecuteWithRetry(k, results)
  PROVE  AlarmsInvariant'
<1> DEFINE done == {n \in Attempts(results) : results[n] = "SUCCESS"}
<1>1. Cardinality(done) \in Nat /\ Cardinality(done) <= IF done # {} THEN 1 ELSE 0
  BY OneSuccess
<1>2. /\ k \notin committed
      /\ committed' = IF done # {} THEN committed \cup {k} ELSE committed
      /\ succeeded' = [succeeded EXCEPT ![k] = @ + Cardinality(done)]
      /\ UNCHANGED <<clock, journal, windows, announced, notices, occurred>>
  BY DEF ExecuteWithRetry
<1> HIDE DEF done
<1>3. succeeded \in [Keys -> Nat] /\ succeeded[k] \in Nat /\ succeeded[k] <= 0
  BY <1>2 DEF AlarmsInvariant, AlarmsTyped, SucceededOnce
<1>4. succeeded'[k] = Cardinality(done)
  BY <1>1, <1>2, <1>3
<1>5. AlarmsTyped'
  <2>1. succeeded' \in [Keys -> Nat]
    BY <1>1, <1>2, <1>3
  <2>2. committed' \subseteq Keys
    BY <1>2 DEF AlarmsInvariant, AlarmsTyped
  <2>3. QED
    BY <1>2, <2>1, <2>2 DEF AlarmsInvariant, AlarmsTyped
<1>6. SucceededOnce'
  <2>1. SUFFICES ASSUME NEW l \in Keys
                 PROVE  succeeded'[l] <= IF l \in committed' THEN 1 ELSE 0
    BY DEF SucceededOnce
  <2>2. CASE l = k
    BY <1>1, <1>2, <1>4, <2>2
  <2>3. CASE l # k
    <3>1. succeeded'[l] = succeeded[l] /\ (l \in committed' <=> l \in committed)
      BY <1>2, <1>3, <2>3
    <3>2. succeeded[l] <= IF l \in committed THEN 1 ELSE 0
      BY DEF AlarmsInvariant, SucceededOnce
    <3>3. QED
      BY <3>1, <3>2
  <2>4. QED
    BY <2>2, <2>3
<1>7. QED
  BY <1>2, <1>5, <1>6 DEF AlarmsInvariant, StormReported

\* The invariant of the error manager is inductive.
LEMMA NextAlarms == AlarmsInvariant /\ [JournalNext]_journalVars => AlarmsInvariant'
<1> SUFFICES ASSUME AlarmsInvariant, [JournalNext]_journalVars PROVE AlarmsInvariant'
  OBVIOUS
<1>1. CASE UNCHANGED <<windows, announced, notices, occurred, committed, succeeded>> /\ clock' \in Time
  BY <1>1 DEF AlarmsInvariant, AlarmsTyped, StormReported, SucceededOnce
<1>2. ASSUME NEW i \in Inputs, NEW fails \in BOOLEAN, NEW optionalFails \in BOOLEAN,
             Emit(i, fails, optionalFails)
      PROVE  AlarmsInvariant'
  BY <1>1, <1>2 DEF Emit, AlarmsInvariant, AlarmsTyped
<1>3. CASE VerifyChain
  BY <1>1, <1>3 DEF VerifyChain, AlarmsInvariant, AlarmsTyped
<1>4. ASSUME NEW t \in Time, SetClock(t) PROVE AlarmsInvariant'
  BY <1>1, <1>4 DEF SetClock
<1>5. CASE UNCHANGED journalVars
  BY <1>1, <1>5 DEF journalVars, AlarmsInvariant, AlarmsTyped
<1>6. QED
  BY <1>2, <1>3, <1>4, <1>5, CaptureKeeps, RegisterKeeps, ExecuteKeeps
     DEF JournalNext, EmitNext, CaptureNext, NotifyNext, RetryNext

\* A storm is announced while the window of its code is full, told notifications
\* are a cooldown apart, and a retried call succeeds once at most.
THEOREM AlarmsAreHeard == JournalSpec => []AlarmsHeard
<1>1. AlarmsInvariant => AlarmsHeard
  <2>1. SUFFICES ASSUME AlarmsInvariant PROVE  NotificationsSpaced
    BY DEF AlarmsInvariant, AlarmsHeard
  <2>2. \A k \in Keys : Spaced(occurred[k])
    BY <2>1 DEF AlarmsInvariant
  <2>3. QED
    BY <2>2 DEF Spaced, NotificationsSpaced
<1>2. QED
  BY <1>1, InitAlarms, NextAlarms, PTL DEF JournalSpec

-----------------------------------------------------------------------------
(* The observability service: its history.                                 *)

\* What may be emitted.
Input == [code : Codes, audit : BOOLEAN, severity : SeverityRank, size : Nat]

\* The history is a part of the chain, in its order: all of it unless something
\* was dropped.
ChainKept(j) ==
  /\ j = [sequence |-> j.sequence, history |-> j.history, health |-> j.health,
          dropped |-> j.dropped, dedupe |-> j.dedupe, files |-> j.files]
  /\ j.sequence \in Nat /\ j.history \in Seq(StructuredEvent)
  /\ Len(j.history) <= MaxHistory
  /\ j.dropped = j.sequence - Len(j.history)
  /\ j.dropped \in Nat
  /\ \A m \in 1..Len(j.history) : j.history[m].sequence <= j.sequence
  /\ \A m, n \in 1..Len(j.history) :
       m < n => j.history[m].sequence < j.history[n].sequence
  /\ j.dropped = 0 =>
       \A m \in 1..Len(j.history) : j.history[m].sequence = m /\ j.history[m].previous = m - 1

\* The events that must stay: audit events, warnings and errors.
Audited(e) == e.audit \/ e.severity > INFO

\* Those of one history are in another.
KeptIn(before, after) ==
  \A i \in DOMAIN before :
    Audited(before[i]) => \E k \in DOMAIN after : after[k] = before[i]

\* A new event, before it is retained.
NumberedNext(j, e) ==
  /\ j.sequence \in Nat \ {0} /\ e \in StructuredEvent
  /\ e.sequence = j.sequence /\ e.previous = j.sequence - 1

\* Retention drops nothing that must be kept, and keeps the order of the rest.
LEMMA RetainedKeeps ==
  ASSUME NEW j, NEW e,
         ChainKept([j EXCEPT !.sequence = @ - 1]), NumberedNext(j, e),
         j = [sequence |-> j.sequence, history |-> j.history, health |-> j.health,
              dropped |-> j.dropped, dedupe |-> j.dedupe, files |-> j.files]
  PROVE  ChainKept(Retained(j, e)) /\ KeptIn(j.history, Retained(j, e).history)
<1> DEFINE h == j.history
           d == j.dropped
           q == j.sequence
           r == Retained(j, e)
<1>1. /\ q \in Nat \ {0} /\ h \in Seq(StructuredEvent) /\ Len(h) \in Nat /\ Len(h) <= MaxHistory
      /\ d = q - 1 - Len(h) /\ d \in Nat
      /\ \A m \in 1..Len(h) : h[m].sequence <= q - 1
      /\ \A m, n \in 1..Len(h) : m < n => h[m].sequence < h[n].sequence
      /\ d = 0 => \A m \in 1..Len(h) : h[m].sequence = m /\ h[m].previous = m - 1
  <2> DEFINE i == [j EXCEPT !.sequence = @ - 1]
  <2>1. i.sequence = q - 1 /\ i.history = h /\ i.dropped = d
    OBVIOUS
  <2>2. ChainKept(i)
    OBVIOUS
  <2> HIDE DEF i
  <2>3. QED
    BY <2>1, <2>2 DEF ChainKept, NumberedNext
<1>2. e \in StructuredEvent /\ e.sequence = q /\ e.previous = q - 1 /\ MaxHistory \in Nat \ {0}
  BY JournalAssumption DEF NumberedNext, JournalAssumption
<1>3. \A m \in 1..Len(h) : h[m] \in StructuredEvent /\ h[m].sequence \in Nat
  <2>1. \A m \in 1..Len(h) : h[m] \in StructuredEvent
    BY <1>1
  <2>2. QED
    BY <2>1 DEF StructuredEvent
<1>4. CASE Len(h) < MaxHistory
  <2> DEFINE after == Append(h, e)
  <2>1. /\ after \in Seq(StructuredEvent) /\ Len(after) = Len(h) + 1 /\ after[Len(h) + 1] = e
        /\ \A m \in 1..Len(h) : after[m] = h[m]
    BY <1>1, <1>2
  <2>2. /\ r = [sequence |-> q, history |-> after, health |-> j.health,
                dropped |-> d, dedupe |-> j.dedupe, files |-> j.files]
    BY <1>4 DEF Retained
  <2> HIDE DEF after, h, d, q, r
  <2>3. \A m \in 1..Len(after) : m \in 1..Len(h) \/ m = Len(h) + 1
    BY <1>1, <2>1
  <2>4. \A m \in 1..Len(after) : after[m].sequence <= q
    BY <1>1, <1>2, <1>3, <2>1, <2>3
  <2>5. \A m, n \in 1..Len(after) : m < n => after[m].sequence < after[n].sequence
    <3>1. SUFFICES ASSUME NEW m \in 1..Len(after), NEW n \in 1..Len(after), m < n
                   PROVE  after[m].sequence < after[n].sequence
      OBVIOUS
    <3>2. m \in 1..Len(h) /\ m \in Nat /\ n \in Nat
      BY <1>1, <2>1, <3>1
    <3>3. CASE n \in 1..Len(h)
      BY <1>1, <2>1, <3>1, <3>2, <3>3
    <3>4. CASE n = Len(h) + 1
      <4>1. after[n].sequence = q /\ after[m] = h[m] /\ h[m].sequence <= q - 1
        BY <1>1, <1>2, <2>1, <3>2, <3>4
      <4>2. QED
        BY <1>1, <1>3, <3>2, <4>1
    <3>5. QED
      BY <2>3, <3>3, <3>4
  <2>6. d = 0 => \A m \in 1..Len(after) : after[m].sequence = m /\ after[m].previous = m - 1
    <3>1. SUFFICES ASSUME d = 0, NEW m \in 1..Len(after)
                   PROVE  after[m].sequence = m /\ after[m].previous = m - 1
      OBVIOUS
    <3>2. CASE m \in 1..Len(h)
      BY <1>1, <2>1, <3>1, <3>2
    <3>3. CASE m = Len(h) + 1
      <4>1. q = m
        BY <1>1, <3>1, <3>3
      <4>2. QED
        BY <1>2, <2>1, <3>3, <4>1
    <3>4. QED
      BY <2>3, <3>2, <3>3
  <2>7. d = q - Len(after) /\ Len(after) <= MaxHistory
    BY <1>1, <1>2, <1>4, <2>1
  <2>8. ChainKept(r)
    BY <1>1, <2>1, <2>2, <2>4, <2>5, <2>6, <2>7 DEF ChainKept
  <2>9. KeptIn(h, after)
    <3>1. DOMAIN h = 1..Len(h) /\ DOMAIN after = 1..Len(after)
      BY <1>1, <2>1
    <3>2. \A m \in 1..Len(h) : m \in 1..Len(after)
      BY <1>1, <2>1
    <3>3. QED
      BY <2>1, <3>1, <3>2 DEF KeptIn
  <2>10. QED
    BY <2>2, <2>8, <2>9 DEF h, r
<1>5. CASE Len(h) >= MaxHistory /\ Removable(h) = {}
  <2>1. r = [sequence |-> q, history |-> h, health |-> "DEGRADED",
             dropped |-> d + 1, dedupe |-> j.dedupe, files |-> j.files]
    <3>1. ~(Len(j.history) < MaxHistory)
      BY <1>1, <1>2, <1>5
    <3>2. r = [j EXCEPT !.health = "DEGRADED", !.dropped = @ + 1]
      BY <1>5, <3>1 DEF Retained
    <3>3. QED
      BY <3>2
  <2> HIDE DEF h, d, q, r
  <2>2. d + 1 = q - Len(h) /\ d + 1 \in Nat /\ d + 1 # 0
    BY <1>1
  <2>3. \A m \in 1..Len(h) : h[m].sequence <= q
    BY <1>1, <1>3
  <2>4. ChainKept(r)
    BY <1>1, <2>1, <2>2, <2>3 DEF ChainKept
  <2>5. KeptIn(h, h)
    BY DEF KeptIn
  <2>6. QED
    BY <2>1, <2>4, <2>5 DEF h, r
<1>6. CASE Len(h) >= MaxHistory /\ Removable(h) # {}
  <2> DEFINE x == Min(Removable(h))
             cut == RemoveAt(h, x)
             after == Append(cut, e)
  <2>1. DOMAIN h = 1..Len(h)
    BY <1>1
  <2>2. x \in Removable(h)
    <3>1. Removable(h) \in SUBSET Nat
      BY <2>1 DEF Removable
    <3>2. QED
      BY <1>6, <3>1, LeastOf
  <2>3. x \in 1..Len(h) /\ ~Audited(h[x])
    <3>1. /\ x \in 1..Len(h) /\ ~h[x].audit /\ h[x].severity <= INFO
      BY <2>1, <2>2 DEF Removable
    <3>2. h[x].severity \in 0..4
      BY <1>3, <3>1 DEF StructuredEvent, SeverityRank
    <3>3. ~(h[x].severity > INFO)
      BY <3>1, <3>2 DEF INFO
    <3>4. QED
      BY <3>1, <3>3 DEF Audited
  <2>4. r = [sequence |-> q, history |-> after, health |-> j.health,
             dropped |-> d + 1, dedupe |-> j.dedupe, files |-> j.files]
    <3>1. ~(Len(j.history) < MaxHistory)
      BY <1>1, <1>2, <1>6
    <3>2. r = [j EXCEPT !.history = after, !.dropped = @ + 1]
      BY <1>6, <3>1 DEF Retained
    <3> HIDE DEF after
    <3>3. QED
      BY <3>2
  <2> HIDE DEF x
  <2>5. /\ cut \in Seq(StructuredEvent) /\ Len(cut) = Len(h) - 1
        /\ \A m \in 1..(Len(h) - 1) : cut[m] = IF m < x THEN h[m] ELSE h[m + 1]
    BY <1>1, <2>3, RemovedFacts
  <2> HIDE DEF cut
  <2>6. /\ after \in Seq(StructuredEvent) /\ Len(after) = Len(h) /\ after[Len(h)] = e
        /\ \A m \in 1..(Len(h) - 1) : after[m] = IF m < x THEN h[m] ELSE h[m + 1]
    BY <1>1, <1>2, <2>5
  <2> HIDE DEF after, h, d, q, r
  <2>7. \A m \in 1..(Len(h) - 1) : \E i \in 1..Len(h) : after[m] = h[i] /\ i = IF m < x THEN m ELSE m + 1
    <3>1. SUFFICES ASSUME NEW m \in 1..(Len(h) - 1)
                   PROVE  \E i \in 1..Len(h) : after[m] = h[i] /\ i = IF m < x THEN m ELSE m + 1
      OBVIOUS
    <3>2. m \in 1..Len(h) /\ m + 1 \in 1..Len(h)
      BY <1>1
    <3>3. QED
      BY <2>6, <3>2
  <2>8. \A m \in 1..Len(h) : m \in 1..(Len(h) - 1) \/ m = Len(h)
    BY <1>1
  <2>9. \A m \in 1..Len(after) : after[m].sequence <= q
    <3>1. SUFFICES ASSUME NEW m \in 1..Len(h) PROVE after[m].sequence <= q
      BY <2>6
    <3>2. CASE m = Len(h)
      BY <1>1, <1>2, <2>6, <3>2
    <3>3. CASE m \in 1..(Len(h) - 1)
      <4>1. PICK i \in 1..Len(h) : after[m] = h[i]
        BY <2>7, <3>3
      <4>2. QED
        BY <1>1, <1>3, <4>1
    <3>4. QED
      BY <2>8, <3>2, <3>3
  <2>10. \A m, n \in 1..Len(after) : m < n => after[m].sequence < after[n].sequence
    <3>1. SUFFICES ASSUME NEW m \in 1..Len(h), NEW n \in 1..Len(h), m < n
                   PROVE  after[m].sequence < after[n].sequence
      BY <2>6
    <3>2. m \in 1..(Len(h) - 1)
      BY <1>1, <3>1
    <3>3. PICK i \in 1..Len(h) : after[m] = h[i] /\ i = IF m < x THEN m ELSE m + 1
      BY <2>7, <3>2
    <3>4. CASE n = Len(h)
      <4>1. after[n].sequence = q /\ h[i].sequence <= q - 1
        BY <1>1, <1>2, <2>6, <3>4
      <4>2. QED
        BY <1>1, <1>3, <3>3, <4>1
    <3>5. CASE n \in 1..(Len(h) - 1)
      <4>1. PICK k \in 1..Len(h) : after[n] = h[k] /\ k = IF n < x THEN n ELSE n + 1
        BY <2>7, <3>5
      <4>2. i < k
        BY <1>1, <2>3, <3>1, <3>3, <4>1
      <4>3. QED
        BY <1>1, <3>3, <4>1, <4>2
    <3>6. QED
      BY <2>8, <3>4, <3>5
  <2>11. d + 1 = q - Len(after) /\ d + 1 \in Nat /\ d + 1 # 0 /\ Len(after) <= MaxHistory
    BY <1>1, <2>6
  <2>12. ChainKept(r)
    BY <1>1, <2>4, <2>6, <2>9, <2>10, <2>11 DEF ChainKept
  <2>13. KeptIn(h, after)
    <3>1. DOMAIN after = 1..Len(h)
      BY <1>1, <2>6
    <3>2. SUFFICES ASSUME NEW i \in 1..Len(h), Audited(h[i])
                   PROVE  \E k \in 1..Len(h) : after[k] = h[i]
      BY <2>1, <3>1 DEF KeptIn
    <3>3. i # x
      BY <2>3, <3>2
    <3>4. CASE i < x
      <4>1. i \in 1..(Len(h) - 1) /\ i \in 1..Len(h)
        BY <1>1, <2>3, <3>4
      <4>2. QED
        BY <2>6, <3>4, <4>1
    <3>5. CASE i > x
      <4>1. i - 1 \in 1..(Len(h) - 1) /\ i - 1 \in 1..Len(h) /\ ~(i - 1 < x) /\ (i - 1) + 1 = i
        BY <1>1, <2>3, <3>5
      <4>2. after[i - 1] = h[i]
        BY <2>6, <4>1
      <4>3. QED
        BY <4>1, <4>2
    <3>6. QED
      BY <1>1, <2>3, <3>3, <3>4, <3>5
  <2>14. QED
    BY <2>4, <2>12, <2>13 DEF h, r
<1>7. QED
  BY <1>1, <1>2, <1>4, <1>5, <1>6

\* The chain is about the numbers and the history only.
LEMMA SameChain ==
  ASSUME NEW i, NEW j, ChainKept(i),
         j = [sequence |-> i.sequence, history |-> i.history, health |-> j.health,
              dropped |-> i.dropped, dedupe |-> j.dedupe, files |-> j.files]
  PROVE  ChainKept(j)
<1>1. /\ j.sequence = i.sequence /\ j.history = i.history /\ j.dropped = i.dropped
      /\ j = [sequence |-> j.sequence, history |-> j.history, health |-> j.health,
              dropped |-> j.dropped, dedupe |-> j.dedupe, files |-> j.files]
  OBVIOUS
<1>2. QED
  BY <1>1 DEF ChainKept

\* emit keeps the chain, and every audit event, warning and error.
LEMMA EmittedKeeps ==
  ASSUME NEW j, ChainKept(j), clock \in Time, NEW input \in Input,
         NEW fails \in BOOLEAN, NEW optionalFails \in BOOLEAN
  PROVE  LET after == Emitted(j, input, fails, optionalFails)
         IN ChainKept(after) /\ KeptIn(j.history, after.history)
<1> DEFINE e == [sequence |-> j.sequence + 1, previous |-> j.sequence, at |-> clock,
                 code |-> input.code, audit |-> input.audit,
                 severity |-> input.severity, size |-> input.size]
           dedupe == IF input.audit THEN j.dedupe
                     ELSE [c \in DOMAIN j.dedupe \cup {input.code} |->
                             IF c = input.code THEN clock ELSE j.dedupe[c]]
           numbered == [j EXCEPT !.sequence = @ + 1, !.dedupe = dedupe]
           retained == Retained(numbered, e)
           after == Emitted(j, input, fails, optionalFails)
<1> SUFFICES ChainKept(after) /\ KeptIn(j.history, after.history)
  OBVIOUS
<1>1. CASE ~ShouldEmit(input) \/ Repeated(j, input)
  <2>1. after = j
    BY <1>1 DEF Emitted
  <2>2. KeptIn(j.history, j.history)
    BY DEF KeptIn
  <2> HIDE DEF after
  <2>3. QED
    BY <2>1, <2>2
<1>2. CASE ~(~ShouldEmit(input) \/ Repeated(j, input))
  <2>1. after = Routed(retained, e, fails, optionalFails)
    BY <1>2 DEF Emitted
  <2>2. /\ j = [sequence |-> j.sequence, history |-> j.history, health |-> j.health,
                dropped |-> j.dropped, dedupe |-> j.dedupe, files |-> j.files]
        /\ j.sequence \in Nat
    BY DEF ChainKept
  <2> HIDE DEF dedupe
  <2>3. numbered = [sequence |-> j.sequence + 1, history |-> j.history, health |-> j.health,
                    dropped |-> j.dropped, dedupe |-> dedupe, files |-> j.files]
    <3>1. numbered = [j EXCEPT !.sequence = @ + 1, !.dedupe = dedupe]
      OBVIOUS
    <3> HIDE DEF numbered
    <3>2. QED
      BY <2>2, <3>1
  <2>4. NumberedNext(numbered, e)
    <3>1. e \in StructuredEvent
      BY <2>2 DEF Input, StructuredEvent
    <3>2. e.sequence = j.sequence + 1 /\ e.previous = j.sequence
      OBVIOUS
    <3> HIDE DEF numbered, e
    <3>3. QED
      BY <2>2, <2>3, <3>1, <3>2 DEF NumberedNext
  <2> HIDE DEF numbered, e
  <2>5. ChainKept([numbered EXCEPT !.sequence = @ - 1])
    <3> DEFINE i == [numbered EXCEPT !.sequence = @ - 1]
    <3>1. i = [sequence |-> j.sequence, history |-> j.history, health |-> i.health,
               dropped |-> j.dropped, dedupe |-> i.dedupe, files |-> i.files]
      BY <2>2, <2>3
    <3> HIDE DEF i
    <3>2. ChainKept(i)
      BY <3>1, SameChain
    <3>3. QED
      BY <3>2 DEF i
  <2>6. ChainKept(retained) /\ KeptIn(j.history, retained.history)
    <3>1. /\ numbered = [sequence |-> numbered.sequence, history |-> numbered.history,
                         health |-> numbered.health, dropped |-> numbered.dropped,
                         dedupe |-> numbered.dedupe, files |-> numbered.files]
          /\ numbered.history = j.history
      BY <2>3
    <3>2. ChainKept(retained) /\ KeptIn(numbered.history, retained.history)
      BY <2>4, <2>5, <3>1, RetainedKeeps
    <3> HIDE DEF retained
    <3>3. QED
      BY <3>1, <3>2
  <2> HIDE DEF retained
  <2>7. /\ after = [sequence |-> retained.sequence, history |-> retained.history,
                    health |-> after.health, dropped |-> retained.dropped,
                    dedupe |-> after.dedupe, files |-> after.files]
    <3>1. retained = [sequence |-> retained.sequence, history |-> retained.history,
                      health |-> retained.health, dropped |-> retained.dropped,
                      dedupe |-> retained.dedupe, files |-> retained.files]
      BY <2>6 DEF ChainKept
    <3>2. PICK files, health : after = [retained EXCEPT !.files = files, !.health = health]
      BY <2>1 DEF Routed
    <3> HIDE DEF after
    <3>3. QED
      BY <3>1, <3>2
  <2> HIDE DEF after
  <2>8. ChainKept(after) /\ after.history = retained.history
    BY <2>6, <2>7, SameChain
  <2>9. QED
    BY <2>6, <2>8
<1>3. QED
  BY <1>1, <1>2

\* The inductive invariant of the history.
ChainInvariant == clock \in Time /\ ChainKept(journal)

\* An action keeps the chain and what must stay of the history.
Keeping == ChainInvariant' /\ KeptIn(journal.history, journal'.history)

\* emit takes one input.
LEMMA EmitKeepsChain ==
  ASSUME ChainInvariant, NEW i \in Inputs, NEW fails \in BOOLEAN, NEW optionalFails \in BOOLEAN,
         Emit(i, fails, optionalFails)
  PROVE  Keeping
<1> DEFINE input == [code |-> i.code, audit |-> i.audit, severity |-> i.severity, size |-> i.size]
<1>1. input \in Input
  BY JournalAssumption DEF JournalAssumption, Input, Codes
<1>2. Emitted(journal, i, fails, optionalFails) = Emitted(journal, input, fails, optionalFails)
  BY DEF Emitted, ShouldEmit, Repeated
<1> HIDE DEF input
<1>3. journal' = Emitted(journal, input, fails, optionalFails) /\ clock' = clock
  BY <1>2 DEF Emit
<1>4. QED
  BY <1>1, <1>3, EmittedKeeps DEF ChainInvariant, Keeping

\* capture emits one event, and perhaps that of a storm.
LEMMA CaptureKeepsChain ==
  ASSUME ChainInvariant, NEW c \in ErrorCodes, NEW s \in {2, 3, 4}, Capture(c, s)
  PROVE  Keeping
<1>1. /\ AuditEvent("ERR_ESCALATED", 4) \in Input /\ AuditEvent("ERR_CAPTURED", s) \in Input
      /\ AuditEvent("ERR_STORM", 4) \in Input
  BY DEF AuditEvent, Input, Codes, SeverityRank
<1>2. PICK input \in Input :
        \/ journal' = Emitted(journal, input, FALSE, FALSE)
        \/ journal' = Emitted(Emitted(journal, input, FALSE, FALSE),
                              AuditEvent("ERR_STORM", 4), FALSE, FALSE)
  <2>1. CASE Escalated(WindowAfter(c), s)
    BY <1>1, <2>1 DEF Capture
  <2>2. CASE ~Escalated(WindowAfter(c), s)
    BY <1>1, <2>2 DEF Capture
  <2>3. QED
    BY <2>1, <2>2
<1> DEFINE first == Emitted(journal, input, FALSE, FALSE)
           second == Emitted(first, AuditEvent("ERR_STORM", 4), FALSE, FALSE)
<1>3. ChainKept(first) /\ KeptIn(journal.history, first.history)
  BY EmittedKeeps DEF ChainInvariant
<1> HIDE DEF first
<1>4. ChainKept(second) /\ KeptIn(first.history, second.history)
  BY <1>1, <1>3, EmittedKeeps DEF ChainInvariant
<1> HIDE DEF second
<1>5. KeptIn(journal.history, second.history)
  BY <1>3, <1>4 DEF KeptIn
<1>6. clock' = clock /\ (journal' = first \/ journal' = second)
  BY <1>2 DEF Capture, first, second
<1>7. QED
  BY <1>3, <1>4, <1>5, <1>6 DEF ChainInvariant, Keeping

\* Every action keeps the chain and what must stay.
LEMMA NextKeepsChain == ChainInvariant /\ [JournalNext]_journalVars => Keeping
<1> SUFFICES ASSUME ChainInvariant, [JournalNext]_journalVars PROVE Keeping
  OBVIOUS
<1>1. KeptIn(journal.history, journal.history)
  BY DEF KeptIn
<1>2. CASE journal' = journal /\ clock' \in Time
  BY <1>1, <1>2 DEF ChainInvariant, Keeping
<1>3. CASE VerifyChain
  <2>1. /\ journal' = [journal EXCEPT !.health = "CORRUPTED"] /\ clock' = clock
    BY <1>3 DEF VerifyChain
  <2>2. /\ journal' = [sequence |-> journal.sequence, history |-> journal.history,
                       health |-> journal'.health, dropped |-> journal.dropped,
                       dedupe |-> journal'.dedupe, files |-> journal'.files]
    BY <2>1 DEF ChainInvariant, ChainKept
  <2>3. ChainKept(journal') /\ journal'.history = journal.history
    BY <2>2, SameChain DEF ChainInvariant
  <2>4. QED
    BY <1>1, <2>1, <2>3 DEF ChainInvariant, Keeping
<1>4. ASSUME NEW t \in Time, SetClock(t) PROVE Keeping
  BY <1>2, <1>4 DEF SetClock
<1>5. ASSUME NEW k \in Keys, Register(k) PROVE Keeping
  BY <1>2, <1>5 DEF Register, ChainInvariant
<1>6. ASSUME NEW k \in Keys,
             NEW results \in [1..MaximumAttempts -> {"SUCCESS", "RETRYABLE", "FAILURE"}],
             ExecuteWithRetry(k, results)
      PROVE  Keeping
  BY <1>2, <1>6 DEF ExecuteWithRetry, ChainInvariant
<1>7. CASE UNCHANGED journalVars
  BY <1>2, <1>7 DEF journalVars, ChainInvariant
<1>8. QED
  BY <1>3, <1>4, <1>5, <1>6, <1>7, EmitKeepsChain, CaptureKeepsChain
     DEF JournalNext, EmitNext, CaptureNext, NotifyNext, RetryNext

LEMMA InitChain == JournalInit => ChainInvariant
<1>1. SUFFICES ASSUME JournalInit PROVE ChainInvariant
  OBVIOUS
<1>2. clock \in Time
  BY <1>1, EvidenceAssumption DEF EvidenceAssumption, Time, JournalInit
<1>3. /\ journal = FreshJournal /\ journal.sequence = 0 /\ journal.history = <<>>
      /\ journal.dropped = 0
  BY <1>1 DEF JournalInit, FreshJournal
<1>4. /\ journal.history \in Seq(StructuredEvent) /\ Len(journal.history) = 0
      /\ 1..Len(journal.history) = {}
  BY <1>3
<1>5. journal = [sequence |-> journal.sequence, history |-> journal.history,
                 health |-> journal.health, dropped |-> journal.dropped,
                 dedupe |-> journal.dedupe, files |-> journal.files]
  BY <1>3 DEF FreshJournal
<1>6. MaxHistory \in Nat
  BY JournalAssumption DEF JournalAssumption
<1>7. /\ Len(journal.history) <= MaxHistory
      /\ journal.dropped = journal.sequence - Len(journal.history)
      /\ journal.dropped \in Nat /\ journal.sequence \in Nat
  <2>1. journal.sequence = 0 /\ journal.dropped = 0 /\ Len(journal.history) = 0
    BY <1>3, <1>4
  <2>2. QED
    BY <1>6, <2>1
<1>8. ASSUME NEW m \in 1..Len(journal.history) PROVE FALSE
  BY <1>4
<1>9. ChainKept(journal)
  BY <1>4, <1>5, <1>7, <1>8 DEF ChainKept
<1>10. QED
  BY <1>2, <1>9 DEF ChainInvariant

\* Whatever is dropped, the history is in the order of emission and the whole
\* chain as long as nothing was dropped, and no audit event, warning or error that
\* it holds is dropped.
THEOREM ChainIsKept == JournalSpec => []ChainWhole /\ AuditKept
<1>1. JournalInit => ChainInvariant
  BY InitChain
<1>2. ChainInvariant /\ [JournalNext]_journalVars => ChainInvariant'
  BY NextKeepsChain DEF Keeping
<1>3. ChainInvariant => ChainWhole
  <2>1. SUFFICES ASSUME ChainInvariant PROVE ChainWhole
    OBVIOUS
  <2> DEFINE h == journal.history
  <2>2. /\ Len(h) \in Nat /\ journal.sequence \in Nat
        /\ journal.dropped = journal.sequence - Len(h)
        /\ \A m, n \in 1..Len(h) : m < n => h[m].sequence < h[n].sequence
        /\ journal.dropped = 0 =>
             \A m \in 1..Len(h) : h[m].sequence = m /\ h[m].previous = m - 1
    BY <2>1 DEF ChainInvariant, ChainKept
  <2> HIDE DEF h
  <2>3. \A i \in 1..(Len(h) - 1) : i \in 1..Len(h) /\ i + 1 \in 1..Len(h) /\ i < i + 1
    BY <2>2
  <2>4. \A i \in 1..(Len(h) - 1) : h[i].sequence < h[i + 1].sequence
    BY <2>2, <2>3
  <2>5. journal.dropped = 0 => ChainHolds(h)
    <3>1. SUFFICES ASSUME journal.dropped = 0, NEW i \in 1..(Len(h) - 1)
                   PROVE  h[i + 1].previous = h[i].sequence
      BY DEF ChainHolds
    <3>2. h[i + 1].previous = (i + 1) - 1 /\ h[i].sequence = i
      BY <2>2, <2>3, <3>1
    <3>3. QED
      BY <3>2
  <2>6. QED
    BY <2>2, <2>4, <2>5 DEF ChainWhole, h
<1>4. ChainInvariant => [ \A i \in DOMAIN journal.history :
        LET e == journal.history[i]
        IN e.audit \/ e.severity > INFO =>
             \E k \in DOMAIN journal'.history : journal'.history[k] = e
      ]_journalVars \/ ~[JournalNext]_journalVars
  BY NextKeepsChain DEF Keeping, KeptIn, Audited
<1>5. QED
  BY <1>1, <1>2, <1>3, <1>4, PTL DEF JournalSpec, AuditKept

-----------------------------------------------------------------------------
(* The observability service: its files.                                   *)

\* The files are typed, within their limits, and hold events up to number n in
\* the order of emission, the later ones in the files before.
FilesKept(files, n) ==
  /\ files \in Seq(Seq(StructuredEvent)) /\ Len(files) > 0 /\ Len(files) <= RotationCount + 1
  /\ \A i \in 1..Len(files) : Bytes(files[i]) <= MaxFileBytes
  /\ TotalBytes(files) <= MaxTotalBytes
  /\ \A i \in 1..Len(files) : \A k \in 1..Len(files[i]) : files[i][k].sequence <= n
  /\ \A i, j \in 1..Len(files) : \A k \in 1..Len(files[i]), l \in 1..Len(files[j]) :
       i > j \/ (i = j /\ k < l) => files[i][k].sequence < files[j][l].sequence

\* The amounts Bytes and TotalBytes add up.
Sizes(file) == [i \in DOMAIN file |-> file[i].size]
FileSizes(files) == [i \in DOMAIN files |-> Bytes(files[i])]

LEMMA SizesFacts ==
  ASSUME NEW file \in Seq(StructuredEvent)
  PROVE  /\ Bytes(file) = SumOver(Sizes(file), 1..Len(file)) /\ Bytes(file) \in Nat
         /\ IsFiniteSet(1..Len(file)) /\ Amounts(Sizes(file), 1..Len(file))
<1>1. DOMAIN file = 1..Len(file) /\ Len(file) \in Nat
  OBVIOUS
<1>2. IsFiniteSet(1..Len(file))
  BY <1>1, FS_Interval
<1>3. Amounts(Sizes(file), 1..Len(file))
  <2>1. \A i \in 1..Len(file) : file[i] \in StructuredEvent
    OBVIOUS
  <2>2. \A i \in 1..Len(file) : file[i].size \in Nat
    BY <2>1 DEF StructuredEvent
  <2>3. QED
    BY <1>1, <2>2 DEF Amounts, Sizes
<1>4. Bytes(file) = SumOver(Sizes(file), 1..Len(file))
  BY <1>1 DEF Bytes, Sizes
<1>5. SumOver(Sizes(file), 1..Len(file)) \in Nat
  <2> DEFINE f == Sizes(file)
             S == 1..Len(file)
  <2> HIDE DEF f, S
  <2>1. \A x \in S : f[x] <= f[x]
    BY <1>3 DEF Amounts, f, S
  <2>2. S \subseteq S
    OBVIOUS
  <2>3. QED
    BY <1>2, <1>3, <2>1, <2>2, SumLess DEF f, S
<1>6. QED
  BY <1>2, <1>3, <1>4, <1>5

LEMMA FileSizesFacts ==
  ASSUME NEW files \in Seq(Seq(StructuredEvent))
  PROVE  /\ TotalBytes(files) = SumOver(FileSizes(files), 1..Len(files)) /\ TotalBytes(files) \in Nat
         /\ IsFiniteSet(1..Len(files)) /\ Amounts(FileSizes(files), 1..Len(files))
         /\ \A i \in 1..Len(files) : FileSizes(files)[i] = Bytes(files[i]) /\ Bytes(files[i]) \in Nat
<1>1. DOMAIN files = 1..Len(files) /\ Len(files) \in Nat
  OBVIOUS
<1>2. IsFiniteSet(1..Len(files))
  BY <1>1, FS_Interval
<1>3. \A i \in 1..Len(files) : FileSizes(files)[i] = Bytes(files[i]) /\ Bytes(files[i]) \in Nat
  <2>1. \A i \in 1..Len(files) : files[i] \in Seq(StructuredEvent)
    OBVIOUS
  <2>2. \A i \in 1..Len(files) : Bytes(files[i]) \in Nat
    BY <2>1, SizesFacts
  <2>3. QED
    BY <1>1, <2>2 DEF FileSizes
<1>4. Amounts(FileSizes(files), 1..Len(files))
  BY <1>3 DEF Amounts
<1>5. TotalBytes(files) = SumOver(FileSizes(files), 1..Len(files))
  BY <1>1 DEF TotalBytes, FileSizes
<1>6. SumOver(FileSizes(files), 1..Len(files)) \in Nat
  <2> DEFINE f == FileSizes(files)
             S == 1..Len(files)
  <2> HIDE DEF f, S
  <2>1. \A x \in S : f[x] <= f[x]
    BY <1>4 DEF Amounts, f, S
  <2>2. S \subseteq S
    OBVIOUS
  <2>3. QED
    BY <1>2, <1>4, <2>1, <2>2, SumLess DEF f, S
<1>7. QED
  BY <1>2, <1>3, <1>4, <1>5, <1>6

\* An empty file has no bytes, and an event adds its size to its file.
LEMMA BytesMore ==
  /\ Bytes(<<>>) = 0
  /\ \A file \in Seq(StructuredEvent), e \in StructuredEvent :
       Bytes(Append(file, e)) = Bytes(file) + e.size
<1>1. Bytes(<<>>) = 0
  <2>1. DOMAIN <<>> = {}
    OBVIOUS
  <2>2. QED
    BY <2>1, SumOfNothing DEF Bytes
<1>2. ASSUME NEW file \in Seq(StructuredEvent), NEW e \in StructuredEvent
      PROVE  Bytes(Append(file, e)) = Bytes(file) + e.size
  <2> DEFINE more == Append(file, e)
             N == Len(file)
             f == Sizes(more)
             h == Sizes(file)
             S == 1..N
  <2>1. /\ N \in Nat /\ more \in Seq(StructuredEvent) /\ Len(more) = N + 1
        /\ more[N + 1] = e /\ \A i \in 1..N : more[i] = file[i]
        /\ DOMAIN file = 1..N /\ DOMAIN more = 1..(N + 1)
    OBVIOUS
  <2>2. /\ Bytes(more) = SumOver(f, 1..Len(more)) /\ Amounts(f, 1..Len(more))
        /\ Bytes(file) = SumOver(h, S) /\ IsFiniteSet(S) /\ Bytes(file) \in Nat
    BY <2>1, SizesFacts
  <2> HIDE DEF more, N
  <2>3. 1..Len(more) = S \cup {N + 1} /\ N + 1 \notin S
    BY <2>1
  <2>4. f[N + 1] = e.size /\ \A i \in S : h[i] = f[i]
    <3>1. \A i \in S : i \in DOMAIN more /\ i \in DOMAIN file
      BY <2>1
    <3>2. N + 1 \in DOMAIN more
      BY <2>1
    <3>3. QED
      BY <2>1, <3>1, <3>2 DEF Sizes
  <2> HIDE DEF f, h, S
  <2>5. SumOver(f, S \cup {N + 1}) = f[N + 1] + SumOver(h, S) /\ SumOver(h, S) \in Nat
    <3>1. Amounts(f, S \cup {N + 1})
      BY <2>2, <2>3
    <3>2. \A i \in S : h[i] = f[i]
      BY <2>4
    <3>3. IsFiniteSet(S) /\ N + 1 \notin S
      BY <2>2, <2>3
    <3>4. QED
      BY <3>1, <3>2, <3>3, SumWith
  <2>6. e.size \in Nat
    BY DEF StructuredEvent
  <2>7. Bytes(more) = Bytes(file) + e.size
    <3>1. Bytes(more) = SumOver(f, S \cup {N + 1})
      BY <2>2, <2>3
    <3>2. QED
      BY <2>2, <2>4, <2>5, <2>6, <3>1
  <2>8. QED
    BY <2>7 DEF more
<1>3. QED
  BY <1>1, <1>2

\* The total with another first file.
LEMMA TotalWithFirst ==
  ASSUME NEW files \in Seq(Seq(StructuredEvent)), Len(files) > 0,
         NEW file \in Seq(StructuredEvent)
  PROVE  LET changed == [files EXCEPT ![1] = file]
         IN TotalBytes(changed) + Bytes(files[1]) = TotalBytes(files) + Bytes(file)
<1> DEFINE changed == [files EXCEPT ![1] = file]
           N == Len(files)
           f == FileSizes(files)
           g == FileSizes(changed)
           S == 2..N
<1>1. /\ N \in Nat /\ N > 0 /\ changed \in Seq(Seq(StructuredEvent)) /\ Len(changed) = N
      /\ changed[1] = file /\ \A i \in S : changed[i] = files[i]
  OBVIOUS
<1>2. /\ TotalBytes(files) = SumOver(f, 1..N) /\ Amounts(f, 1..N)
      /\ \A i \in 1..N : f[i] = Bytes(files[i]) /\ Bytes(files[i]) \in Nat
      /\ IsFiniteSet(1..N)
  BY FileSizesFacts
<1>3. /\ TotalBytes(changed) = SumOver(g, 1..N) /\ Amounts(g, 1..N)
      /\ \A i \in 1..N : g[i] = Bytes(changed[i]) /\ Bytes(changed[i]) \in Nat
  <2> HIDE DEF changed, N
  <2>1. QED
    BY <1>1, FileSizesFacts
<1> HIDE DEF changed, N, f, g
<1>4. 1..N = S \cup {1} /\ 1 \notin S /\ 1 \in 1..N
  BY <1>1
<1>5. IsFiniteSet(S)
  BY <1>2, <1>4, FS_Subset
<1> HIDE DEF S
<1>6. \A i \in S : f[i] = f[i] /\ f[i] = g[i]
  BY <1>1, <1>2, <1>3, <1>4
<1>7. SumOver(f, S \cup {1}) = f[1] + SumOver(f, S) /\ SumOver(f, S) \in Nat
  <2>1. Amounts(f, S \cup {1})
    BY <1>2, <1>4
  <2>2. QED
    BY <1>4, <1>5, <1>6, <2>1, SumWith
<1>8. SumOver(g, S \cup {1}) = g[1] + SumOver(f, S)
  <2>1. Amounts(g, S \cup {1})
    BY <1>3, <1>4
  <2>2. \A i \in S : f[i] = g[i]
    BY <1>6
  <2>3. QED
    BY <1>4, <1>5, <2>1, <2>2, SumWith
<1>9. f[1] = Bytes(files[1]) /\ g[1] = Bytes(file) /\ f[1] \in Nat /\ g[1] \in Nat
  BY <1>1, <1>2, <1>3, <1>4
<1>10. TotalBytes(changed) + Bytes(files[1]) = TotalBytes(files) + Bytes(file)
  <2>1. /\ TotalBytes(files) = SumOver(f, S \cup {1})
        /\ TotalBytes(changed) = SumOver(g, S \cup {1})
    BY <1>2, <1>3, <1>4
  <2>2. QED
    BY <1>7, <1>8, <1>9, <2>1
<1>11. QED
  BY <1>10 DEF changed

\* The first file alone has no more bytes than all of them.
LEMMA FirstAlone ==
  ASSUME NEW files \in Seq(Seq(StructuredEvent)), Len(files) > 0
  PROVE  /\ TotalBytes(SubSeq(files, 1, 1)) = Bytes(files[1])
         /\ Bytes(files[1]) <= TotalBytes(files)
<1> DEFINE one == SubSeq(files, 1, 1)
           N == Len(files)
           f == FileSizes(files)
           g == FileSizes(one)
<1>1. /\ N \in Nat /\ N > 0 /\ one \in Seq(Seq(StructuredEvent)) /\ Len(one) = 1
      /\ one[1] = files[1] /\ 1 \in 1..N
  OBVIOUS
<1>2. /\ TotalBytes(files) = SumOver(f, 1..N) /\ Amounts(f, 1..N)
      /\ \A i \in 1..N : f[i] = Bytes(files[i]) /\ Bytes(files[i]) \in Nat
      /\ IsFiniteSet(1..N)
  BY FileSizesFacts
<1> HIDE DEF one, N
<1>3. /\ TotalBytes(one) = SumOver(g, 1..1) /\ Amounts(g, 1..1)
      /\ g[1] = Bytes(one[1]) /\ Bytes(one[1]) \in Nat
  <2>1. 1 \in 1..Len(one) /\ 1..Len(one) = 1..1
    BY <1>1
  <2>2. QED
    BY <1>1, <2>1, FileSizesFacts
<1> HIDE DEF f, g
<1>4. 1..1 = {} \cup {1} /\ 1 \notin {} /\ IsFiniteSet({})
  BY FS_EmptySet
<1>5. SumOver(g, {} \cup {1}) = g[1] + SumOver(g, {})
  <2>1. \A i \in {} : g[i] = g[i]
    OBVIOUS
  <2>2. Amounts(g, {} \cup {1})
    BY <1>3, <1>4
  <2>3. QED
    BY <1>4, <2>1, <2>2, SumWith
<1>6. SumOver(g, {}) = 0
  BY SumOfNothing
<1>7. TotalBytes(one) = Bytes(files[1])
  BY <1>1, <1>3, <1>4, <1>5, <1>6
<1>8. SumOver(g, 1..1) <= SumOver(f, 1..N)
  <2>1. 1..1 \subseteq 1..N
    BY <1>1
  <2>2. \A x \in 1..1 : g[x] <= f[x]
    BY <1>1, <1>2, <1>3
  <2>3. QED
    BY <1>2, <1>3, <2>1, <2>2, SumLess
<1>9. Bytes(files[1]) <= TotalBytes(files)
  BY <1>2, <1>3, <1>7, <1>8
<1>10. QED
  BY <1>7, <1>9 DEF one

\* FilesKept, but for the total.
FilesShape(files, n) ==
  /\ files \in Seq(Seq(StructuredEvent)) /\ Len(files) > 0 /\ Len(files) <= RotationCount + 1
  /\ \A i \in 1..Len(files) : Bytes(files[i]) <= MaxFileBytes
  /\ \A i \in 1..Len(files) : \A k \in 1..Len(files[i]) : files[i][k].sequence <= n
  /\ \A i, j \in 1..Len(files) : \A k \in 1..Len(files[i]), l \in 1..Len(files[j]) :
       i > j \/ (i = j /\ k < l) => files[i][k].sequence < files[j][l].sequence

LEMMA JournalConstants ==
  /\ MaxFileBytes \in Nat /\ RotationCount \in Nat \ {0} /\ MaxTotalBytes \in Nat
  /\ MaxHistory \in Nat
BY JournalAssumption DEF JournalAssumption

\* The first files of some are as these.
LEMMA PrefixShape ==
  ASSUME NEW files, NEW n \in Nat, FilesShape(files, n), NEW m \in 1..Len(files)
  PROVE  FilesShape(SubSeq(files, 1, m), n) /\ SubSeq(files, 1, m)[1] = files[1]
<1> DEFINE some == SubSeq(files, 1, m)
<1>1. files \in Seq(Seq(StructuredEvent)) /\ Len(files) \in Nat /\ Len(files) <= RotationCount + 1
  BY DEF FilesShape
<1>2. /\ some \in Seq(Seq(StructuredEvent)) /\ Len(some) = m /\ m \in Nat /\ m > 0
      /\ \A i \in 1..m : some[i] = files[i] /\ i \in 1..Len(files)
  BY <1>1
<1>3. Len(some) <= RotationCount + 1 /\ Len(some) > 0
  BY <1>1, <1>2, JournalConstants
<1> HIDE DEF some
<1>4. /\ \A i \in 1..m : Bytes(some[i]) <= MaxFileBytes
      /\ \A i \in 1..m : \A k \in 1..Len(some[i]) : some[i][k].sequence <= n
  BY <1>2 DEF FilesShape
<1>5. \A i, j \in 1..m : \A k \in 1..Len(some[i]), l \in 1..Len(some[j]) :
        i > j \/ (i = j /\ k < l) => some[i][k].sequence < some[j][l].sequence
  <2> SUFFICES ASSUME NEW i \in 1..m, NEW j \in 1..m, NEW k \in 1..Len(some[i]),
                      NEW l \in 1..Len(some[j]), i > j \/ (i = j /\ k < l)
               PROVE  some[i][k].sequence < some[j][l].sequence
    OBVIOUS
  <2>1. /\ some[i] = files[i] /\ some[j] = files[j]
        /\ i \in 1..Len(files) /\ j \in 1..Len(files)
    BY <1>2
  <2>2. k \in 1..Len(files[i]) /\ l \in 1..Len(files[j])
    BY <2>1
  <2>3. files[i][k].sequence < files[j][l].sequence
    BY <2>1, <2>2 DEF FilesShape
  <2>4. QED
    BY <2>1, <2>3
<1>6. some[1] = files[1]
  BY <1>2
<1>7. QED
  BY <1>2, <1>3, <1>4, <1>5, <1>6 DEF FilesShape, some

\* Rotation puts an empty file before the others, and deletes the oldest.
LEMMA RotatedShape ==
  ASSUME NEW files, NEW n \in Nat, FilesShape(files, n)
  PROVE  FilesShape(Rotated(files), n) /\ Rotated(files)[1] = <<>>
<1> DEFINE L == Len(files)
           shifted == <<<<>>>> \o files
           m == Least(L + 1, RotationCount + 1)
           r == Rotated(files)
<1>1. files \in Seq(Seq(StructuredEvent)) /\ L \in Nat /\ L > 0
  BY DEF FilesShape
<1>2. <<>> \in Seq(StructuredEvent) /\ Len(<<>>) = 0
  OBVIOUS
<1>3. /\ shifted \in Seq(Seq(StructuredEvent)) /\ Len(shifted) = L + 1 /\ shifted[1] = <<>>
      /\ \A i \in 2..(L + 1) : shifted[i] = files[i - 1]
  <2>1. <<<<>>>> \in Seq(Seq(StructuredEvent)) /\ Len(<<<<>>>>) = 1 /\ <<<<>>>>[1] = <<>>
    BY <1>2
  <2> DEFINE one == <<<<>>>>
  <2> HIDE DEF one
  <2>2. /\ one \o files \in Seq(Seq(StructuredEvent)) /\ Len(one \o files) = L + 1
        /\ (one \o files)[1] = one[1] /\ \A i \in 2..(L + 1) : (one \o files)[i] = files[i - 1]
    BY <1>1, <2>1 DEF one
  <2>3. QED
    BY <2>1, <2>2 DEF one
<1>4. r = SubSeq(shifted, 1, m)
  BY <1>3 DEF Rotated
<1>5. m \in 1..(L + 1) /\ m \in Nat /\ m > 0 /\ m <= RotationCount + 1
  BY <1>1, JournalConstants DEF Least
<1> HIDE DEF shifted, m, L, r
<1>6. /\ r \in Seq(Seq(StructuredEvent)) /\ Len(r) = m
      /\ \A i \in 1..m : r[i] = shifted[i]
  BY <1>1, <1>3, <1>4, <1>5
<1>7. r[1] = <<>> /\ \A i \in 2..m : r[i] = files[i - 1] /\ i - 1 \in 1..L
  <2>1. 1 \in 1..m /\ \A i \in 2..m : i \in 1..m /\ i \in 2..(L + 1) /\ i - 1 \in 1..L
    BY <1>1, <1>5
  <2>2. QED
    BY <1>3, <1>6, <2>1
<1>8. ASSUME NEW i \in 1..m PROVE i = 1 \/ i \in 2..m
  BY <1>5
<1>9. \A i \in 1..m : Bytes(r[i]) <= MaxFileBytes
  <2>1. Bytes(r[1]) <= MaxFileBytes
    BY <1>7, BytesMore, JournalConstants
  <2>2. \A i \in 2..m : Bytes(r[i]) <= MaxFileBytes
    BY <1>7 DEF FilesShape, L
  <2>3. QED
    BY <1>8, <2>1, <2>2
<1>10. ASSUME NEW i \in 1..m, NEW k \in 1..Len(r[i]) PROVE i \in 2..m
  <2>1. CASE i = 1
    BY <1>2, <1>7, <2>1
  <2>2. QED
    BY <1>8, <2>1
<1>11. \A i \in 1..m : \A k \in 1..Len(r[i]) : r[i][k].sequence <= n
  BY <1>7, <1>10 DEF FilesShape, L
<1>12. ASSUME NEW i \in 1..m, NEW j \in 1..m, NEW k \in 1..Len(r[i]), NEW l \in 1..Len(r[j]),
              i > j \/ (i = j /\ k < l)
       PROVE  r[i][k].sequence < r[j][l].sequence
  <2>1. i \in 2..m /\ j \in 2..m
    BY <1>10
  <2>2. r[i] = files[i - 1] /\ r[j] = files[j - 1] /\ i - 1 \in 1..L /\ j - 1 \in 1..L
    BY <1>7, <2>1
  <2>3. i - 1 > j - 1 \/ (i - 1 = j - 1 /\ k < l)
    BY <1>5, <1>12
  <2>4. files[i - 1][k].sequence < files[j - 1][l].sequence
    BY <2>2, <2>3 DEF FilesShape, L
  <2>5. QED
    BY <2>2, <2>4
<1>13. FilesShape(r, n)
  BY <1>5, <1>6, <1>9, <1>11, <1>12 DEF FilesShape
<1>14. QED
  BY <1>7, <1>13 DEF r

\* Retention deletes the oldest, until less than the limit is left, or one file.
LEMMA RetentionShape ==
  ASSUME NEW files, NEW n \in Nat, FilesShape(files, n)
  PROVE  LET left == Retention(files)
         IN /\ FilesShape(left, n) /\ left[1] = files[1]
            /\ TotalBytes(left) < MaxTotalBytes \/ TotalBytes(left) = Bytes(files[1])
<1> DEFINE low == {m \in 1..Len(files) :
                     m = 1 \/ TotalBytes(SubSeq(files, 1, m)) < MaxTotalBytes}
           left == Retention(files)
<1>1. files \in Seq(Seq(StructuredEvent)) /\ Len(files) \in Nat /\ Len(files) > 0
  BY DEF FilesShape
<1>2. 1 \in low /\ low \subseteq 1..Len(files)
  BY <1>1
<1>3. left = SubSeq(files, 1, Max(low))
  BY DEF Retention
<1>4. ASSUME NEW m \in low
      PROVE  m = 1 \/ TotalBytes(SubSeq(files, 1, m)) < MaxTotalBytes
  OBVIOUS
<1> HIDE DEF low, left
<1>5. Max(low) \in low
  <2>1. low \in SUBSET (0..Len(files)) /\ low # {}
    BY <1>1, <1>2
  <2>2. QED
    BY <1>1, <2>1, GreatestOf
<1>6. PICK m \in low : left = SubSeq(files, 1, m)
  BY <1>3, <1>5
<1>7. m \in 1..Len(files)
  BY <1>2
<1>8. FilesShape(left, n) /\ left[1] = files[1]
  BY <1>6, <1>7, PrefixShape
<1>9. TotalBytes(left) < MaxTotalBytes \/ TotalBytes(left) = Bytes(files[1])
  <2>1. CASE m = 1
    BY <1>1, <1>6, <2>1, FirstAlone
  <2>2. QED
    BY <1>4, <1>6, <2>1
<1>10. QED
  BY <1>8, <1>9 DEF left

\* What is left for an event: kept, and its first file has room for it.
LEMMA RoomFor ==
  ASSUME NEW files, NEW n \in Nat, FilesKept(files, n), NEW e \in StructuredEvent
  PROVE  LET room == FilesFor(files, e)
         IN /\ FilesShape(room, n) /\ TotalBytes(room) <= MaxTotalBytes
            /\ room[1] = <<>> \/ Bytes(room[1]) + e.size <= MaxFileBytes
<1> DEFINE full == files[1] # <<>> /\ Bytes(files[1]) + e.size > MaxFileBytes
           turned == IF full THEN Rotated(files) ELSE files
           room == FilesFor(files, e)
<1>1. /\ FilesShape(files, n) /\ TotalBytes(files) <= MaxTotalBytes
      /\ files \in Seq(Seq(StructuredEvent)) /\ Len(files) > 0 /\ Len(files) \in Nat
  <2>1. FilesShape(files, n)
    BY DEF FilesKept, FilesShape
  <2>2. QED
    BY <2>1 DEF FilesKept
<1>2. /\ Bytes(files[1]) \in Nat /\ TotalBytes(files) \in Nat /\ e.size \in Nat
      /\ Bytes(files[1]) <= TotalBytes(files)
  <2>1. 1 \in 1..Len(files)
    BY <1>1
  <2>2. QED
    BY <1>1, <2>1, FileSizesFacts, FirstAlone DEF StructuredEvent
<1>3. FilesShape(turned, n) /\ (turned[1] = <<>> \/ Bytes(turned[1]) + e.size <= MaxFileBytes)
  <2>1. CASE full
    BY <1>1, <2>1, RotatedShape
  <2>2. CASE ~full
    <3>1. turned = files
      BY <2>2
    <3>2. files[1] = <<>> \/ Bytes(files[1]) + e.size <= MaxFileBytes
      BY <1>2, <2>2, JournalConstants
    <3>3. QED
      BY <1>1, <3>1, <3>2
  <2>3. QED
    BY <2>1, <2>2
<1>4. Bytes(turned[1]) = 0 \/ turned = files
  <2>1. CASE full
    BY <1>1, <2>1, RotatedShape, BytesMore
  <2>2. QED
    BY <2>1
<1>5. room = IF TotalBytes(turned) + e.size > MaxTotalBytes THEN Retention(turned) ELSE turned
  BY DEF FilesFor
<1> HIDE DEF turned, full, room
<1>6. TotalBytes(turned) \in Nat
  BY <1>3, FileSizesFacts DEF FilesShape
<1>7. CASE TotalBytes(turned) + e.size > MaxTotalBytes
  <2>1. room = Retention(turned)
    BY <1>5, <1>7
  <2>2. /\ FilesShape(room, n) /\ room[1] = turned[1]
        /\ TotalBytes(room) < MaxTotalBytes \/ TotalBytes(room) = Bytes(turned[1])
    BY <1>3, <2>1, RetentionShape
  <2>3. TotalBytes(room) \in Nat
    BY <2>2, FileSizesFacts DEF FilesShape
  <2>4. Bytes(turned[1]) <= MaxTotalBytes
    BY <1>1, <1>2, <1>4, JournalConstants
  <2>5. TotalBytes(room) <= MaxTotalBytes
    BY <2>2, <2>3, <2>4, JournalConstants
  <2>6. QED
    BY <1>3, <2>2, <2>5 DEF room
<1>8. CASE ~(TotalBytes(turned) + e.size > MaxTotalBytes)
  <2>1. room = turned
    BY <1>5, <1>8
  <2>2. TotalBytes(turned) <= MaxTotalBytes
    BY <1>2, <1>6, <1>8, JournalConstants
  <2>3. QED
    BY <1>3, <2>1, <2>2 DEF room
<1>9. QED
  BY <1>7, <1>8

\* Later numbers change nothing.
LEMMA LaterShape ==
  ASSUME NEW files, NEW n \in Nat, FilesShape(files, n)
  PROVE  FilesShape(files, n + 1)
<1>1. ASSUME NEW i \in 1..Len(files), NEW k \in 1..Len(files[i])
      PROVE  files[i][k].sequence <= n + 1
  <2>1. files[i] \in Seq(StructuredEvent)
    BY DEF FilesShape
  <2>2. files[i][k] \in StructuredEvent
    BY <2>1
  <2>3. files[i][k].sequence \in Nat /\ files[i][k].sequence <= n
    BY <2>2 DEF StructuredEvent, FilesShape
  <2>4. QED
    BY <2>3
<1>2. QED
  BY <1>1 DEF FilesShape

\* The next event at the end of the first file.
LEMMA AppendedShape ==
  ASSUME NEW files, NEW n \in Nat, FilesShape(files, n),
         NEW e \in StructuredEvent, e.sequence = n + 1, e.size <= MaxFileBytes,
         files[1] = <<>> \/ Bytes(files[1]) + e.size <= MaxFileBytes
  PROVE  LET more == [files EXCEPT ![1] = Append(@, e)]
         IN FilesShape(more, n + 1) /\ TotalBytes(more) = TotalBytes(files) + e.size
<1> DEFINE L == Len(files)
           first == Append(files[1], e)
           M == Len(files[1])
           more == [files EXCEPT ![1] = first]
<1>1. files \in Seq(Seq(StructuredEvent)) /\ L \in Nat /\ L > 0 /\ L <= RotationCount + 1
  BY DEF FilesShape
<1>2. \A i \in 1..L : files[i] \in Seq(StructuredEvent) /\ Len(files[i]) \in Nat
  BY <1>1
<1>3. 1 \in 1..L /\ files[1] \in Seq(StructuredEvent) /\ M \in Nat
  BY <1>1, <1>2
<1>4. /\ first \in Seq(StructuredEvent) /\ Len(first) = M + 1 /\ first[M + 1] = e
      /\ \A k \in 1..M : first[k] = files[1][k]
  BY <1>3
<1> HIDE DEF first, M
<1>5. /\ more \in Seq(Seq(StructuredEvent)) /\ Len(more) = L /\ more[1] = first
      /\ \A i \in 2..L : more[i] = files[i]
  BY <1>1, <1>4
<1>6. Bytes(first) = Bytes(files[1]) + e.size /\ Bytes(files[1]) \in Nat /\ e.size \in Nat
  BY <1>3, BytesMore, SizesFacts DEF first, StructuredEvent
<1>7. Bytes(first) <= MaxFileBytes
  <2>1. CASE files[1] = <<>>
    BY <1>6, <2>1, BytesMore, JournalConstants
  <2>2. CASE files[1] # <<>>
    BY <1>6, <2>2
  <2>3. QED
    BY <2>1, <2>2
<1>8. TotalBytes(more) = TotalBytes(files) + e.size
  <2>1. TotalBytes(more) + Bytes(files[1]) = TotalBytes(files) + Bytes(first)
    BY <1>1, <1>4, TotalWithFirst
  <2>2. TotalBytes(more) \in Nat /\ TotalBytes(files) \in Nat
    <3> HIDE DEF more
    <3>1. QED
      BY <1>1, <1>5, FileSizesFacts
  <2> HIDE DEF more
  <2>3. QED
    BY <1>6, <2>1, <2>2
<1> HIDE DEF more, L
<1>9. ASSUME NEW i \in 1..L PROVE i = 1 \/ i \in 2..L
  BY <1>1
<1>10. \A i \in 1..L : Bytes(more[i]) <= MaxFileBytes
  BY <1>5, <1>7, <1>9 DEF FilesShape, L
<1>11. ASSUME NEW i \in 1..L, NEW k \in 1..Len(more[i])
       PROVE  \/ more[i][k] = files[i][k] /\ k \in 1..Len(files[i])
              \/ i = 1 /\ k = M + 1 /\ more[i][k] = e
  <2>1. CASE i = 1
    <3>1. k \in 1..(M + 1)
      BY <1>4, <1>5, <2>1
    <3>2. k \in 1..M \/ k = M + 1
      BY <1>3, <3>1
    <3>3. QED
      BY <1>4, <1>5, <2>1, <3>2 DEF M
  <2>2. CASE i # 1
    BY <1>5, <1>9, <2>2
  <2>3. QED
    BY <2>1, <2>2
<1>12. ASSUME NEW i \in 1..L, NEW k \in 1..Len(files[i])
       PROVE  files[i][k].sequence \in Nat /\ files[i][k].sequence <= n
  <2>1. files[i][k] \in StructuredEvent
    BY <1>2
  <2>2. QED
    BY <2>1 DEF StructuredEvent, FilesShape, L
<1>13. \A i \in 1..L : \A k \in 1..Len(more[i]) : more[i][k].sequence <= n + 1
  <2> SUFFICES ASSUME NEW i \in 1..L, NEW k \in 1..Len(more[i])
               PROVE  more[i][k].sequence <= n + 1
    OBVIOUS
  <2>1. CASE more[i][k] = files[i][k] /\ k \in 1..Len(files[i])
    <3>1. files[i][k].sequence \in Nat /\ files[i][k].sequence <= n
      BY <1>12, <2>1
    <3>2. QED
      BY <2>1, <3>1
  <2>2. CASE more[i][k] = e
    BY <2>2
  <2>3. QED
    BY <1>11, <2>1, <2>2
<1>14. ASSUME NEW i \in 1..L, NEW j \in 1..L, NEW k \in 1..Len(more[i]), NEW l \in 1..Len(more[j]),
              i > j \/ (i = j /\ k < l)
       PROVE  more[i][k].sequence < more[j][l].sequence
  <2>1. CASE more[i][k] = files[i][k] /\ k \in 1..Len(files[i])
    <3>1. files[i][k].sequence \in Nat /\ files[i][k].sequence <= n
      BY <1>12, <2>1
    <3>2. CASE more[j][l] = files[j][l] /\ l \in 1..Len(files[j])
      <4>1. files[i][k].sequence < files[j][l].sequence
        BY <1>14, <2>1, <3>2 DEF FilesShape, L
      <4>2. QED
        BY <2>1, <3>2, <4>1
    <3>3. CASE more[j][l] = e
      BY <2>1, <3>1, <3>3
    <3>4. QED
      BY <1>11, <3>2, <3>3
  <2>2. CASE i = 1 /\ k = M + 1
    <3>1. j \in Nat /\ j >= 1 /\ i = j
      BY <1>14, <2>2
    <3>2. k < l /\ l <= M + 1
      BY <1>4, <1>5, <1>14, <2>2, <3>1
    <3>3. QED
      BY <1>3, <2>2, <3>2
  <2>3. QED
    BY <1>11, <2>1, <2>2
<1>15. FilesShape(more, n + 1)
  BY <1>1, <1>5, <1>10, <1>13, <1>14 DEF FilesShape
<1>16. QED
  BY <1>8, <1>15 DEF more, first

\* write keeps the files.
LEMMA WrittenKept ==
  ASSUME NEW files, NEW n \in Nat, FilesKept(files, n),
         NEW e \in StructuredEvent, e.sequence = n + 1
  PROVE  FilesKept(Written(files, e), n + 1)
<1> DEFINE room == FilesFor(files, e)
<1>1. FilesShape(files, n) /\ TotalBytes(files) <= MaxTotalBytes
  BY DEF FilesKept, FilesShape
<1>2. /\ FilesShape(room, n) /\ TotalBytes(room) <= MaxTotalBytes
      /\ room[1] = <<>> \/ Bytes(room[1]) + e.size <= MaxFileBytes
  BY RoomFor
<1>3. /\ Written(files, e) = IF e.size > MaxFileBytes THEN files
                             ELSE IF Refused(files, e) THEN room
                             ELSE [room EXCEPT ![1] = Append(@, e)]
      /\ Refused(files, e) <=> \/ e.size > MaxFileBytes
                               \/ TotalBytes(room) + e.size > MaxTotalBytes
  BY DEF Written, Refused
<1> HIDE DEF room
<1>4. \A fs : FilesShape(fs, n + 1) /\ TotalBytes(fs) <= MaxTotalBytes => FilesKept(fs, n + 1)
  BY DEF FilesShape, FilesKept
<1>5. CASE e.size > MaxFileBytes
  <2>1. Written(files, e) = files
    BY <1>3, <1>5
  <2>2. QED
    BY <1>1, <1>4, <2>1, LaterShape
<1>6. CASE ~(e.size > MaxFileBytes) /\ TotalBytes(room) + e.size > MaxTotalBytes
  <2>1. Written(files, e) = room
    BY <1>3, <1>6
  <2>2. QED
    BY <1>2, <1>4, <2>1, LaterShape
<1>7. CASE ~(e.size > MaxFileBytes) /\ ~(TotalBytes(room) + e.size > MaxTotalBytes)
  <2> DEFINE more == [room EXCEPT ![1] = Append(@, e)]
  <2>1. Written(files, e) = more
    BY <1>3, <1>7
  <2>2. e.size \in Nat /\ TotalBytes(room) \in Nat
    BY <1>2, FileSizesFacts DEF FilesShape, StructuredEvent
  <2>3. e.size <= MaxFileBytes /\ TotalBytes(room) + e.size <= MaxTotalBytes
    BY <1>7, <2>2, JournalConstants
  <2>4. FilesShape(more, n + 1) /\ TotalBytes(more) = TotalBytes(room) + e.size
    BY <1>2, <2>3, AppendedShape
  <2> HIDE DEF more
  <2>5. QED
    BY <1>4, <2>1, <2>3, <2>4
<1>8. QED
  BY <1>5, <1>6, <1>7

\* emit keeps the files, and the health is one of the four.
LEMMA EmittedFiles ==
  ASSUME NEW j, ChainKept(j), FilesKept(j.files, j.sequence), j.health \in ObservabilityHealth,
         clock \in Time, NEW input \in Input, NEW fails \in BOOLEAN, NEW optionalFails \in BOOLEAN
  PROVE  LET after == Emitted(j, input, fails, optionalFails)
         IN FilesKept(after.files, after.sequence) /\ after.health \in ObservabilityHealth
<1> DEFINE e == [sequence |-> j.sequence + 1, previous |-> j.sequence, at |-> clock,
                 code |-> input.code, audit |-> input.audit,
                 severity |-> input.severity, size |-> input.size]
           dedupe == IF input.audit THEN j.dedupe
                     ELSE [c \in DOMAIN j.dedupe \cup {input.code} |->
                             IF c = input.code THEN clock ELSE j.dedupe[c]]
           numbered == [j EXCEPT !.sequence = @ + 1, !.dedupe = dedupe]
           retained == Retained(numbered, e)
           after == Emitted(j, input, fails, optionalFails)
<1> SUFFICES FilesKept(after.files, after.sequence) /\ after.health \in ObservabilityHealth
  OBVIOUS
<1>1. CASE ~ShouldEmit(input) \/ Repeated(j, input)
  <2>1. after = j
    BY <1>1 DEF Emitted
  <2> HIDE DEF after
  <2>2. QED
    BY <2>1
<1>2. CASE ~(~ShouldEmit(input) \/ Repeated(j, input))
  <2>1. after = Routed(retained, e, fails, optionalFails)
    BY <1>2 DEF Emitted
  <2>2. /\ j = [sequence |-> j.sequence, history |-> j.history, health |-> j.health,
                dropped |-> j.dropped, dedupe |-> j.dedupe, files |-> j.files]
        /\ j.sequence \in Nat
    BY DEF ChainKept
  <2>3. e \in StructuredEvent /\ e.sequence = j.sequence + 1
    BY <2>2 DEF Input, StructuredEvent
  <2> HIDE DEF dedupe, e
  <2>4. numbered = [sequence |-> j.sequence + 1, history |-> j.history, health |-> j.health,
                    dropped |-> j.dropped, dedupe |-> dedupe, files |-> j.files]
    <3>1. numbered = [j EXCEPT !.sequence = @ + 1, !.dedupe = dedupe]
      OBVIOUS
    <3> HIDE DEF numbered
    <3>2. QED
      BY <2>2, <3>1
  <2> HIDE DEF numbered
  <2>5. PICK history, health, dropped :
          /\ retained = [numbered EXCEPT !.history = history, !.health = health,
                                         !.dropped = dropped]
          /\ health \in ObservabilityHealth
    <3>1. numbered.health \in ObservabilityHealth
      BY <2>4
    <3>2. CASE Len(numbered.history) < MaxHistory
      <4>1. retained = [numbered EXCEPT !.history = Append(@, e)]
        BY <3>2 DEF Retained
      <4> HIDE DEF retained
      <4>2. retained = [numbered EXCEPT !.history = Append(numbered.history, e),
                                        !.health = numbered.health,
                                        !.dropped = numbered.dropped]
        BY <2>4, <4>1
      <4>3. QED
        BY <3>1, <4>2
    <3>3. CASE ~(Len(numbered.history) < MaxHistory) /\ Removable(numbered.history) = {}
      <4>1. retained = [numbered EXCEPT !.health = "DEGRADED", !.dropped = @ + 1]
        BY <3>3 DEF Retained
      <4> HIDE DEF retained
      <4>2. retained = [numbered EXCEPT !.history = numbered.history, !.health = "DEGRADED",
                                        !.dropped = numbered.dropped + 1]
        BY <2>4, <4>1
      <4>3. "DEGRADED" \in ObservabilityHealth
        BY DEF ObservabilityHealth
      <4>4. QED
        BY <4>2, <4>3
    <3>4. CASE ~(Len(numbered.history) < MaxHistory) /\ Removable(numbered.history) # {}
      <4> DEFINE kept == Append(RemoveAt(numbered.history, Min(Removable(numbered.history))), e)
      <4>1. retained = [numbered EXCEPT !.history = kept, !.dropped = @ + 1]
        BY <3>4 DEF Retained
      <4> HIDE DEF retained, kept
      <4>2. retained = [numbered EXCEPT !.history = kept, !.health = numbered.health,
                                        !.dropped = numbered.dropped + 1]
        BY <2>4, <4>1
      <4>3. QED
        BY <3>1, <4>2
    <3>5. QED
      BY <3>2, <3>3, <3>4
  <2> HIDE DEF retained
  <2>6. retained = [sequence |-> j.sequence + 1, history |-> history, health |-> health,
                    dropped |-> dropped, dedupe |-> dedupe, files |-> j.files]
    BY <2>4, <2>5
  <2>7. PICK other \in ObservabilityHealth :
          after = [retained EXCEPT !.files = IF fails THEN @ ELSE Written(@, e), !.health = other]
    <3>1. "DEGRADED" \in ObservabilityHealth /\ "UNAVAILABLE" \in ObservabilityHealth
          /\ retained.health \in ObservabilityHealth
      BY <2>5, <2>6 DEF ObservabilityHealth
    <3> DEFINE lost == fails \/ Refused(retained.files, e)
               other == IF optionalFails THEN "DEGRADED"
                        ELSE IF lost THEN "UNAVAILABLE" ELSE retained.health
    <3>2. other \in ObservabilityHealth
      BY <3>1
    <3>3. after = [retained EXCEPT !.files = IF fails THEN @ ELSE Written(@, e), !.health = other]
      BY <2>1 DEF Routed
    <3> HIDE DEF other, after
    <3>4. QED
      BY <3>2, <3>3
  <2> HIDE DEF after
  <2>8. /\ after.files = IF fails THEN j.files ELSE Written(j.files, e)
        /\ after.sequence = j.sequence + 1 /\ after.health = other
    BY <2>6, <2>7
  <2>9. FilesKept(j.files, j.sequence + 1)
    <3>1. FilesShape(j.files, j.sequence) /\ TotalBytes(j.files) <= MaxTotalBytes
      BY DEF FilesKept, FilesShape
    <3>2. FilesShape(j.files, j.sequence + 1)
      BY <2>2, <3>1, LaterShape
    <3>3. QED
      BY <3>1, <3>2 DEF FilesKept, FilesShape
  <2>10. FilesKept(Written(j.files, e), j.sequence + 1)
    BY <2>2, <2>3, WrittenKept
  <2>11. QED
    BY <2>7, <2>8, <2>9, <2>10
<1>3. QED
  BY <1>1, <1>2

\* The inductive invariant, over that of the history.
FilesInvariant ==
  FilesKept(journal.files, journal.sequence) /\ journal.health \in ObservabilityHealth

LEMMA EmitKeepsFiles ==
  ASSUME ChainInvariant, FilesInvariant, NEW i \in Inputs, NEW fails \in BOOLEAN,
         NEW optionalFails \in BOOLEAN, Emit(i, fails, optionalFails)
  PROVE  FilesInvariant'
<1> DEFINE input == [code |-> i.code, audit |-> i.audit, severity |-> i.severity, size |-> i.size]
<1>1. input \in Input
  BY JournalAssumption DEF JournalAssumption, Input, Codes
<1>2. Emitted(journal, i, fails, optionalFails) = Emitted(journal, input, fails, optionalFails)
  BY DEF Emitted, ShouldEmit, Repeated
<1> HIDE DEF input
<1>3. journal' = Emitted(journal, input, fails, optionalFails)
  BY <1>2 DEF Emit
<1>4. QED
  BY <1>1, <1>3, EmittedFiles DEF ChainInvariant, FilesInvariant

LEMMA CaptureKeepsFiles ==
  ASSUME ChainInvariant, FilesInvariant, NEW c \in ErrorCodes, NEW s \in {2, 3, 4}, Capture(c, s)
  PROVE  FilesInvariant'
<1>1. /\ AuditEvent("ERR_ESCALATED", 4) \in Input /\ AuditEvent("ERR_CAPTURED", s) \in Input
      /\ AuditEvent("ERR_STORM", 4) \in Input
  BY DEF AuditEvent, Input, Codes, SeverityRank
<1>2. PICK input \in Input :
        \/ journal' = Emitted(journal, input, FALSE, FALSE)
        \/ journal' = Emitted(Emitted(journal, input, FALSE, FALSE),
                              AuditEvent("ERR_STORM", 4), FALSE, FALSE)
  <2>1. CASE Escalated(WindowAfter(c), s)
    BY <1>1, <2>1 DEF Capture
  <2>2. CASE ~Escalated(WindowAfter(c), s)
    BY <1>1, <2>2 DEF Capture
  <2>3. QED
    BY <2>1, <2>2
<1> DEFINE first == Emitted(journal, input, FALSE, FALSE)
           second == Emitted(first, AuditEvent("ERR_STORM", 4), FALSE, FALSE)
<1>3. /\ ChainKept(first) /\ FilesKept(first.files, first.sequence)
      /\ first.health \in ObservabilityHealth
  BY EmittedKeeps, EmittedFiles DEF ChainInvariant, FilesInvariant
<1> HIDE DEF first
<1>4. FilesKept(second.files, second.sequence) /\ second.health \in ObservabilityHealth
  BY <1>1, <1>3, EmittedFiles DEF ChainInvariant
<1> HIDE DEF second
<1>5. journal' = first \/ journal' = second
  BY <1>2 DEF first, second
<1>6. QED
  BY <1>3, <1>4, <1>5 DEF FilesInvariant

LEMMA NextKeepsFiles ==
  ChainInvariant /\ FilesInvariant /\ [JournalNext]_journalVars => FilesInvariant'
<1> SUFFICES ASSUME ChainInvariant, FilesInvariant, [JournalNext]_journalVars
             PROVE  FilesInvariant'
  OBVIOUS
<1>1. CASE journal' = journal
  BY <1>1 DEF FilesInvariant
<1>2. CASE VerifyChain
  <2>1. journal' = [journal EXCEPT !.health = "CORRUPTED"]
    BY <1>2 DEF VerifyChain
  <2>2. journal'.files = journal.files /\ journal'.sequence = journal.sequence
        /\ journal'.health = "CORRUPTED"
    <3>1. journal = [sequence |-> journal.sequence, history |-> journal.history,
                     health |-> journal.health, dropped |-> journal.dropped,
                     dedupe |-> journal.dedupe, files |-> journal.files]
      BY DEF ChainInvariant, ChainKept
    <3>2. QED
      BY <2>1, <3>1
  <2>3. QED
    BY <2>2 DEF FilesInvariant, ObservabilityHealth
<1>3. ASSUME NEW t \in Time, SetClock(t) PROVE FilesInvariant'
  BY <1>1, <1>3 DEF SetClock
<1>4. ASSUME NEW k \in Keys, Register(k) PROVE FilesInvariant'
  BY <1>1, <1>4 DEF Register
<1>5. ASSUME NEW k \in Keys,
             NEW results \in [1..MaximumAttempts -> {"SUCCESS", "RETRYABLE", "FAILURE"}],
             ExecuteWithRetry(k, results)
      PROVE  FilesInvariant'
  BY <1>1, <1>5 DEF ExecuteWithRetry
<1>6. CASE UNCHANGED journalVars
  BY <1>1, <1>6 DEF journalVars
<1>7. QED
  BY <1>2, <1>3, <1>4, <1>5, <1>6, EmitKeepsFiles, CaptureKeepsFiles
     DEF JournalNext, EmitNext, CaptureNext, NotifyNext, RetryNext

LEMMA InitFiles == JournalInit => FilesInvariant
<1> SUFFICES ASSUME JournalInit PROVE FilesInvariant
  OBVIOUS
<1>1. journal.files = <<<<>>>> /\ journal.sequence = 0 /\ journal.health = "HEALTHY"
  BY DEF JournalInit, FreshJournal
<1> DEFINE fs == <<<<>>>>
<1>2. /\ fs \in Seq(Seq(StructuredEvent)) /\ Len(fs) = 1 /\ fs[1] = <<>> /\ Len(<<>>) = 0
  <2>1. <<>> \in Seq(StructuredEvent)
    OBVIOUS
  <2>2. QED
    BY <2>1
<1> HIDE DEF fs
<1>3. TotalBytes(fs) = 0
  <2>1. SubSeq(fs, 1, 1) = fs
    BY <1>2
  <2>2. TotalBytes(SubSeq(fs, 1, 1)) = Bytes(fs[1])
    BY <1>2, FirstAlone
  <2>3. QED
    BY <1>2, <2>1, <2>2, BytesMore
<1>4. \A i \in 1..Len(fs) : fs[i] = <<>> /\ 1..Len(fs[i]) = {}
  BY <1>2
<1>5. \A i \in 1..Len(fs) : Bytes(fs[i]) <= MaxFileBytes
  BY <1>4, BytesMore, JournalConstants
<1>6. FilesKept(fs, 0)
  BY <1>2, <1>3, <1>4, <1>5, JournalConstants DEF FilesKept
<1>7. QED
  BY <1>1, <1>6 DEF FilesInvariant, ObservabilityHealth, fs

\* The limits hold.
LEMMA FilesWithinLimits == ChainInvariant /\ FilesInvariant => WithinLimits
<1> SUFFICES ASSUME ChainInvariant, FilesInvariant PROVE WithinLimits
  OBVIOUS
<1> DEFINE fs == journal.files
           h == journal.history
<1>1. /\ fs \in Seq(Seq(StructuredEvent)) /\ Len(fs) <= RotationCount + 1
      /\ \A i \in 1..Len(fs) : Bytes(fs[i]) <= MaxFileBytes
      /\ TotalBytes(fs) <= MaxTotalBytes
      /\ \A i, j \in 1..Len(fs) : \A k \in 1..Len(fs[i]), l \in 1..Len(fs[j]) :
           i > j \/ (i = j /\ k < l) => fs[i][k].sequence < fs[j][l].sequence
  BY DEF FilesInvariant, FilesKept
<1>2. DOMAIN fs = 1..Len(fs) /\ \A i \in 1..Len(fs) : DOMAIN fs[i] = 1..Len(fs[i])
  <2>1. \A i \in 1..Len(fs) : fs[i] \in Seq(StructuredEvent)
    BY <1>1
  <2>2. QED
    BY <1>1, <2>1
<1>3. h \in Seq(StructuredEvent) /\ Len(h) <= MaxHistory
  BY DEF ChainInvariant, ChainKept
<1>4. JournalTypeOK
  <2>1. \A i \in DOMAIN h : h[i] \in StructuredEvent
    BY <1>3
  <2>2. ToSet(h) \subseteq StructuredEvent
    BY <2>1 DEF ToSet
  <2>3. QED
    BY <2>2 DEF JournalTypeOK, FilesInvariant
<1> HIDE DEF fs, h
<1>5. \A i, j \in DOMAIN fs : \A k \in DOMAIN fs[i], l \in DOMAIN fs[j] :
        i > j \/ (i = j /\ k < l) => fs[i][k].sequence < fs[j][l].sequence
  BY <1>1, <1>2
<1>6. \A i \in DOMAIN fs : Bytes(fs[i]) <= MaxFileBytes
  BY <1>1, <1>2
<1>7. QED
  BY <1>1, <1>3, <1>4, <1>5, <1>6 DEF WithinLimits, fs, h

\* The journal keeps what it must, whatever is emitted, captured and dropped, and
\* whichever sink fails: the history and the files keep within their limits, the
\* files hold what they hold in the order of emission, the chain is whole as long as
\* nothing was dropped, and no audit event that the history holds is dropped.
THEOREM JournalIsKept == JournalSpec => JournalKept
<1>1. JournalInit => ChainInvariant
  BY InitChain
<1>2. ChainInvariant /\ [JournalNext]_journalVars => ChainInvariant'
  BY NextKeepsChain DEF Keeping
<1>3. JournalSpec => [](ChainInvariant /\ FilesInvariant)
  BY <1>1, <1>2, InitFiles, NextKeepsFiles, PTL DEF JournalSpec
<1>4. QED
  BY <1>3, FilesWithinLimits, ChainIsKept, PTL DEF JournalKept

-----------------------------------------------------------------------------
(* Configuration: what the layers of a snapshot say together.              *)

\* The first layers that set a key.
SetBy(layers, key, n) == {i \in 1..n : key \in DOMAIN layers[i]}

\* A key that has a value from the start.
Unreplaced == {k \in DOMAIN Schema : ~Schema[k].replaced}

\* What the value and the source of a key are after some layers.
ValueOf(layers, key, set) == IF set = {} THEN Schema[key].default ELSE layers[Max(set)][key]
SourceOf(set) == IF set = {} THEN "GLOBAL_DEFAULT" ELSE Sources[Max(set)]

\* The keys after some layers.
KeysAfter(r, layers, n) ==
  /\ \A k \in DOMAIN r.values : k \in Unreplaced \/ SetBy(layers, k, n) # {}
  /\ Unreplaced \subseteq DOMAIN r.values
  /\ \A i \in 1..n : DOMAIN layers[i] \subseteq DOMAIN r.values
  /\ DOMAIN r.provenance = DOMAIN r.values

\* The overridden sources after some layers.
OverriddenAfter(r, layers, n) ==
  /\ \A k \in DOMAIN r.overridden : r.overridden[k] \in Seq(ConfigurationSource)
  /\ \A k \in Unreplaced :
       k \in DOMAIN r.overridden /\ Len(r.overridden[k]) = Cardinality(SetBy(layers, k, n))

\* What is resolved after some layers, unless one was refused.
Folded(r, layers, n) ==
  ~r.refused =>
    /\ KeysAfter(r, layers, n)
    /\ OverriddenAfter(r, layers, n)
    /\ \A k \in DOMAIN r.values :
         /\ r.values[k] = ValueOf(layers, k, SetBy(layers, k, n))
         /\ r.provenance[k] = SourceOf(SetBy(layers, k, n))
         /\ r.provenance[k] \in ConfigurationSource
    /\ \A i \in 1..n : \A k \in DOMAIN layers[i] \cap DOMAIN Schema : ~Weakens(k, layers[i][k])

\* The entries of a dict laid over those of another.
Laid(dict, new, old) ==
  /\ DOMAIN dict = DOMAIN new \cup DOMAIN old
  /\ \A k \in DOMAIN new : dict[k] = new[k]
  /\ \A k \in DOMAIN old \ DOMAIN new : dict[k] = old[k]

\* What is laid over a dict.
LEMMA OverFacts ==
  ASSUME NEW new, NEW old PROVE Laid(Over(new, old), new, old)
BY DEF Over, Laid

\* The layers that set a key, when there is one more: it is the last of them.
SetNext(set, next, sets, n) ==
  IF sets THEN /\ next # {} /\ Max(next) = n + 1
               /\ Cardinality(next) = Cardinality(set) + 1 /\ Cardinality(set) \in Nat
  ELSE next = set

\* One more layer.
LEMMA SetByNext ==
  ASSUME NEW layers, NEW key, NEW n \in Nat
  PROVE  SetNext(SetBy(layers, key, n), SetBy(layers, key, n + 1), key \in DOMAIN layers[n + 1], n)
<1> DEFINE S == SetBy(layers, key, n)
           T == SetBy(layers, key, n + 1)
<1>1. S \in SUBSET (0..n) /\ S \in SUBSET (1..n)
  BY DEF SetBy
<1>2. IsFiniteSet(S)
  BY <1>1, FS_Interval, FS_Subset
<1>3. ASSUME key \notin DOMAIN layers[n + 1] PROVE T = S
  BY <1>3 DEF SetBy
<1>4. ASSUME key \in DOMAIN layers[n + 1]
      PROVE  T # {} /\ Max(T) = n + 1 /\ Cardinality(T) = Cardinality(S) + 1
             /\ Cardinality(S) \in Nat
  <2>1. T = S \cup {n + 1} /\ n + 1 \notin S /\ T \in SUBSET (0..(n + 1)) /\ n + 1 \in T
    BY <1>1, <1>4 DEF SetBy
  <2>2. Cardinality(T) = Cardinality(S) + 1 /\ Cardinality(S) \in Nat
    BY <1>2, <2>1, FS_AddElement, FS_CardinalityType
  <2> HIDE DEF T, S
  <2> DEFINE x == Max(T)
  <2>3. x \in T /\ \A k \in T : k <= x
    <3>1. n + 1 \in Nat /\ T # {}
      BY <2>1
    <3>2. QED
      BY <2>1, <3>1, GreatestOf, Zenon
  <2>4. x = n + 1
    <3> HIDE DEF x
    <3> QED
      BY <2>1, <2>3
  <2>5. QED
    BY <2>1, <2>2, <2>4
<1>5. QED
  BY <1>3, <1>4, Zenon DEF SetNext

\* The defaults are what no layer leaves.
LEMMA DefaultsFolded ==
  ASSUME NEW layers PROVE Folded(Defaults, layers, 0)
<1>1. \A k : SetBy(layers, k, 0) = {}
  BY DEF SetBy
<1>2. Cardinality({}) = 0 /\ <<>> \in Seq(ConfigurationSource) /\ Len(<<>>) = 0
  BY FS_EmptySet
<1>3. /\ DOMAIN Defaults.values = Unreplaced /\ DOMAIN Defaults.provenance = Unreplaced
      /\ DOMAIN Defaults.overridden = Unreplaced
      /\ \A k \in Unreplaced : /\ Defaults.values[k] = Schema[k].default
                               /\ Defaults.provenance[k] = "GLOBAL_DEFAULT"
                               /\ Defaults.overridden[k] = <<>>
  BY DEF Defaults, Unreplaced
<1>4. "GLOBAL_DEFAULT" \in ConfigurationSource
  BY DEF ConfigurationSource
<1>5. QED
  <2>1. KeysAfter(Defaults, layers, 0)
    BY <1>3 DEF KeysAfter
  <2>2. OverriddenAfter(Defaults, layers, 0)
    BY <1>1, <1>2, <1>3, Zenon DEF OverriddenAfter
  <2>3. ASSUME NEW k \in Unreplaced
        PROVE  /\ Defaults.values[k] = ValueOf(layers, k, SetBy(layers, k, 0))
               /\ Defaults.provenance[k] = SourceOf(SetBy(layers, k, 0))
               /\ Defaults.provenance[k] \in ConfigurationSource
    BY <1>1, <1>3, <1>4, Zenon DEF ValueOf, SourceOf
  <2>4. QED
    BY <1>3, <2>1, <2>2, <2>3 DEF Folded

\* A layer that is merged sets its keys.
LEMMA MergedFolded ==
  ASSUME NEW layers, NEW n \in 0..4, NEW r, Folded(r, layers, n)
  PROVE  Folded(Merged(r, layers[n + 1], Sources[n + 1]), layers, n + 1)
<1> DEFINE settings == layers[n + 1]
           source == Sources[n + 1]
           m == Merged(r, settings, source)
           known == DOMAIN settings \cap DOMAIN Schema
           marks == [k \in known \cap DOMAIN r.provenance |->
                       Append(IF k \in DOMAIN r.overridden THEN r.overridden[k] ELSE <<>>,
                              r.provenance[k])]
<1>1. SUFFICES ASSUME ~m.refused PROVE Folded(m, layers, n + 1)
  BY DEF Folded
<1>2. ~r.refused /\ (\A k \in known : ~Weakens(k, settings[k]))
      /\ m = [values |-> Over(settings, r.values),
              provenance |-> Over([k \in DOMAIN settings |-> source], r.provenance),
              overridden |-> Over(marks, r.overridden), refused |-> FALSE]
  <2> DEFINE refuses == r.refused \/ \E k \in known : Weakens(k, settings[k])
  <2>1. m = IF refuses THEN [r EXCEPT !.refused = TRUE]
            ELSE [values |-> Over(settings, r.values),
                  provenance |-> Over([k \in DOMAIN settings |-> source], r.provenance),
                  overridden |-> Over(marks, r.overridden), refused |-> FALSE]
    BY DEF Merged
  <2>2. QED
    BY <1>1, <2>1
<1>3. /\ m.values = Over(settings, r.values)
      /\ m.provenance = Over([k \in DOMAIN settings |-> source], r.provenance)
      /\ m.overridden = Over(marks, r.overridden)
  BY <1>2
<1>4. /\ KeysAfter(r, layers, n) /\ OverriddenAfter(r, layers, n)
      /\ \A k \in DOMAIN r.values :
           /\ r.values[k] = ValueOf(layers, k, SetBy(layers, k, n))
           /\ r.provenance[k] = SourceOf(SetBy(layers, k, n))
           /\ r.provenance[k] \in ConfigurationSource
      /\ \A i \in 1..n : \A k \in DOMAIN layers[i] \cap DOMAIN Schema : ~Weakens(k, layers[i][k])
  BY <1>2 DEF Folded
<1>5. n \in Nat /\ n + 1 \in 1..5 /\ \A i \in 1..(n + 1) : i \in 1..n \/ i = n + 1
  OBVIOUS


<1> DEFINE now(k) == SetBy(layers, k, n)
           then(k) == SetBy(layers, k, n + 1)
<1>next. \A k : SetNext(now(k), then(k), k \in DOMAIN settings, n)
  BY <1>5, SetByNext
<1>6. source \in ConfigurationSource
  BY <1>5 DEF Sources, ConfigurationSource
<1>7. /\ DOMAIN m.values = DOMAIN settings \cup DOMAIN r.values
      /\ \A k \in DOMAIN settings : m.values[k] = settings[k]
      /\ \A k \in DOMAIN r.values \ DOMAIN settings : m.values[k] = r.values[k]
  <2>1. Laid(m.values, settings, r.values)
    BY <1>3, OverFacts
  <2>2. QED
    BY <2>1 DEF Laid
<1>8. /\ DOMAIN m.provenance = DOMAIN settings \cup DOMAIN r.values
      /\ \A k \in DOMAIN settings : m.provenance[k] = source
      /\ \A k \in DOMAIN r.values \ DOMAIN settings : m.provenance[k] = r.provenance[k]
  <2> DEFINE new == [k \in DOMAIN settings |-> source]
  <2>1. DOMAIN new = DOMAIN settings /\ \A k \in DOMAIN settings : new[k] = source
    OBVIOUS
  <2>2. Laid(m.provenance, new, r.provenance) /\ DOMAIN r.provenance = DOMAIN r.values
    BY <1>3, <1>4, OverFacts DEF KeysAfter
  <2> HIDE DEF new
  <2>3. QED
    BY <2>1, <2>2 DEF Laid
<1>9. /\ DOMAIN m.overridden = (known \cap DOMAIN r.provenance) \cup DOMAIN r.overridden
      /\ \A k \in known \cap DOMAIN r.provenance :
           m.overridden[k] = Append(IF k \in DOMAIN r.overridden THEN r.overridden[k] ELSE <<>>,
                                    r.provenance[k])
      /\ \A k \in DOMAIN r.overridden \ (known \cap DOMAIN r.provenance) :
           m.overridden[k] = r.overridden[k]
  <2>1. DOMAIN marks = known \cap DOMAIN r.provenance
        /\ \A k \in known \cap DOMAIN r.provenance :
             marks[k] = Append(IF k \in DOMAIN r.overridden THEN r.overridden[k] ELSE <<>>,
                               r.provenance[k])
    OBVIOUS
  <2>2. Laid(m.overridden, marks, r.overridden)
    BY <1>3, OverFacts
  <2> HIDE DEF marks
  <2>3. QED
    BY <2>1, <2>2 DEF Laid
<1> HIDE DEF m, marks, source
<1>10. KeysAfter(m, layers, n + 1)
  <2>1. ASSUME NEW k \in DOMAIN m.values
        PROVE  k \in Unreplaced \/ SetBy(layers, k, n + 1) # {}
    <3>1. CASE k \in DOMAIN settings
      BY <1>5, <3>1, <1>next DEF SetNext
    <3>2. CASE k \notin DOMAIN settings
      BY <1>4, <1>5, <1>7, <3>2, <1>next DEF KeysAfter, SetNext
    <3>3. QED
      BY <3>1, <3>2
  <2>2. Unreplaced \subseteq DOMAIN m.values /\ DOMAIN m.provenance = DOMAIN m.values
    BY <1>4, <1>7, <1>8 DEF KeysAfter
  <2>3. \A i \in 1..(n + 1) : DOMAIN layers[i] \subseteq DOMAIN m.values
    BY <1>4, <1>5, <1>7 DEF KeysAfter
  <2>4. QED
    BY <2>1, <2>2, <2>3 DEF KeysAfter
<1>11. OverriddenAfter(m, layers, n + 1)
  <2>1. ASSUME NEW k \in known \cap DOMAIN r.provenance
        PROVE  /\ m.overridden[k] \in Seq(ConfigurationSource)
               /\ k \in DOMAIN r.overridden => Len(m.overridden[k]) = Len(r.overridden[k]) + 1
    <3> DEFINE before == IF k \in DOMAIN r.overridden THEN r.overridden[k] ELSE <<>>
    <3>1. before \in Seq(ConfigurationSource)
      BY <1>4 DEF OverriddenAfter
    <3>2. r.provenance[k] \in ConfigurationSource /\ m.overridden[k] = Append(before, r.provenance[k])
      BY <1>4, <1>9, <2>1 DEF KeysAfter
    <3>3. k \in DOMAIN r.overridden => before = r.overridden[k]
      OBVIOUS
    <3> HIDE DEF before
    <3>4. QED
      BY <3>1, <3>2, <3>3, AppendProperties
  <2>2. \A k \in DOMAIN m.overridden : m.overridden[k] \in Seq(ConfigurationSource)
    BY <1>4, <1>9, <2>1 DEF OverriddenAfter
  <2>3. ASSUME NEW k \in Unreplaced
        PROVE  k \in DOMAIN m.overridden
               /\ Len(m.overridden[k]) = Cardinality(SetBy(layers, k, n + 1))
    <3>1. /\ k \in DOMAIN Schema /\ k \in DOMAIN r.overridden /\ k \in DOMAIN r.provenance
          /\ Len(r.overridden[k]) = Cardinality(SetBy(layers, k, n))
      BY <1>4 DEF OverriddenAfter, KeysAfter, Unreplaced
    <3>2. CASE k \in DOMAIN settings
      BY <1>5, <1>9, <2>1, <3>1, <3>2, <1>next DEF SetNext
    <3>3. CASE k \notin DOMAIN settings
      BY <1>5, <1>9, <3>1, <3>3, <1>next DEF SetNext
    <3>4. QED
      BY <3>2, <3>3
  <2>4. QED
    BY <2>2, <2>3 DEF OverriddenAfter
<1>12. ASSUME NEW k \in DOMAIN m.values
       PROVE  /\ m.values[k] = ValueOf(layers, k, SetBy(layers, k, n + 1))
              /\ m.provenance[k] = SourceOf(SetBy(layers, k, n + 1))
              /\ m.provenance[k] \in ConfigurationSource
  <2>1. CASE k \in DOMAIN settings
    BY <1>5, <1>6, <1>7, <1>8, <2>1, <1>next DEF ValueOf, SourceOf, SetNext, source
  <2>2. CASE k \notin DOMAIN settings
    BY <1>4, <1>5, <1>7, <1>8, <2>2, <1>next DEF SetNext
  <2>3. QED
    BY <2>1, <2>2
<1>13. \A i \in 1..(n + 1) : \A k \in DOMAIN layers[i] \cap DOMAIN Schema : ~Weakens(k, layers[i][k])
  BY <1>2, <1>4, <1>5
<1>14. QED
  BY <1>10, <1>11, <1>12, <1>13 DEF Folded

\* The five layers of a call.
LEMMA ResolvedFolded ==
  ASSUME NEW layers PROVE Folded(Resolved(layers), layers, 5)
<1> DEFINE r1 == Merged(Defaults, layers[1], Sources[1])
           r2 == Merged(r1, layers[2], Sources[2])
           r3 == Merged(r2, layers[3], Sources[3])
           r4 == Merged(r3, layers[4], Sources[4])
           r5 == Merged(r4, layers[5], Sources[5])
<1>1. Resolved(layers) = r5
  BY DEF Resolved
<1>2. /\ 0 \in 0..4 /\ 1 \in 0..4 /\ 2 \in 0..4 /\ 3 \in 0..4 /\ 4 \in 0..4
      /\ 0 + 1 = 1 /\ 1 + 1 = 2 /\ 2 + 1 = 3 /\ 3 + 1 = 4 /\ 4 + 1 = 5
  OBVIOUS
<1>3. Folded(r1, layers, 1)
  BY <1>2, DefaultsFolded, MergedFolded
<1> HIDE DEF r1
<1>4. Folded(r2, layers, 2)
  BY <1>2, <1>3, MergedFolded
<1> HIDE DEF r2
<1>5. Folded(r3, layers, 3)
  BY <1>2, <1>4, MergedFolded
<1> HIDE DEF r3
<1>6. Folded(r4, layers, 4)
  BY <1>2, <1>5, MergedFolded
<1> HIDE DEF r4
<1>7. Folded(r5, layers, 5)
  BY <1>2, <1>6, MergedFolded
<1>8. QED
  BY <1>1, <1>7

\* build_candidate returns a snapshot that is sound.
LEMMA BuiltSound ==
  ASSUME NEW profile, NEW layers, NEW compatibility, DOMAIN layers = 1..5,
         Built(profile, layers, compatibility) # NoSnapshot
  PROVE  SnapshotSound(Built(profile, layers, compatibility))
<1> DEFINE r == Resolved(layers)
           s == Built(profile, layers, compatibility)
           fails == \/ compatibility \notin {"CURRENT", "COMPATIBLE"} \/ r.refused
                    \/ Status(r.values) = "INVALID"
           made == [values |-> r.values,
                    provenance |-> Over([k \in HardSafety |-> "HARD_CONSTRAINT"], r.provenance),
                    overridden |-> r.overridden, profile |-> profile,
                    status |-> Status(r.values), layers |-> layers]
<1>1. s = IF fails THEN NoSnapshot ELSE made
  BY DEF Built
<1>2. s = made /\ ~r.refused /\ Status(r.values) # "INVALID"
  BY <1>1
<1>3. /\ s.values = r.values /\ s.overridden = r.overridden /\ s.layers = layers
      /\ s.provenance = Over([k \in HardSafety |-> "HARD_CONSTRAINT"], r.provenance)
  BY <1>2
<1>4. Errors(r.values) = {} /\ CrossErrors(r.values) = {}
  BY <1>2 DEF Status
<1>5. Folded(r, layers, 5)
  BY ResolvedFolded
<1> HIDE DEF r, s, made, fails
<1>6. /\ KeysAfter(r, layers, 5) /\ OverriddenAfter(r, layers, 5)
      /\ \A k \in DOMAIN r.values :
           /\ r.values[k] = ValueOf(layers, k, SetBy(layers, k, 5))
           /\ r.provenance[k] = SourceOf(SetBy(layers, k, 5))
           /\ r.provenance[k] \in ConfigurationSource
      /\ \A i \in 1..5 : \A k \in DOMAIN layers[i] \cap DOMAIN Schema : ~Weakens(k, layers[i][k])
  BY <1>2, <1>5 DEF Folded
<1>7. \A k : Setting(s, k) = SetBy(layers, k, 5)
  BY <1>3 DEF Setting, SetBy
<1>8. ASSUME NEW k, SetBy(layers, k, 5) # {}
      PROVE  Max(SetBy(layers, k, 5)) \in SetBy(layers, k, 5)
  <2>1. 5 \in Nat /\ SetBy(layers, k, 5) \in SUBSET (0..5)
    BY DEF SetBy
  <2>2. QED
    BY <1>8, <2>1, GreatestOf
<1>9. /\ \A k \in DOMAIN r.values \cap DOMAIN Schema :
           r.values[k] \in Schema[k].minimum..Schema[k].maximum
      /\ \A k \in DOMAIN r.values \ DOMAIN Schema : r.values[StrictKey] # 1
  BY <1>4 DEF Errors
<1>10. /\ \A pair \in AtMost : ~(r.values[pair[1]] > r.values[pair[2]])
       /\ \A k \in DOMAIN r.values : <<k, r.values[k]>> \notin Malformed
       /\ \A k \in HardSafety : r.values[k] = Schema[k].default
  <2> DEFINE disordered == {p \in AtMost : r.values[p[1]] > r.values[p[2]]}
             firsts == {pair[1] : pair \in disordered}
             malformed == {k \in DOMAIN r.values : <<k, r.values[k]>> \in Malformed}
             changed == {k \in HardSafety : r.values[k] # Schema[k].default}
  <2>1. CrossErrors(r.values) = firsts \cup malformed \cup changed
    BY DEF CrossErrors
  <2>2. firsts = {} /\ malformed = {} /\ changed = {}
    <3> HIDE DEF firsts, malformed, changed
    <3> QED
      BY <1>4, <2>1
  <2>3. disordered = {}
    BY <2>2
  <2>4. QED
    BY <2>2, <2>3
<1>11. ASSUME NEW k \in DOMAIN r.values \cap DOMAIN Schema,
              Schema[k].policy = "RESTRICT_ONLY", Schema[k].switch
       PROVE  /\ r.values[k] \in {0, 1} /\ Schema[k].default \in {0, 1}
              /\ Schema[k].default = 1 => r.values[k] = 1
  <2>1. r.values[k] \in {0, 1} /\ Schema[k].default \in {0, 1}
    BY <1>9, <1>11, ConfigAssumption
  <2>2. r.values[k] = ValueOf(layers, k, SetBy(layers, k, 5))
    BY <1>6
  <2>3. CASE SetBy(layers, k, 5) = {}
    BY <2>1, <2>2, <2>3 DEF ValueOf
  <2>4. CASE SetBy(layers, k, 5) # {}
    <3> DEFINE n == Max(SetBy(layers, k, 5))
    <3>1. n \in 1..5 /\ k \in DOMAIN layers[n] /\ r.values[k] = layers[n][k]
      BY <1>8, <2>2, <2>4 DEF ValueOf, SetBy
    <3> HIDE DEF n
    <3>2. ~Weakens(k, layers[n][k])
      BY <1>6, <3>1
    <3>3. QED
      BY <1>11, <2>1, <3>1, <3>2 DEF Weakens
  <2>5. QED
    BY <2>3, <2>4
<1>12. StrictKey \in DOMAIN r.values \cap DOMAIN Schema /\ r.values[StrictKey] = 1
  <2>1. StrictKey \in Unreplaced /\ Schema[StrictKey].policy = "RESTRICT_ONLY"
        /\ Schema[StrictKey].switch /\ Schema[StrictKey].default = 1
    BY ConfigAssumption DEF Unreplaced
  <2>2. StrictKey \in DOMAIN r.values \cap DOMAIN Schema
    BY <1>6, <2>1 DEF KeysAfter, Unreplaced
  <2>3. QED
    BY <1>11, <2>1, <2>2
<1>13. DOMAIN r.values \subseteq DOMAIN Schema
  BY <1>9, <1>12
<1>14. DOMAIN r.values = {k \in DOMAIN Schema : ~Schema[k].replaced \/ Setting(s, k) # {}}
  <2>1. ASSUME NEW k \in DOMAIN Schema, ~Schema[k].replaced \/ SetBy(layers, k, 5) # {}
        PROVE  k \in DOMAIN r.values
    BY <1>6, <2>1 DEF KeysAfter, Unreplaced, SetBy
  <2>2. ASSUME NEW k \in DOMAIN r.values
        PROVE  ~Schema[k].replaced \/ SetBy(layers, k, 5) # {}
    BY <1>6, <2>2 DEF KeysAfter, Unreplaced
  <2>3. QED
    BY <1>7, <1>13, <2>1, <2>2
<1>15. /\ DOMAIN s.provenance = DOMAIN r.values
       /\ \A k \in DOMAIN s.provenance :
            s.provenance[k] = IF k \in HardSafety THEN "HARD_CONSTRAINT" ELSE r.provenance[k]
  <2> DEFINE hard == [k \in HardSafety |-> "HARD_CONSTRAINT"]
  <2>1. DOMAIN hard = HardSafety /\ \A k \in HardSafety : hard[k] = "HARD_CONSTRAINT"
    OBVIOUS
  <2>2. Laid(s.provenance, hard, r.provenance) /\ DOMAIN r.provenance = DOMAIN r.values
    BY <1>3, <1>6, OverFacts DEF KeysAfter
  <2>3. HardSafety \subseteq DOMAIN r.values
    BY <1>6, ConfigAssumption DEF HardSafety, KeysAfter, Unreplaced
  <2> HIDE DEF hard
  <2>4. QED
    BY <2>1, <2>2, <2>3 DEF Laid
<1>16. Sourced(s)
  <2>1. "HARD_CONSTRAINT" \in ConfigurationSource
    BY DEF ConfigurationSource
  <2>2. QED
    BY <1>6, <1>15, <2>1 DEF Sourced
<1>17. ASSUME NEW k \in DOMAIN s.values
       PROVE  LET set == Setting(s, k)
              IN /\ s.values[k] = IF set = {} THEN Schema[k].default
                                  ELSE s.layers[Max(set)][k]
                 /\ k \notin HardSafety =>
                      s.provenance[k] = IF set = {} THEN "GLOBAL_DEFAULT"
                                        ELSE Sources[Max(set)]
                 /\ ~Schema[k].replaced => Len(s.overridden[k]) = Cardinality(set)
  <2> DEFINE set == SetBy(layers, k, 5)
  <2>1. k \in DOMAIN r.values /\ k \in DOMAIN Schema /\ k \in DOMAIN s.provenance
    BY <1>3, <1>13, <1>15
  <2>2. s.values[k] = IF set = {} THEN Schema[k].default ELSE s.layers[Max(set)][k]
    BY <1>3, <1>6, <2>1 DEF ValueOf
  <2>3. k \notin HardSafety =>
          s.provenance[k] = IF set = {} THEN "GLOBAL_DEFAULT" ELSE Sources[Max(set)]
    BY <1>6, <1>15, <2>1 DEF SourceOf
  <2>4. ~Schema[k].replaced => Len(s.overridden[k]) = Cardinality(set)
    BY <1>3, <1>6, <2>1 DEF OverriddenAfter, Unreplaced
  <2>5. Setting(s, k) = set
    BY <1>7
  <2> HIDE DEF set
  <2>6. QED
    BY <2>2, <2>3, <2>4, <2>5, Zenon
<1>18. ASSUME NEW k \in DOMAIN s.values
       PROVE  /\ s.values[k] \in Schema[k].minimum..Schema[k].maximum
              /\ Schema[k].policy = "RESTRICT_ONLY" /\ Schema[k].switch =>
                   s.values[k] >= Schema[k].default
  <2>1. k \in DOMAIN r.values \cap DOMAIN Schema
    BY <1>3, <1>13
  <2>2. QED
    BY <1>3, <1>9, <1>11, <2>1
<1>19. ASSUME NEW pair \in AtMost PROVE s.values[pair[1]] <= s.values[pair[2]]
  <2> DEFINE low == pair[1]
             high == pair[2]
  <2>1. /\ low \in DOMAIN Schema /\ ~Schema[low].replaced
        /\ high \in DOMAIN Schema /\ ~Schema[high].replaced
        /\ ~(r.values[low] > r.values[high])
    BY <1>10, ConfigAssumption
  <2> HIDE DEF low, high
  <2>2. {low, high} \subseteq DOMAIN r.values \cap DOMAIN Schema
    BY <1>6, <2>1 DEF KeysAfter, Unreplaced
  <2>3. r.values[low] \in Int /\ r.values[high] \in Int
    BY <1>9, <2>2, ConfigAssumption
  <2>4. s.values[low] <= s.values[high]
    BY <1>3, <2>1, <2>3
  <2>5. QED
    BY <2>4 DEF low, high
<1>20. QED
  <2>1. SnapshotSound(s)
    BY <1>3, <1>10, <1>14, <1>16, <1>17, <1>18, <1>19 DEF SnapshotSound
  <2>2. QED
    BY <2>1 DEF s

\* Every step keeps the snapshots sound.
LEMMA NextConfig ==
  ASSUME LayeredAndSafe, [ConfigNext]_configVars
  PROVE  LayeredAndSafe'
<1>1. CASE \E p \in DOMAIN Profiles, c, s, i, r \in Layers, compatibility \in SchemaCompatibility :
             BuildCandidate(p, <<Profiles[p], c, s, i, r>>, compatibility)
  <2>1. PICK p \in DOMAIN Profiles, c \in Layers, s \in Layers, i \in Layers, r \in Layers,
             compatibility \in SchemaCompatibility :
             BuildCandidate(p, <<Profiles[p], c, s, i, r>>, compatibility)
    BY <1>1
  <2> DEFINE layers == <<Profiles[p], c, s, i, r>>
  <2>2. DOMAIN layers = 1..5
    OBVIOUS
  <2>3. /\ candidate' = Built(p, layers, compatibility) /\ candidate' # NoSnapshot
        /\ active' = active /\ lastValid' = lastValid
    BY <2>1 DEF BuildCandidate
  <2> HIDE DEF layers
  <2>4. SnapshotSound(candidate')
    BY <2>2, <2>3, BuiltSound
  <2>5. QED
    BY <2>3, <2>4 DEF LayeredAndSafe
<1>2. CASE Activate
  BY <1>2 DEF Activate, LayeredAndSafe
<1>3. CASE \E p \in DOMAIN Profiles, c \in Layers : SwitchProfile(p, c)
  <2>1. PICK p \in DOMAIN Profiles, c \in Layers : SwitchProfile(p, c)
    BY <1>3
  <2> DEFINE layers == <<Profiles[p], c, <<>>, <<>>, <<>>>>
  <2>2. DOMAIN layers = 1..5
    OBVIOUS
  <2>3. /\ active' = Built(p, layers, "CURRENT") /\ active' # NoSnapshot
        /\ lastValid' = active' /\ candidate' = candidate
    BY <2>1 DEF SwitchProfile
  <2> HIDE DEF layers
  <2>4. SnapshotSound(active')
    BY <2>2, <2>3, BuiltSound
  <2>5. QED
    BY <2>3, <2>4 DEF LayeredAndSafe
<1>4. CASE UNCHANGED configVars
  BY <1>4 DEF configVars, LayeredAndSafe
<1>5. QED
  BY <1>1, <1>2, <1>3, <1>4 DEF ConfigNext

\* Whatever layers callers pass, one over the other, every snapshot built, made
\* active or kept as the last valid says what its layers say, names where each
\* value came from, weakens no hard setting and no switch, and is within bounds.
THEOREM ConfigLayered == ConfigSpec => []LayeredAndSafe
<1>1. ConfigInit => LayeredAndSafe
  BY DEF ConfigInit, LayeredAndSafe
<1>2. LayeredAndSafe /\ [ConfigNext]_configVars => LayeredAndSafe'
  BY NextConfig
<1>3. QED
  BY <1>1, <1>2, PTL DEF ConfigSpec
=============================================================================
