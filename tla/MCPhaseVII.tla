----------------------------- MODULE MCPhaseVII -----------------------------
(* A small instance of PhaseVII for TLC. *)
EXTENDS PhaseVII, TLC

\* Outcomes that go down to each stage and up again, one of them known late.
MCOutcomes ==
  {[id |-> 1, delta |-> -20, observed |-> 0, available |-> 0, intact |-> TRUE],
   [id |-> 2, delta |-> -6,  observed |-> 0, available |-> 1, intact |-> TRUE],
   [id |-> 3, delta |-> 9,   observed |-> 0, available |-> 0, intact |-> TRUE],
   [id |-> 4, delta |-> 9,   observed |-> 1, available |-> 1, intact |-> TRUE],
   [id |-> 5, delta |-> 30,  observed |-> 1, available |-> 1, intact |-> TRUE],
   [id |-> 6, delta |-> -90, observed |-> 0, available |-> 0, intact |-> TRUE],
   [id |-> 7, delta |-> -20, observed |-> 1, available |-> 1, intact |-> FALSE]}

MCThreshold == [k \in 1..4 |-> 5 * k]

MCMultiplier == [s \in Stage |-> 100 - 25 * s]

MCResults ==
  {[id |-> 1, kind |-> "ADVERSE", units |-> 1, observed |-> 0, available |-> 0, intact |-> TRUE],
   [id |-> 2, kind |-> "ADVERSE", units |-> 2, observed |-> 1, available |-> 1, intact |-> TRUE],
   [id |-> 3, kind |-> "ADVERSE", units |-> 0, observed |-> 1, available |-> 2, intact |-> TRUE],
   [id |-> 4, kind |-> "ADVERSE", units |-> 4, observed |-> 2, available |-> 2, intact |-> TRUE],
   [id |-> 5, kind |-> "FAVORABLE", units |-> 0, observed |-> 1, available |-> 1, intact |-> TRUE],
   [id |-> 6, kind |-> "NEUTRAL", units |-> 0, observed |-> 2, available |-> 2, intact |-> TRUE]}

\* Time 1 is another day, time 2 another week.
MCDayOf == [t \in Time |-> t]
MCWeekOf == [t \in Time |-> t \div 2]

MCTemporalMultiplier == [s \in Stage |-> IF s >= COOLDOWN THEN 0 ELSE 100 - 30 * s]

MCSignals ==
  {[id |-> 1, severity |-> "INFO", observed |-> 0, available |-> 0, intact |-> TRUE],
   [id |-> 2, severity |-> "HIGH", observed |-> 0, available |-> 0, intact |-> TRUE],
   [id |-> 3, severity |-> "HIGH", observed |-> 0, available |-> 1, intact |-> TRUE],
   [id |-> 4, severity |-> "CRITICAL", observed |-> 1, available |-> 1, intact |-> TRUE],
   [id |-> 5, severity |-> "MEDIUM", observed |-> 1, available |-> 1, intact |-> TRUE],
   [id |-> 6, severity |-> "MEDIUM", observed |-> 0, available |-> 1, intact |-> TRUE]}

\* The engines share nothing: one of them is called, the others are initialized
\* at time 0 and left alone.
VARIABLE called

MCInit ==
  /\ called \in {"reliability", "temporal", "safety"}
  /\ reliabilityBackup = None /\ reliabilityTaken = None /\ reliabilityLosses = 0
  /\ temporalBackup = None /\ temporalTaken = None /\ temporalLosses = 0
  /\ safetyBackup = None /\ safetyTaken = None /\ safetyLosses = 0
  /\ outcomeEvents = <<>> /\ outcomes = {}
  /\ resultEvents = <<>> /\ results = {} /\ releasedAt = None
  /\ signalEvents = <<>> /\ signals = {} /\ incidents = NoIncidents /\ clean = 0
  /\ IF called = "reliability" THEN index = None /\ indexVersions = <<>>
     ELSE index = FreshIndex(0) /\ indexVersions = <<index>>
  /\ IF called = "temporal" THEN protection = None /\ protectionVersions = <<>>
     ELSE protection = FreshProtection(0) /\ protectionVersions = <<protection>>
  /\ IF called = "safety" THEN status = None /\ statusVersions = <<>>
     ELSE status = FreshStatus(0) /\ statusVersions = <<status>>

MCNext ==
  /\ UNCHANGED called
  /\ \/ called = "reliability" /\ ReliabilityNext /\ UNCHANGED <<temporalVars, safetyVars>>
     \/ called = "temporal" /\ TemporalNext /\ UNCHANGED <<reliabilityVars, safetyVars>>
     \/ called = "safety" /\ SafetyNext /\ UNCHANGED <<reliabilityVars, temporalVars>>

MCSpec == MCInit /\ [][MCNext]_<<vars, called>>
=============================================================================
