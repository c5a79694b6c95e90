------------------------------ MODULE PhaseVII ------------------------------
(***************************************************************************)
(* The three engines together, as phase_vii_snapshot of                    *)
(* src/src/amrte/research/system_safety.py composes them: callers hand it  *)
(* the multipliers of a reliability snapshot (prompt 28) and of a temporal *)
(* one (prompt 29), and it adds its own.  The engines share no state; a    *)
(* step is a step of one of them.                                          *)
(***************************************************************************)
EXTENDS Reliability, TemporalQuality, SystemSafety

\* snapshot of reliability.py: of the versions observed by then the last one.
IndexSnapshots(asOf) ==
  LET known == {i \in DOMAIN indexVersions : indexVersions[i].observed <= asOf}
  IN {indexVersions[i] : i \in
       {i \in known : \A j \in known : indexVersions[j].count <= indexVersions[i].count}}

\* snapshot of temporal_quality.py: a release counts no more outcomes than the
\* version it releases, and the hash of the identity decides between the two.
ProtectionSnapshots(asOf) ==
  LET known == {i \in DOMAIN protectionVersions : protectionVersions[i].observed <= asOf}
  IN {protectionVersions[i] : i \in
       {i \in known :
          \A j \in known : protectionVersions[j].count <= protectionVersions[i].count}}

\* Mutant: the multipliers are averaged.
FinalMultiplierAveraged(prompt28, prompt29, safety) ==
  (prompt28 + prompt29 + safety) \div 3

\* phase_vii_snapshot: the final multiplier.
FinalMultiplier(prompt28, prompt29, safety) == Least(prompt28, Least(prompt29, safety))

\* The final multipliers a caller can be given at a time; callers without a
\* snapshot of an engine pass 1.
FinalMultipliers(asOf) ==
  LET prompt28 == IF IndexSnapshots(asOf) = {} THEN {100}
                  ELSE {StageMultiplier[v.stage] : v \in IndexSnapshots(asOf)}
      prompt29 == IF ProtectionSnapshots(asOf) = {} THEN {100}
                  ELSE {TemporalPermission(v) : v \in ProtectionSnapshots(asOf)}
      safety   == {SafetyPermission(v) : v \in SafetySnapshots(asOf)}
  IN {FinalMultiplier(p, q, r) : p \in prompt28, q \in prompt29, r \in safety}

Init == ReliabilityInit /\ TemporalInit /\ SafetyInit

Next ==
  \/ ReliabilityNext /\ UNCHANGED <<temporalVars, safetyVars>>
  \/ TemporalNext /\ UNCHANGED <<reliabilityVars, safetyVars>>
  \/ SafetyNext /\ UNCHANGED <<reliabilityVars, temporalVars>>

vars == <<reliabilityVars, temporalVars, safetyVars>>

Spec == Init /\ [][Next]_vars

-----------------------------------------------------------------------------
(* Properties.                                                             *)

TypeOK == ReliabilityTypeOK /\ TemporalTypeOK /\ SafetyTypeOK

\* No version is later than the status.
Ordered ==
  \A i \in DOMAIN statusVersions : statusVersions[i].updated <= status.updated

\* The status is the only version of its time.
AloneInTime ==
  Cardinality({i \in DOMAIN statusVersions : statusVersions[i].updated = status.updated}) = 1

\* "CanHardBlockBeAveragedAway: FALSE", "CanPrompt30RestorePrompt28Restriction:
\* FALSE": while one engine blocks the research, whoever asks for the final
\* multiplier of any time since, is given none; for the safety status if it is
\* the only version of its time.
HardBlockPrevails ==
  \A asOf \in Time :
    (\/ index # None /\ index.stage = SUSPENDED /\ index.observed <= asOf
     \/ protection # None /\ protection.cooldown = "ACTIVE" /\ protection.observed <= asOf
     \/ /\ status # None /\ SafetyMultiplier[status.state] = 0 /\ status.updated <= asOf
        /\ Ordered /\ AloneInTime)
    => FinalMultipliers(asOf) \subseteq {0}

\* "Restart recovery validates ...": a restart that is not refused brings the
\* state of a scope back as it was when the recovery state was taken, or forgets
\* the scope with its events, whatever the stored state has lost.
RestartPreserves ==
  /\ [][RestoreReliability =>
          \/ index' = reliabilityTaken.current /\ outcomeEvents' = reliabilityTaken.events
          \/ index' = None /\ outcomeEvents' = <<>>]_reliabilityVars
  /\ [][RestoreTemporal =>
          \/ /\ protection' = temporalTaken.state.current
             /\ resultEvents' = temporalTaken.state.events
          \/ protection' = None /\ resultEvents' = <<>>]_temporalVars
  /\ [][RestoreSafety =>
          \/ /\ status' = safetyTaken.state.current
             /\ signalEvents' = safetyTaken.state.events
          \/ status' = None /\ signalEvents' = <<>>]_safetyVars

\* A block is served in full: a cooldown lasts its time, and no other engine
\* averages the block of one away.
BlocksHold == CooldownServed /\ HardBlockPrevails

\* What the engines publish is what the evidence they accepted adds up to: the
\* indices of reliability, and the budgets of the current day and week.
EvidenceReplays == IndexReplays /\ BudgetsExact
=============================================================================
