---------------------------- MODULE SystemSafety ----------------------------
(***************************************************************************)
(* SystemSafetyEngine of src/src/amrte/research/system_safety.py, for one  *)
(* scope: signals open a circuit or stop the research, which stays latched *)
(* until a confirmed recovery has passed its probation.  process and the   *)
(* recovery calls hold the lock: each is one step.                         *)
(***************************************************************************)
EXTENDS Evidence

CONSTANTS
  Signals,            \* the signals callers process
  SafetyUpstreams,    \* the upstream multipliers they pass
  MediumLimit,        \* medium_escalation_count
  HighLimit,          \* high_escalation_count
  Probations,         \* probation_confirmations
  CautionMultiplier,  \* caution_multiplier
  RestrictedMultiplier,  \* restricted_multiplier
  MaxSignals,         \* maximum_events, of the scope
  MaxStatuses         \* bound: the versions of the status

Severity == {"INFO", "LOW", "MEDIUM", "HIGH", "CRITICAL"}

\* intact says that lineage, domain, trigger and evidence are as they must be.
Signal == [id : Nat, severity : Severity, observed : Time, available : Time,
           intact : BOOLEAN]

\* What validate accepts.
SystemSafetyConfiguration ==
  /\ MediumLimit \in Nat \ {0} /\ HighLimit \in Nat \ {0}
  /\ Probations \in Nat \ {0}
  /\ CautionMultiplier \in Percent
  /\ RestrictedMultiplier \in 0..CautionMultiplier
  /\ MaxSignals \in Nat \ {0}

ASSUME SafetyAssumption ==
  /\ SystemSafetyConfiguration
  /\ Signals \subseteq Signal
  /\ None \notin Signals
  /\ SafetyUpstreams \subseteq Percent
  /\ MaxStatuses \in Nat

Severe == {"CIRCUIT_OPEN", "EMERGENCY_STOP"}

SafetyState == {"NORMAL", "CAUTION", "RESTRICTED", "RECOVERY_PENDING", "PROBATION"}
               \cup Severe

IncidentState == {"LATCHED", "RECOVERY_PENDING", "RESOLVED"}

\* The multipliers follow from state and upstream.
Status == [raw : SafetyState, state : SafetyState, upstream : Percent, circuit : BOOLEAN,
           emergency : BOOLEAN, incident : Signals \cup {None},
           incidentState : IncidentState \cup {None}, progress : Nat, count : Nat,
           updated : Time]

ASSUME NoStatusIsNone == None \notin Status /\ None \notin IncidentState

SignalEvent == [sequence : Nat, evidence : Signal]

VARIABLES
  status,          \* statuses[scope]
  statusVersions,  \* versions, in the order of their creation
  signalEvents,    \* events, in the order of their sequence numbers
  signals,         \* signals
  incidents,       \* incidents, by their root signal: the state of each
  clean,           \* history: healthy confirmations since the recovery was last
                   \* requested, failed, or met by a signal
  safetyBackup,    \* the recovery state kept outside the engine
  safetyTaken,     \* history: that state as it was taken
  safetyLosses     \* history: records recovery states have lost

safetyEngine == <<status, statusVersions, signalEvents, signals, incidents, clean>>
safetyOutside == <<safetyBackup, safetyTaken, safetyLosses>>
safetyVars == <<safetyEngine, safetyOutside>>

NoIncidents == [s \in Signals |-> None]

-----------------------------------------------------------------------------
(* Helpers.                                                                *)

\* Mutant: probation ranks with caution.
RankProbationLow == [s \in SafetyState |->
           CASE s = "NORMAL" -> 0
             [] s \in {"CAUTION", "PROBATION"} -> 1
             [] s = "RESTRICTED" -> 2
             [] s = "RECOVERY_PENDING" -> 3
             [] s = "CIRCUIT_OPEN" -> 4
             [] s = "EMERGENCY_STOP" -> 5]

Rank == [s \in SafetyState |->
           CASE s = "NORMAL" -> 0
             [] s = "CAUTION" -> 1
             [] s = "RESTRICTED" -> 2
             [] s \in {"RECOVERY_PENDING", "PROBATION"} -> 3
             [] s = "CIRCUIT_OPEN" -> 4
             [] s = "EMERGENCY_STOP" -> 5]

SafetyMultiplier ==
  [s \in SafetyState |->
     CASE s = "NORMAL" -> 100
       [] s = "CAUTION" -> CautionMultiplier
       [] s \in {"RESTRICTED", "PROBATION"} -> RestrictedMultiplier
       [] OTHER -> 0]

\* final_phase_multiplier.
SafetyPermission(st) == Least(st.upstream, SafetyMultiplier[st.state])

\* The signals of a severity, with the one being processed.
Seen(severity, signal) ==
  Cardinality({s \in signals \cup {signal} : s.severity = severity})

\* _raw.
Escalated(signal) ==
  CASE signal.severity = "CRITICAL" -> "EMERGENCY_STOP"
    [] signal.severity = "HIGH" ->
         IF Seen("HIGH", signal) >= HighLimit THEN "CIRCUIT_OPEN" ELSE "RESTRICTED"
    [] signal.severity = "MEDIUM" ->
         IF Seen("MEDIUM", signal) >= MediumLimit THEN "RESTRICTED" ELSE "CAUTION"
    [] signal.severity = "LOW" -> "CAUTION"
    [] signal.severity = "INFO" -> "NORMAL"

\* The incident a status points to.
IncidentOf(st) == IF st.incident = None THEN None ELSE incidents[st.incident]

-----------------------------------------------------------------------------
(* Actions.                                                                *)

FreshStatus(asOf) ==
  [raw |-> "NORMAL", state |-> "NORMAL", upstream |-> 100, circuit |-> FALSE,
   emergency |-> FALSE, incident |-> None, incidentState |-> None, progress |-> 0,
   count |-> 0, updated |-> asOf]

InitializeStatus(asOf) ==
  /\ status = None
  /\ status' = FreshStatus(asOf)
  /\ statusVersions' = <<status'>>
  /\ UNCHANGED <<signalEvents, signals, incidents, clean, safetyOutside>>

\* Mutant: every severe signal opens an incident.
AlertOpening(signal, upstream, asOf) ==
  LET raw      == Escalated(signal)
      state    == IF Rank[raw] > Rank[status.state] THEN raw ELSE status.state
      root     == IF raw \in Severe THEN signal ELSE status.incident
      incident == IF raw \in Severe THEN "LATCHED" ELSE IncidentOf(status)
  IN /\ status' = [raw |-> raw, state |-> state, upstream |-> upstream,
                   circuit |-> status.circuit \/ state \in Severe,
                   emergency |-> status.emergency \/ state = "EMERGENCY_STOP",
                   incident |-> root,
                   incidentState |-> IF incident # None THEN incident
                                     ELSE status.incidentState,
                   progress |-> 0, count |-> status.count + 1, updated |-> asOf]
     /\ incidents' = IF incident = None THEN incidents
                     ELSE [incidents EXCEPT ![root] = incident]

\* process, with a signal it accepts.  A severe one latches the scope's
\* incident, or opens one.
Alert(signal, upstream, asOf) ==
  LET raw      == Escalated(signal)
      state    == IF Rank[raw] > Rank[status.state] THEN raw ELSE status.state
      root     == IF raw \in Severe /\ IncidentOf(status) = None THEN signal
                  ELSE status.incident
      incident == IF raw \in Severe THEN "LATCHED" ELSE IncidentOf(status)
  IN /\ status' = [raw |-> raw, state |-> state, upstream |-> upstream,
                   circuit |-> status.circuit \/ state \in Severe,
                   emergency |-> status.emergency \/ state = "EMERGENCY_STOP",
                   incident |-> root,
                   incidentState |-> IF incident # None THEN incident
                                     ELSE status.incidentState,
                   progress |-> 0, count |-> status.count + 1, updated |-> asOf]
     /\ incidents' = IF incident = None THEN incidents
                     ELSE [incidents EXCEPT ![root] = incident]

ProcessSignal(signal, upstream, asOf) ==
  /\ status # None
  /\ signal \notin signals
  /\ InTime(signal, status.updated, asOf)
  /\ signal.intact
  /\ Len(signalEvents) < MaxSignals
  /\ signals' = signals \cup {signal}
  /\ Alert(signal, upstream, asOf)
  /\ statusVersions' = Append(statusVersions, status')
  /\ signalEvents' =
       Append(signalEvents, [sequence |-> Len(signalEvents) + 1, evidence |-> signal])
  /\ clean' = 0
  /\ UNCHANGED safetyOutside

\* A recovery call makes a version and no event.
Amend(st, incident) ==
  /\ Len(statusVersions) < MaxStatuses
  /\ status' = st
  /\ statusVersions' = Append(statusVersions, st)
  /\ incidents' = IF IncidentOf(status) = None THEN incidents
                  ELSE [incidents EXCEPT ![status.incident] = incident]
  /\ UNCHANGED <<signalEvents, signals, safetyOutside>>

\* request_recovery, with evidence, an actor and a reason, at any time.
RequestRecovery(asOf) ==
  /\ status # None
  /\ status.circuit \/ status.emergency
  /\ Amend([status EXCEPT !.state = "RECOVERY_PENDING", !.progress = 0, !.updated = asOf,
                          !.incidentState = "RECOVERY_PENDING"],
           "RECOVERY_PENDING")
  /\ clean' = 0

Recovering == status # None /\ status.state \in {"RECOVERY_PENDING", "PROBATION"}

\* confirm_probation: the evidence is not healthy.
FailProbation(asOf) ==
  /\ Recovering
  /\ Amend([status EXCEPT !.state = "EMERGENCY_STOP", !.emergency = TRUE, !.progress = 0,
                          !.updated = asOf],
           IncidentOf(status))
  /\ clean' = 0

\* confirm_probation: it is, but not often enough, or at last.
ContinueProbation(asOf) ==
  /\ Recovering
  /\ status.progress + 1 < Probations
  /\ Amend([status EXCEPT !.state = "PROBATION", !.progress = @ + 1, !.updated = asOf],
           IncidentOf(status))
  /\ clean' = clean + 1

\* Mutant: one confirmation completes the probation.
CompleteRecoveryOnce(asOf) ==
  /\ Recovering
  /\ Amend([status EXCEPT !.raw = "NORMAL", !.state = "NORMAL", !.circuit = FALSE,
                          !.emergency = FALSE, !.progress = 0, !.updated = asOf,
                          !.incidentState = "RESOLVED"],
           "RESOLVED")
  /\ clean' = clean + 1

CompleteRecovery(asOf) ==
  /\ Recovering
  /\ status.progress + 1 >= Probations
  /\ Amend([status EXCEPT !.raw = "NORMAL", !.state = "NORMAL", !.circuit = FALSE,
                          !.emergency = FALSE, !.progress = 0, !.updated = asOf,
                          !.incidentState = "RESOLVED"],
           "RESOLVED")
  /\ clean' = clean + 1

\* snapshot: of the versions of the latest time up to asOf the ones with most
\* signals, and of those one that the hash of its identity decides.
SafetySnapshots(asOf) ==
  LET known == {i \in DOMAIN statusVersions : statusVersions[i].updated <= asOf}
      later(v, w) == \/ v.updated > w.updated
                     \/ v.updated = w.updated /\ v.count > w.count
  IN {statusVersions[i] : i \in
       {i \in known : \A j \in known : ~later(statusVersions[j], statusVersions[i])}}

\* recovery_state, by an engine that stops there: see StopReliability.
StopSafety ==
  /\ safetyBackup = None
  /\ safetyBackup' = [current |-> status, versions |-> statusVersions,
                      events |-> signalEvents, evidence |-> signals,
                      incidents |-> incidents]
  /\ safetyTaken' = [state |-> safetyBackup', clean |-> clean]
  /\ status' = None
  /\ statusVersions' = <<>>
  /\ signalEvents' = <<>>
  /\ signals' = {}
  /\ incidents' = NoIncidents
  /\ clean' = 0
  /\ UNCHANGED safetyLosses

RestoreSafety ==
  /\ safetyBackup # None
  /\ Numbered(safetyBackup)
  /\ status' = safetyBackup.current
  /\ statusVersions' = safetyBackup.versions
  /\ signalEvents' = safetyBackup.events
  /\ signals' = safetyBackup.evidence
  /\ incidents' = safetyBackup.incidents
  /\ clean' = safetyTaken.clean
  /\ safetyBackup' = None
  /\ safetyTaken' = None
  /\ UNCHANGED safetyLosses

\* The engine is refused the state, or works on without it.
StartSafetyAfresh ==
  /\ safetyBackup # None
  /\ safetyBackup' = None
  /\ safetyTaken' = None
  /\ UNCHANGED <<safetyEngine, safetyLosses>>

DamageSafety ==
  /\ safetyBackup # None
  /\ safetyLosses < MaxLosses
  /\ safetyLosses' = safetyLosses + 1
  /\ \/ safetyBackup' \in Damaged(safetyBackup)
     \/ safetyBackup' = [safetyBackup EXCEPT !.incidents = NoIncidents]
  /\ UNCHANGED <<safetyEngine, safetyTaken>>

SafetyInit ==
  /\ status = None
  /\ statusVersions = <<>>
  /\ signalEvents = <<>>
  /\ signals = {}
  /\ incidents = NoIncidents
  /\ clean = 0
  /\ safetyBackup = None
  /\ safetyTaken = None
  /\ safetyLosses = 0

SafetyNext ==
  \/ /\ safetyBackup = None
     /\ \E asOf \in Time :
          \/ InitializeStatus(asOf)
          \/ \E signal \in Signals, upstream \in SafetyUpstreams :
               ProcessSignal(signal, upstream, asOf)
          \/ RequestRecovery(asOf)
          \/ FailProbation(asOf)
          \/ ContinueProbation(asOf)
          \/ CompleteRecovery(asOf)
  \/ StopSafety
  \/ RestoreSafety
  \/ StartSafetyAfresh
  \/ DamageSafety

SafetySpec == SafetyInit /\ [][SafetyNext]_safetyVars

-----------------------------------------------------------------------------
(* Properties.                                                             *)

SafetyTypeOK ==
  /\ status \in Status \cup {None}
  /\ statusVersions \in Seq(Status)
  /\ signalEvents \in Seq(SignalEvent) /\ Len(signalEvents) <= MaxSignals
  /\ signals \subseteq Signals
  /\ incidents \in [Signals -> IncidentState \cup {None}]
  /\ clean \in Nat
  /\ safetyLosses \in 0..MaxLosses

\* "Circuit-open and emergency states latch until explicit evidence-backed
\* recovery succeeds", which requires "a bounded probation sequence": a scope
\* with a severe signal is latched, a latched one gives no more than probation
\* does, and it is released after that many healthy confirmations in a row.
Latched ==
  status # None /\ (status.circuit \/ status.emergency) =>
    status.state \in Severe \cup {"RECOVERY_PENDING", "PROBATION"}

ReleasedAfterProbation ==
  [][(/\ status # None /\ status' # None
      /\ status.circuit \/ status.emergency
      /\ ~(status'.circuit \/ status'.emergency)) => clean' >= Probations]_safetyVars

\* "Circuit-open or emergency signals create a deterministic incident.
\* Additional severe signals aggregate into that incident": at any time the
\* scope has at most one, open as long as the scope is latched, and the status
\* tells its state.
IncidentsMatch ==
  safetyLosses = 0 /\ status # None =>
    LET open == {s \in Signals : incidents[s] \notin {None, "RESOLVED"}}
    IN /\ open = IF status.circuit THEN {status.incident} ELSE {}
       /\ {s \in Signals : incidents[s] # None} \subseteq {status.incident}
       /\ status.incidentState = IncidentOf(status)
=============================================================================
