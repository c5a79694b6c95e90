----------------------------- MODULE Deployment -----------------------------
(***************************************************************************)
(* DeploymentDiagnosticsEngine of src/src/amrte/operations/deployment.py:  *)
(* the health components report, the permission the reports and updates    *)
(* lead to, the updates themselves, and alerts.                            *)
(*                                                                         *)
(* The engine is one record, dep; depSaved is a recovery state outside.    *)
(* The diagnostics are left out: they are kept and read by nobody.  There  *)
(* are no more components than maximum_components.                         *)
(***************************************************************************)
EXTENDS Evidence, Store

CONSTANTS
  Components,    \* components that report health
  Reports,       \* the states they report
  Manifests,     \* update manifests
  Alerts,        \* alerts by component, severity and reason
  MaxUpdates,    \* maximum_update_history
  MaxAlerts,     \* maximum_alerts
  RepeatWindow,  \* alert_repeat_window
  MaxRepeats     \* bound: how often an alert is counted

VARIABLES
  dep,           \* the engine
  depSaved,      \* a recovery state, or None
  depEased       \* history: an update was completed or a recovery refused

depVars == <<dep, depSaved, depEased>>

HealthState ==
  {"HEALTHY", "DEGRADED", "UNKNOWN", "RESTRICTED", "RECOVERY_PENDING", "SUSPENDED", "FAILED"}

\* What validate accepts.
DeploymentConfiguration ==
  MaxUpdates \in Nat \ {0} /\ MaxAlerts \in Nat \ {0} /\ RepeatWindow \in Nat

ASSUME DeploymentAssumption ==
  /\ DeploymentConfiguration
  /\ IsFiniteSet(Components) /\ Reports \subseteq HealthState
  /\ IsFiniteSet(Manifests) /\ IsFiniteSet(Alerts)
  /\ MaxRepeats \in Nat
  /\ None \notin Time

\* _RANK
HealthRank ==
  [HEALTHY |-> 0, DEGRADED |-> 1, UNKNOWN |-> 2, RESTRICTED |-> 3,
   RECOVERY_PENDING |-> 4, SUSPENDED |-> 5, FAILED |-> 6]

WorseHealth(a, b) == IF HealthRank[b] > HealthRank[a] THEN b ELSE a

ComponentHealthRecord == [state : HealthState, dependencies : SUBSET Components]

UpdateState == {"READY", "BLOCKED", "APPLIED", "ROLLED_BACK"}

\* Its identity hashes the manifest, the state it was made in and the reasons,
\* so that preparing the same update again is the same record.
UpdateRecord ==
  [id : Manifests \X BOOLEAN, state : UpdateState,
   previous : HealthState, resulting : HealthState]

OperationalAlert ==
  [id : Alerts, first : Time, last : Time, count : Nat, resolved : Time \cup {None}]

FreshDep ==
  [health |-> [c \in {} |-> None], alerts |-> <<>>, updates |-> <<>>,
   permission |-> "RECOVERY_PENDING", restricted |-> FALSE]

(***************************************************************************)
(* Health.                                                                 *)
(***************************************************************************)

\* Mutant: the permission is that of the latest report.
PermissionLatest(state) == state

\* The permission after a report: only worse, but for the first healthy one.
PermissionAfter(state) ==
  IF HealthRank[state] > HealthRank[dep.permission] THEN state
  ELSE IF dep.permission = "RECOVERY_PENDING" /\ state = "HEALTHY" THEN "HEALTHY"
  ELSE dep.permission

PublishHealth(c, state, dependencies) ==
  /\ c \notin dependencies
  /\ dep' = [dep EXCEPT
               !.health = [d \in DOMAIN @ \cup {c} |->
                             IF d = c THEN [state |-> state, dependencies |-> dependencies]
                             ELSE @[d]],
               !.permission = PermissionAfter(state)]
  /\ UNCHANGED <<depSaved, depEased>>

\* summary: the components that block, and all that depend on one of them.
Blocking(health) ==
  {c \in DOMAIN health : HealthRank[health[c].state] >= HealthRank["RESTRICTED"]}

Dependent(health, s) == s \cup {c \in DOMAIN health : health[c].dependencies \cap s # {}}

Affected(health) ==
  LET pass[n \in 0..Cardinality(DOMAIN health)] ==
        IF n = 0 THEN Blocking(health) ELSE Dependent(health, pass[n - 1])
  IN pass[Cardinality(DOMAIN health)]

(***************************************************************************)
(* Updates.                                                                *)
(***************************************************************************)

\* prepare_update captures the permission; compatible stands for its five tests.
PrepareUpdate(m, compatible) ==
  /\ dep' = [dep EXCEPT !.updates =
               Put(@, [id |-> <<m, compatible>>,
                       state |-> IF compatible THEN "READY" ELSE "BLOCKED",
                       previous |-> dep.permission, resulting |-> dep.permission])]
  /\ UNCHANGED <<depSaved, depEased>>

Resulting(record, success) ==
  IF success THEN record.previous ELSE WorseHealth(record.previous, "RESTRICTED")

\* complete_update of a record that is ready; any other is given back unchanged.
CompleteUpdate(m, success) ==
  /\ Held(dep.updates, <<m, TRUE>>)
  /\ LET record == Entry(dep.updates, <<m, TRUE>>)
         result == Resulting(record, success)
     IN /\ record.state = "READY"
        /\ dep' = [dep EXCEPT
                     !.permission = result,
                     !.updates = Evicted(
                        Put(@, [record EXCEPT
                                  !.state = IF success THEN "APPLIED" ELSE "ROLLED_BACK",
                                  !.resulting = result]), MaxUpdates)]
  /\ depEased' = TRUE
  /\ UNCHANGED depSaved

(***************************************************************************)
(* Alerts.                                                                 *)
(***************************************************************************)

\* An open alert that is repeated within the window is counted, any other is new.
Repeats(a, at) ==
  /\ Held(dep.alerts, a)
  /\ Entry(dep.alerts, a).resolved = None
  /\ at - Entry(dep.alerts, a).last <= RepeatWindow

Recounted(alert, at) == [alert EXCEPT !.last = at, !.count = @ + 1]

RaiseAlert(a, at) ==
  LET new == [id |-> a, first |-> at, last |-> at, count |-> 1, resolved |-> None]
  IN /\ Repeats(a, at) => Entry(dep.alerts, a).count < MaxRepeats
     /\ dep' = IF Repeats(a, at)
               THEN [dep EXCEPT !.alerts = Put(@, Recounted(Entry(@, a), at))]
               ELSE [dep EXCEPT !.alerts = Evicted(Put(@, new), MaxAlerts)]
     /\ UNCHANGED <<depSaved, depEased>>

ResolveAlert(a, at) ==
  /\ Held(dep.alerts, a)
  /\ dep' = [dep EXCEPT !.alerts = Put(@, [Entry(@, a) EXCEPT !.resolved = at])]
  /\ UNCHANGED <<depSaved, depEased>>

(***************************************************************************)
(* Recovery.                                                               *)
(***************************************************************************)

\* audit_global_state: dependencies are known and no update improved permission.
Sound(e) ==
  /\ \A c \in DOMAIN e.health : e.health[c].dependencies \subseteq DOMAIN e.health
  /\ \A i \in DOMAIN e.updates :
       e.updates[i].resulting = "HEALTHY" => e.updates[i].previous = "HEALTHY"

\* recovery_state of an engine that is then given up; the next one is given it.
StopDep ==
  /\ depSaved = None
  /\ depSaved' = dep
  /\ dep' = FreshDep
  /\ UNCHANGED depEased

\* A refused state has been assigned when the audit refuses it, but for the
\* permission, which is pending again.
RestoreDep ==
  /\ depSaved # None
  /\ dep' = IF Sound(depSaved) THEN [depSaved EXCEPT !.restricted = FALSE]
            ELSE [depSaved EXCEPT !.permission = "RECOVERY_PENDING", !.restricted = TRUE]
  /\ depEased' = (depEased \/ ~Sound(depSaved))
  /\ depSaved' = None

\* Another schema, configuration or epoch.
RestoreDepIncompatible ==
  /\ depSaved # None
  /\ dep' = [dep EXCEPT !.permission = "RECOVERY_PENDING", !.restricted = TRUE]
  /\ depEased' = TRUE
  /\ depSaved' = None

DepInit == dep = FreshDep /\ depSaved = None /\ depEased = FALSE

HealthNext ==
  \/ \E c \in Components, s \in Reports, d \in SUBSET Components :
       depSaved = None /\ PublishHealth(c, s, d)
  \/ StopDep \/ RestoreDep \/ RestoreDepIncompatible

UpdateNext ==
  /\ depSaved = None
  /\ \E m \in Manifests, ok \in BOOLEAN : PrepareUpdate(m, ok) \/ CompleteUpdate(m, ok)

AlertNext ==
  /\ depSaved = None
  /\ \E a \in Alerts, at \in Time : RaiseAlert(a, at) \/ ResolveAlert(a, at)

DepNext == HealthNext \/ UpdateNext \/ AlertNext

DepSpec == DepInit /\ [][DepNext]_depVars

-----------------------------------------------------------------------------
(* Properties.                                                             *)

DepTypeOK ==
  /\ DOMAIN dep.health \subseteq Components
  /\ \A c \in DOMAIN dep.health : dep.health[c] \in ComponentHealthRecord
  /\ dep.permission \in HealthState /\ dep.restricted \in BOOLEAN
  /\ dep.updates \in Seq(UpdateRecord) /\ dep.alerts \in Seq(OperationalAlert)

\* Fail-closed health (publish_health, recovery_state, restore): a component
\* that reported SUSPENDED or FAILED and has not reported since keeps the
\* permission at least as bad, whatever the others report and through a
\* restart, unless an update has been completed or a recovery refused.  (After a
\* refused one the mark of the restriction is gone with the next recovery.)
SevereHeld ==
  \/ depEased
  \/ \A c \in DOMAIN dep.health :
       dep.health[c].state \in {"SUSPENDED", "FAILED"} =>
         HealthRank[dep.permission] >= HealthRank[dep.health[c].state]

\* summary names exactly the components that a blocking component affects:
\* the least set that holds these and whatever depends on one of its members.
AffectedLeast ==
  LET affected == Affected(dep.health)
  IN /\ Blocking(dep.health) \subseteq affected
     /\ Dependent(dep.health, affected) = affected
     /\ \A s \in SUBSET DOMAIN dep.health :
          Blocking(dep.health) \subseteq s /\ Dependent(dep.health, s) = s
          => affected \subseteq s

\* What a deployment tells: a permission no better than a severe report, and
\* everything a blocking component affects.
DeploymentSound == DepTypeOK /\ SevereHeld /\ AffectedLeast
=============================================================================
