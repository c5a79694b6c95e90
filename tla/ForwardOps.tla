----------------------------- MODULE ForwardOps -----------------------------
(***************************************************************************)
(* NeutralForwardOperationsEngine of src/src/amrte/operations/             *)
(* forward_ops.py: one instance at a time takes observations of a source   *)
(* in their order, decides each once, and may be paused, restricted by its *)
(* clock or its storage, stopped, and restored from a recovery state.      *)
(*                                                                         *)
(* An action is one call that changes something; the other calls are       *)
(* refused.  An observation and a session stand for their identities, which*)
(* hash their fields.  The engine is one record, ops; opsSaved is a        *)
(* recovery state outside, which may lose records.                         *)
(***************************************************************************)
EXTENDS Evidence, Store

CONSTANTS
  Tokens,           \* instances that may start the engine
  Sessions,         \* forward sessions: [id, source, cutoff]
  Observations,     \* what sources deliver
  PromotionRequests,\* what promote is asked: [id, source, target, evidence, approve]
  Tolerance,        \* clock_jump_tolerance
  MaxObservations,  \* maximum_observations
  MaxBeats          \* maximum_heartbeats

VARIABLES
  ops,              \* the engine
  opsSaved,         \* a recovery state, or None
  opsLosses         \* records that recovery states have lost

opsVars == <<ops, opsSaved, opsLosses>>

ForwardObservation ==
  [id : Nat, source : Nat, observed : Time, available : Time, received : Time,
   number : Nat, finite : BOOLEAN]

ForwardShadowSession == [id : Nat, source : Nat, cutoff : Time]

ValidationStage == 1..7

\* What validate accepts.
OperationsConfiguration ==
  Tolerance \in Nat /\ MaxObservations \in Nat \ {0} /\ MaxBeats \in Nat \ {0}

ASSUME OpsAssumption ==
  /\ OperationsConfiguration
  /\ \A r \in PromotionRequests : {r.source, r.target} \subseteq ValidationStage
  /\ Sessions \subseteq ForwardShadowSession /\ IsFiniteSet(Sessions)
  /\ Observations \subseteq ForwardObservation
  /\ \A a, b \in Sessions \cup Observations : a.id = b.id => a = b
  /\ None \notin Tokens /\ None \notin Time

\* DEGRADED is read but never set; SUSPENDED and UNKNOWN occur in readiness only.
OperationalHealth == {"HEALTHY", "RESTRICTED", "RECOVERY_PENDING", "FAILED"}

\* The identity of a decision hashes its session and its observation.
ForwardShadowDecision ==
  [id : Nat \X Nat, session : Sessions, observation : Observations, asOf : Time]

FreshOps ==
  [environment |-> FALSE, token |-> None, health |-> "RECOVERY_PENDING",
   paused |-> TRUE, clock |-> None, restricted |-> FALSE,
   sessions |-> {}, listed |-> [s \in Sessions |-> <<>>],
   observations |-> <<>>, decisions |-> <<>>, promotions |-> <<>>, heartbeats |-> <<>>]

(***************************************************************************)
(* The life of an instance.                                                *)
(***************************************************************************)

\* A token that another instance holds refuses the start.
MayStart(token) == ops.token \in {None, token}

Startup(token, at) ==
  /\ MayStart(token)
  /\ ops' = [ops EXCEPT !.environment = TRUE, !.token = token, !.clock = at,
                        !.health = "HEALTHY", !.paused = FALSE]
  /\ UNCHANGED <<opsSaved, opsLosses>>

\* The environment has another configuration, or starts later than now.
StartupInvalid(token) ==
  /\ MayStart(token)
  /\ ops' = [ops EXCEPT !.health = "FAILED"]
  /\ UNCHANGED <<opsSaved, opsLosses>>

\* Who holds the token is not asked.
ShutdownOps ==
  /\ ops' = [ops EXCEPT !.paused = TRUE, !.token = None]
  /\ UNCHANGED <<opsSaved, opsLosses>>

Pause ==
  /\ ops' = [ops EXCEPT !.paused = TRUE]
  /\ UNCHANGED <<opsSaved, opsLosses>>

Resume ==
  /\ ops.health = "HEALTHY" /\ ops.environment
  /\ ops' = [ops EXCEPT !.paused = FALSE]
  /\ UNCHANGED <<opsSaved, opsLosses>>

StorageLow ==
  /\ ops' = [ops EXCEPT !.health = "RESTRICTED", !.paused = TRUE]
  /\ UNCHANGED <<opsSaved, opsLosses>>

Jumped(at) ==
  ops.clock # None /\ (at < ops.clock \/ at - ops.clock > Tolerance)

\* _clock_check
ClockChecked(at) ==
  IF Jumped(at)
  THEN [ops EXCEPT !.health = "RESTRICTED", !.paused = TRUE, !.clock = at]
  ELSE [ops EXCEPT !.clock = at]

\* Without an environment the call fails after the clock has been checked.
HeartbeatOps(at) ==
  LET checked == ClockChecked(at)
      beat == [id |-> <<at, checked.health, Len(ops.decisions)>>]
  IN /\ ops' = IF ~ops.environment THEN checked
               ELSE [checked EXCEPT !.heartbeats = Evicted(Put(@, beat), MaxBeats)]
     /\ UNCHANGED <<opsSaved, opsLosses>>

(***************************************************************************)
(* Sessions, observations and promotions.                                  *)
(***************************************************************************)

CreateSession(s) ==
  /\ ops.health = "HEALTHY" /\ ~ops.paused /\ ops.environment
  /\ ops' = [ops EXCEPT !.sessions = @ \cup {s}]
  /\ UNCHANGED <<opsSaved, opsLosses>>

\* The reasons of ingest, but for the order within the source.
ForwardEligible(s, o, asOf) ==
  /\ o.source = s.source /\ o.finite
  /\ o.observed > s.cutoff
  /\ o.observed <= o.available /\ o.available <= o.received
  /\ o.available <= asOf

InSequence(o) ==
  \A i \in DOMAIN ops.observations :
    ops.observations[i].source = o.source => ops.observations[i].number < o.number

Ingest(s, o, asOf) ==
  /\ s \in ops.sessions
  /\ ~ops.paused /\ ops.health = "HEALTHY"
  /\ ForwardEligible(s, o, asOf)
  /\ ~Held(ops.observations, o.id)
  /\ InSequence(o)
  /\ Len(ops.observations) < MaxObservations
  /\ ops' = [ops EXCEPT
               !.observations = Append(@, o),
               !.decisions = Put(@, [id |-> <<s.id, o.id>>, session |-> s,
                                     observation |-> o, asOf |-> asOf]),
               !.listed[s] = Append(@, o)]
  /\ UNCHANGED <<opsSaved, opsLosses>>

\* promote: whether the component has reached the source stage is not asked.
Approved(r) == r.target = r.source + 1 /\ r.evidence /\ r.approve

Promote(r) ==
  /\ ops' = [ops EXCEPT !.promotions =
               PutNew(@, [id |-> <<r.source, r.target, r.evidence, Approved(r)>>])]
  /\ UNCHANGED <<opsSaved, opsLosses>>

(***************************************************************************)
(* Recovery.                                                               *)
(***************************************************************************)

\* recovery_state of an engine that is then given up; the next one is given it.
StopOps ==
  /\ opsSaved = None
  /\ opsSaved' = [environment |-> ops.environment, sessions |-> ops.sessions,
                  listed |-> ops.listed, observations |-> ops.observations,
                  decisions |-> ops.decisions, promotions |-> ops.promotions,
                  heartbeats |-> ops.heartbeats]
  /\ ops' = FreshOps
  /\ UNCHANGED opsLosses

\* reconcile: no decision without its observation or its session.
OpsReconciled(e) ==
  \A i \in DOMAIN e.decisions :
    /\ Held(e.observations, e.decisions[i].observation.id)
    /\ e.decisions[i].session \in e.sessions

\* The assignments of restore, which come before the last of its tests.
Assigned ==
  [ops EXCEPT !.environment = opsSaved.environment, !.sessions = opsSaved.sessions,
              !.listed = opsSaved.listed, !.observations = opsSaved.observations,
              !.decisions = opsSaved.decisions, !.promotions = opsSaved.promotions,
              !.heartbeats = opsSaved.heartbeats, !.paused = TRUE]

\* Mutant: a restored state is not reconciled.
RestoreOpsTrusting ==
  /\ opsSaved # None
  /\ ops' = [Assigned EXCEPT !.health = "HEALTHY", !.restricted = FALSE]
  /\ opsSaved' = None
  /\ UNCHANGED opsLosses

RestoreOps ==
  /\ opsSaved # None
  /\ ops' = IF OpsReconciled(opsSaved)
            THEN [Assigned EXCEPT !.health = "HEALTHY", !.restricted = FALSE]
            ELSE [Assigned EXCEPT !.health = "RECOVERY_PENDING", !.restricted = TRUE]
  /\ opsSaved' = None
  /\ UNCHANGED opsLosses

\* Another schema, configuration or epoch, or an identity twice.
RestoreOpsIncompatible ==
  /\ opsSaved # None
  /\ ops' = [ops EXCEPT !.health = "RECOVERY_PENDING", !.restricted = TRUE,
                        !.paused = TRUE]
  /\ opsSaved' = None
  /\ UNCHANGED opsLosses

\* The outside: a stored state loses an observation, a decision or a session.
LoseOpsRecord ==
  /\ opsSaved # None /\ opsLosses < MaxLosses
  /\ \/ \E i \in DOMAIN opsSaved.observations :
          opsSaved' = [opsSaved EXCEPT !.observations = RemoveAt(@, i)]
     \/ \E i \in DOMAIN opsSaved.decisions :
          opsSaved' = [opsSaved EXCEPT !.decisions = RemoveAt(@, i)]
     \/ \E s \in opsSaved.sessions :
          opsSaved' = [opsSaved EXCEPT !.sessions = @ \ {s}, !.listed[s] = <<>>]
  /\ opsLosses' = opsLosses + 1
  /\ UNCHANGED ops

OpsInit == ops = FreshOps /\ opsSaved = None /\ opsLosses = 0

OpsNext ==
  \/ /\ opsSaved = None
     /\ \/ \E t \in Tokens, at \in Time : Startup(t, at)
        \/ \E t \in Tokens : StartupInvalid(t)
        \/ ShutdownOps \/ Pause \/ Resume \/ StorageLow
        \/ \E at \in Time : HeartbeatOps(at)
        \/ \E s \in Sessions : CreateSession(s)
        \/ \E s \in Sessions, o \in Observations, asOf \in Time : Ingest(s, o, asOf)
        \/ \E r \in PromotionRequests : Promote(r)
  \/ StopOps \/ RestoreOps \/ RestoreOpsIncompatible \/ LoseOpsRecord

OpsSpec == OpsInit /\ [][OpsNext]_opsVars

-----------------------------------------------------------------------------
(* Properties.                                                             *)

OpsTypeOK ==
  /\ ops.token \in Tokens \cup {None} /\ ops.health \in OperationalHealth
  /\ ops.environment \in BOOLEAN /\ ops.paused \in BOOLEAN /\ ops.restricted \in BOOLEAN
  /\ ops.clock \in Time \cup {None} /\ ops.sessions \subseteq Sessions
  /\ ops.listed \in [Sessions -> Seq(Observations)]
  /\ ops.observations \in Seq(Observations)
  /\ ops.decisions \in Seq(ForwardShadowDecision)
  /\ Len(ops.observations) <= MaxObservations /\ Len(ops.heartbeats) <= MaxBeats
  /\ opsLosses \in 0..MaxLosses

\* Forward only (ingest): whatever is paused, restarted, restored or lost in
\* between, the observations of a source stand in the ledger in the order of
\* their numbers, and a decision was made with an observation from after the
\* session's cutoff that was available by the time it was made as of.
ForwardOnly ==
  /\ \A i, j \in DOMAIN ops.observations :
       /\ i < j
       /\ ops.observations[i].source = ops.observations[j].source
       => ops.observations[i].number < ops.observations[j].number
  /\ \A i \in DOMAIN ops.decisions :
       LET d == ops.decisions[i]
       IN /\ d.observation.observed > d.session.cutoff
          /\ d.observation.available <= d.asOf

\* ingest, recovery_state and restore keep the ledger together: an engine that
\* is not marked as restricted has, of every decision, the observation and the
\* session; and as long as no stored state has lost anything, every
\* observation has one decision, in the session that lists it.
DecidedOnce ==
  /\ ~ops.restricted => OpsReconciled(ops)
  /\ opsLosses = 0 =>
       /\ Len(ops.decisions) = Len(ops.observations)
       /\ \A i \in DOMAIN ops.decisions :
            /\ ops.decisions[i].observation = ops.observations[i]
            /\ \E k \in DOMAIN ops.listed[ops.decisions[i].session] :
                 ops.listed[ops.decisions[i].session][k] = ops.observations[i]

\* The ledger of the shadow run, whatever is paused, restarted or restored: forward
\* only, and one decision for an observation.
ForwardSound == OpsTypeOK /\ ForwardOnly /\ DecidedOnce
=============================================================================
