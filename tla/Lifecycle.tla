----------------------------- MODULE Lifecycle -----------------------------
(***************************************************************************)
(* ResearchLifecycleEngine of src/src/amrte/research/lifecycle.py: one     *)
(* state machine per research hypothesis, with optimistic versions, a      *)
(* ledger of transitions and events, and a recovery state that a later     *)
(* engine may restore.  The engine's lock makes each call one step; the    *)
(* callers interleave between them and may hold versions read long ago.    *)
(* A lifecycle's identity is its hypothesis: by_hypothesis keeps one each. *)
(***************************************************************************)
EXTENDS Naturals, FiniteSets, Sequences

CONSTANTS
  Hypothesis,       \* hypotheses callers create lifecycles for
  Epoch,            \* recovery epochs in use
  Evidence,         \* the precondition snapshots callers present
  Require,          \* the optional preconditions the configuration requires
  MaxLifecycles,    \* maximum_lifecycles
  MaxTransitions,   \* maximum_transitions_per_lifecycle
  QueueExpiration,  \* queue_expiration_seconds
  None,             \* Python's None
  MaxTime,          \* bound: the timestamps callers pass
  MaxLosses         \* bound: records a stored recovery state loses

State == {"PROPOSED", "VALIDATED", "AUTHORIZED", "QUEUED", "ACTIVATED", "ACTIVE",
          "SAFEGUARDED", "MONITORED", "RESOLVED", "ARCHIVED", "REJECTED",
          "CANCELLED", "EXPIRED", "INVALIDATED", "FAILED"}

\* The states an activated lifecycle passes through, ACTIVE_STATES and RESOLVED.
Activated == {"ACTIVATED", "ACTIVE", "SAFEGUARDED", "MONITORED", "RESOLVED", "ARCHIVED"}

\* Whether the snapshot is for this hypothesis, dataset, configuration and
\* time (matching), what it grants, and when its evidence became available.
Precondition == [matching : BOOLEAN, upstream : BOOLEAN, workflow : BOOLEAN,
                 quality : BOOLEAN, restricted : BOOLEAN, available : Nat]

\* A transition and the event committed with it hold the same facts.
Transition == [seq : Nat, from : State, to : State, at : Nat,
               pre : Precondition, epoch : Epoch]

LifecycleRecord == [state : State, version : Nat, sequence : Nat, created : Nat,
                    updated : Nat, epoch : Epoch]

\* What recovery_state takes: the committed records, with the epoch asked for.
RecoveryState ==
  [epoch : Epoch,
   lifecycle : [Hypothesis -> LifecycleRecord \cup {None}],
   history : [Hypothesis -> Seq(Transition)],
   events : [Hypothesis -> Seq(Transition)],
   versions : [Hypothesis -> Seq(LifecycleRecord)]]

\* What validate accepts; the checks it does not let anyone disable are part of
\* Permitted.
LifecycleConfiguration ==
  /\ Require \subseteq {"quality", "workflow"}
  /\ {MaxLifecycles, MaxTransitions, QueueExpiration} \subseteq Nat \ {0}

ASSUME LifecycleAssumption ==
  /\ LifecycleConfiguration
  /\ Epoch \subseteq Nat
  /\ Evidence \subseteq Precondition
  /\ MaxTime \in Nat
  /\ MaxLosses \in Nat
  /\ None \notin LifecycleRecord
  /\ None \notin RecoveryState

VARIABLES
  lifecycle,        \* lifecycles, by hypothesis
  history,          \* transitions_by_lifecycle
  events,           \* events_by_lifecycle
  versions,         \* versions, by hypothesis, in order
  committed,        \* _idempotency: the requests already committed
  restricted,       \* recovery_restricted
  backup,           \* the recovery state kept outside the engine
  original,         \* history: that recovery state as it was taken
  losses            \* history: records it has lost

engine  == <<lifecycle, history, events, versions, committed, restricted>>
outside == <<backup, original, losses>>
vars    == <<engine, outside>>

Time == 0..MaxTime

-----------------------------------------------------------------------------
(* The transition table and the preconditions.                             *)

\* LEGAL_TRANSITIONS; terminal states have no entry.
Legal ==
  [s \in State |->
     CASE s = "PROPOSED"    -> {"VALIDATED", "REJECTED", "CANCELLED", "EXPIRED"}
       [] s = "VALIDATED"   -> {"AUTHORIZED", "REJECTED", "CANCELLED", "EXPIRED"}
       [] s = "AUTHORIZED"  -> {"QUEUED", "CANCELLED", "EXPIRED", "INVALIDATED"}
       [] s = "QUEUED"      -> {"ACTIVATED", "CANCELLED", "EXPIRED", "INVALIDATED", "FAILED"}
       [] s = "ACTIVATED"   -> {"ACTIVE", "SAFEGUARDED", "MONITORED", "RESOLVED", "INVALIDATED", "FAILED"}
       [] s = "ACTIVE"      -> {"SAFEGUARDED", "MONITORED", "RESOLVED", "INVALIDATED", "FAILED"}
       [] s = "SAFEGUARDED" -> {"MONITORED", "RESOLVED", "INVALIDATED", "FAILED"}
       [] s = "MONITORED"   -> {"SAFEGUARDED", "RESOLVED", "INVALIDATED", "FAILED"}
       [] s = "RESOLVED"    -> {"ARCHIVED"}
       [] OTHER             -> {}]

\* The targets a terminal restriction leaves open.
Closing == {"REJECTED", "CANCELLED", "EXPIRED", "INVALIDATED", "FAILED", "RESOLVED"}

\* Mutant: a transition may be made as of a time before the last one.
PermittedUntimely(c, to, pre, asOf) ==
  /\ pre.matching
  /\ pre.available <= asOf
  /\ pre.restricted => to \in Closing
  /\ to = "AUTHORIZED" => pre.upstream /\ ("quality" \in Require => pre.quality)
  /\ to = "ACTIVATED" => ("workflow" \in Require => pre.workflow)

\* _validate_preconditions finds nothing.
Permitted(c, to, pre, asOf) ==
  /\ pre.matching
  /\ pre.available <= asOf
  /\ c.updated <= asOf
  /\ pre.restricted => to \in Closing
  /\ to = "AUTHORIZED" => pre.upstream /\ ("quality" \in Require => pre.quality)
  /\ to = "ACTIVATED" => ("workflow" \in Require => pre.workflow)

\* What expire_if_due presents of its own accord.
FullEvidence(asOf) ==
  [matching |-> TRUE, upstream |-> TRUE, workflow |-> TRUE, quality |-> TRUE,
   restricted |-> FALSE, available |-> asOf]

-----------------------------------------------------------------------------
(* create, transition, expire_if_due.                                      *)

Live == {h \in Hypothesis : lifecycle[h] # None}

Create(h, at, epoch) ==
  /\ lifecycle[h] = None
  /\ Cardinality(Live) < MaxLifecycles
  /\ LET c == [state |-> "PROPOSED", version |-> 0, sequence |-> 0, created |-> at,
               updated |-> at, epoch |-> epoch]
     IN /\ lifecycle' = [lifecycle EXCEPT ![h] = c]
        /\ versions' = [versions EXCEPT ![h] = <<c>>]
  /\ UNCHANGED <<history, events, committed, restricted, outside>>

\* The idempotency key of a request.
Key(h, expected, from, to, asOf) ==
  [hypothesis |-> h, expected |-> expected, from |-> from, to |-> to, at |-> asOf]

\* Mutant: an update does not advance the sequence.
UpdatedUnsequenced(c, to, asOf) ==
  [c EXCEPT !.state = to, !.version = @ + 1, !.updated = asOf]

Updated(c, to, asOf) ==
  [c EXCEPT !.state = to, !.version = @ + 1, !.sequence = @ + 1, !.updated = asOf]

\* The records of a committed transition.
Commit(h, c, to, pre, asOf) ==
  LET t == [seq |-> c.sequence + 1, from |-> c.state, to |-> to, at |-> asOf,
            pre |-> pre, epoch |-> c.epoch]
  IN /\ lifecycle' = [lifecycle EXCEPT ![h] = Updated(c, to, asOf)]
     /\ history' = [history EXCEPT ![h] = Append(@, t)]
     /\ events' = [events EXCEPT ![h] = Append(@, t)]
     /\ versions' = [versions EXCEPT ![h] = Append(@, Updated(c, to, asOf))]
     /\ committed' = committed \cup {Key(h, c.version, c.state, to, asOf)}

\* A caller asks for a transition from the version it has read.  Refused
\* requests change nothing.
Move(h, to, expected, pre, asOf) ==
  /\ lifecycle[h] # None
  /\ LET c == lifecycle[h]
     IN /\ expected = c.version
        /\ to \in Legal[c.state]
        /\ Len(history[h]) < MaxTransitions
        /\ Permitted(c, to, pre, asOf)
        /\ Key(h, expected, c.state, to, asOf) \notin committed
        /\ Commit(h, c, to, pre, asOf)
  /\ UNCHANGED <<restricted, outside>>

ExpireIfDue(h, asOf) ==
  /\ lifecycle[h] # None
  /\ lifecycle[h].state = "QUEUED"
  /\ asOf >= lifecycle[h].updated + QueueExpiration
  /\ Move(h, "EXPIRED", lifecycle[h].version, FullEvidence(asOf), asOf)

-----------------------------------------------------------------------------
(* recovery_state, restore, and what happens to the state in between.      *)

TakeBackup(epoch) ==
  /\ backup' = [epoch |-> epoch, lifecycle |-> lifecycle, history |-> history,
                events |-> events, versions |-> versions]
  /\ original' = backup'
  /\ losses' = 0
  /\ UNCHANGED engine

LastState(ts) == IF ts = <<>> THEN "PROPOSED" ELSE ts[Len(ts)].to

\* Mutant: a stored lifecycle is not compared with its transitions.
SoundUnversioned(c, ts, es, epoch) ==
  /\ \A i \in DOMAIN ts : ts[i].seq = i /\ ts[i].at >= c.created /\ ts[i].epoch = epoch
  /\ Len(es) = Len(ts)
  /\ \A i \in DOMAIN ts : ts[i].to \in Legal[ts[i].from]
  /\ \A i \in DOMAIN es : es[i].seq = i
  /\ Len(ts) <= MaxTransitions

\* The records of one lifecycle fit together.
Sound(c, ts, es, epoch) ==
  /\ Len(ts) <= MaxTransitions
  /\ Len(es) = Len(ts)
  /\ \A i \in DOMAIN ts :
       /\ ts[i].seq = i
       /\ es[i].seq = i
       /\ es[i] = ts[i]
       /\ ts[i].at >= c.created
       /\ ts[i].to \in Legal[ts[i].from]
       /\ ts[i].epoch = epoch
  /\ c.state = LastState(ts)
  /\ c.version = Len(ts)
  /\ c.sequence = Len(es)

\* restore accepts the recovery state.
Acceptable(s, expectedEpoch) ==
  /\ s.epoch = expectedEpoch
  /\ Cardinality({h \in Hypothesis : s.lifecycle[h] # None}) <= MaxLifecycles
  /\ \A h \in Hypothesis :
       IF s.lifecycle[h] = None
       THEN s.history[h] = <<>> /\ s.events[h] = <<>>
       ELSE Sound(s.lifecycle[h], s.history[h], s.events[h], expectedEpoch)

RestoreAccepted(expectedEpoch) ==
  /\ backup # None
  /\ Acceptable(backup, expectedEpoch)
  /\ lifecycle' = backup.lifecycle
  /\ history' = backup.history
  /\ events' = backup.events
  /\ versions' = backup.versions
  /\ committed' = {}
  /\ restricted' = FALSE
  /\ UNCHANGED outside

\* Refused, the recovery state leaves the engine as it is, but restricted.
RestoreRefused(expectedEpoch) ==
  /\ backup # None
  /\ ~Acceptable(backup, expectedEpoch)
  /\ restricted' = TRUE
  /\ UNCHANGED <<lifecycle, history, events, versions, committed, outside>>

\* A new process starts without a recovery state, or sets aside the one there
\* is; RestoreAccepted stands for one that starts with it.
Restart ==
  /\ lifecycle' = [h \in Hypothesis |-> None]
  /\ history' = [h \in Hypothesis |-> <<>>]
  /\ events' = [h \in Hypothesis |-> <<>>]
  /\ versions' = [h \in Hypothesis |-> <<>>]
  /\ committed' = {}
  /\ restricted' = FALSE
  /\ backup' = None
  /\ original' = None
  /\ losses' = 0

Without(s, i) == [j \in 1..(Len(s) - 1) |-> IF j < i THEN s[j] ELSE s[j + 1]]

\* Bound: of the records of a lifecycle, the ones a stored state may lose.
Ends(s) == IF s = <<>> THEN {} ELSE {1, Len(s)}

\* The stored recovery state loses a record.
LoseRecord(h) ==
  /\ backup # None
  /\ losses < MaxLosses
  /\ losses' = losses + 1
  /\ \/ \E i \in Ends(backup.history[h]) :
          backup' = [backup EXCEPT !.history[h] = Without(@, i)]
     \/ \E i \in Ends(backup.events[h]) :
          backup' = [backup EXCEPT !.events[h] = Without(@, i)]
     \/ /\ backup.lifecycle[h] # None
        /\ backup' = [backup EXCEPT !.lifecycle[h] = None]
  /\ UNCHANGED <<engine, original>>

-----------------------------------------------------------------------------
Init ==
  /\ lifecycle = [h \in Hypothesis |-> None]
  /\ history = [h \in Hypothesis |-> <<>>]
  /\ events = [h \in Hypothesis |-> <<>>]
  /\ versions = [h \in Hypothesis |-> <<>>]
  /\ committed = {}
  /\ restricted = FALSE
  /\ backup = None
  /\ original = None
  /\ losses = 0

\* The calls of a running engine.  A version a caller may hold is any that
\* the lifecycle has had.
Work ==
  \E h \in Hypothesis, asOf \in Time :
    \/ \E epoch \in Epoch : Create(h, asOf, epoch)
    \/ \E read \in DOMAIN versions[h] : \E pre \in Evidence, to \in State :
         Move(h, to, versions[h][read].version, pre, asOf)
    \/ ExpireIfDue(h, asOf)

Next ==
  \/ Work
  \/ \E epoch \in Epoch : TakeBackup(epoch)
  \/ \E epoch \in Epoch : RestoreAccepted(epoch)
  \/ \E epoch \in Epoch : RestoreRefused(epoch)
  \/ Restart
  \/ \E h \in Hypothesis : LoseRecord(h)

Spec == Init /\ [][Next]_vars

-----------------------------------------------------------------------------
(* Properties.                                                             *)

\* Every variable holds a value of its type.
TypeOK ==
  /\ lifecycle \in [Hypothesis -> LifecycleRecord \cup {None}]
  /\ history \in [Hypothesis -> Seq(Transition)]
  /\ events \in [Hypothesis -> Seq(Transition)]
  /\ versions \in [Hypothesis -> Seq(LifecycleRecord)]
  /\ \A k \in committed : k.hypothesis \in Hypothesis /\ k.expected \in Nat
  /\ restricted \in BOOLEAN
  /\ backup \in RecoveryState \cup {None}
  /\ original \in RecoveryState \cup {None}
  /\ losses \in 0..MaxLosses

\* The issues reconcile reports of a lifecycle that exists.
Issues(c, ts, es) ==
  {issue \in {"SEQUENCE", "EVENTS", "STATE", "VERSION", "LINEAGE", "ORPHAN_EVENT"} :
     \/ issue = "SEQUENCE" /\ \E i \in DOMAIN ts : ts[i].seq # i
     \/ issue = "EVENTS" /\ (Len(es) # Len(ts) \/ \E i \in DOMAIN ts : es[i].seq # ts[i].seq)
     \/ issue = "STATE" /\ c.state # LastState(ts)
     \/ issue = "VERSION" /\ (c.version # Len(ts) \/ c.sequence # Len(es))
     \/ issue = "LINEAGE" /\ \E i \in DOMAIN ts : ts[i].epoch # c.epoch
     \/ issue = "ORPHAN_EVENT" /\ \E i \in DOMAIN ts : es[i] # ts[i]}

\* Whatever the interleaving of calls, restarts and restores, and whatever
\* records the restored state had lost, reconcile finds every lifecycle of
\* the engine consistent.
Reconciled ==
  \A h \in Live : Issues(lifecycle[h], history[h], events[h]) = {}

\* A lifecycle that was ever activated was authorized before, on evidence of
\* upstream authorization and quality, and activated on a healthy workflow.
ActivatedWasAuthorized ==
  \A h \in Live : lifecycle[h].state \in Activated =>
    \E i, j \in DOMAIN history[h] :
      /\ i < j
      /\ history[h][i].to = "AUTHORIZED"
      /\ history[h][i].pre.upstream
      /\ "quality" \in Require => history[h][i].pre.quality
      /\ history[h][j].to = "ACTIVATED"
      /\ "workflow" \in Require => history[h][j].pre.workflow

\* snapshot: the last version known at a time, and the transitions known then.
Snapshot(h, asOf) ==
  LET known == {i \in DOMAIN versions[h] : versions[h][i].updated <= asOf}
  IN IF known = {} THEN None
     ELSE LET last == CHOOSE i \in known : \A j \in known : versions[h][j].version <= versions[h][i].version
          IN [record |-> versions[h][last],
              transitions |-> {i \in DOMAIN history[h] :
                                 /\ history[h][i].at <= asOf
                                 /\ history[h][i].seq <= versions[h][last].sequence}]

\* What a snapshot says of a time before the last update is final: no
\* transition committed later rewrites it.
SnapshotsFrozen ==
  [][(committed' # committed /\ committed \subseteq committed') =>
       \A h \in Live, asOf \in Time :
         asOf < lifecycle[h].updated => Snapshot(h, asOf)' = Snapshot(h, asOf)]_vars

\* A restore that is accepted brings a lifecycle back as it was backed up,
\* with every transition it had made, or not at all, though the stored state
\* may have lost records.
RestoreFaithful ==
  [][(backup' # None /\ history' # history /\ committed' = {} /\ ~restricted') =>
       \A h \in Hypothesis :
         \/ lifecycle'[h] = original.lifecycle[h] /\ history'[h] = original.history[h]
         \/ lifecycle'[h] = None /\ history'[h] = <<>>]_vars
=============================================================================
