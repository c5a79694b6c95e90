---------------------------- MODULE MCOperations ----------------------------
(* A small instance of the engines of operations and core, and of          *)
(* observation quality.                                                    *)
EXTENDS ForwardOps, Deployment, Observability, ConfigEngine, ObservationQuality

MCSessions ==
  {[id |-> 1, source |-> 1, cutoff |-> 0], [id |-> 2, source |-> 1, cutoff |-> 0]}

\* In order, out of order, before the cutoff, known late, of another source.
MCObservations ==
  {[id |-> 11, source |-> 1, observed |-> 1, available |-> 1, received |-> 1,
    number |-> 1, finite |-> TRUE],
   [id |-> 12, source |-> 1, observed |-> 1, available |-> 2, received |-> 2,
    number |-> 2, finite |-> TRUE],
   [id |-> 13, source |-> 1, observed |-> 2, available |-> 2, received |-> 2,
    number |-> 2, finite |-> TRUE],
   [id |-> 14, source |-> 1, observed |-> 0, available |-> 1, received |-> 1,
    number |-> 3, finite |-> TRUE],
   [id |-> 15, source |-> 2, observed |-> 1, available |-> 1, received |-> 1,
    number |-> 4, finite |-> TRUE]}

MCRequests ==
  {[id |-> 1, source |-> 1, target |-> 2, evidence |-> TRUE, approve |-> TRUE],
   [id |-> 2, source |-> 1, target |-> 3, evidence |-> TRUE, approve |-> TRUE]}

MCReports == {"HEALTHY", "RESTRICTED", "FAILED"}

\* A debug line, two lines of one code, a large one, an audit event, an error.
MCInputs ==
  {[code |-> "DEBUGGED", audit |-> FALSE, severity |-> 0, size |-> 1],
   [code |-> "LOGGED", audit |-> FALSE, severity |-> 1, size |-> 1],
   [code |-> "LOGGED", audit |-> FALSE, severity |-> 1, size |-> 2],
   [code |-> "AUDITED", audit |-> TRUE, severity |-> 1, size |-> 1],
   [code |-> "FAILED", audit |-> FALSE, severity |-> 3, size |-> 3]}

\* A switch that may only be restricted, a hard setting, two settings of which
\* one is at most the other, and one that was replaced.
Definition(policy, switch, default, minimum, maximum, replaced) ==
  [policy |-> policy, switch |-> switch, default |-> default,
   minimum |-> minimum, maximum |-> maximum, replaced |-> replaced]

MCSchema ==
  [strict |-> Definition("RESTRICT_ONLY", TRUE, 1, 0, 1, FALSE),
   live |-> Definition("DENY", TRUE, 0, 0, 1, FALSE),
   entry |-> Definition("ALLOW", FALSE, 2, 0, 3, FALSE),
   exit |-> Definition("ALLOW", FALSE, 1, 0, 3, FALSE),
   legacy |-> Definition("ALLOW", FALSE, 1, 0, 3, TRUE)]
MCAtMost == {<<"exit", "entry">>}
MCMalformed == {<<"legacy", 3>>}
MCProfiles == [BALANCED |-> <<>>, CONSERVATIVE |-> [entry |-> 3]]
MCLayers == {<<>>, [strict |-> 0], [live |-> 1], [entry |-> 1], [exit |-> 3],
  [legacy |-> 2], [legacy |-> 3], [unknown |-> 1]}

Observation(scope, value, observed, available) ==
  [scope |-> scope, value |-> value, observed |-> observed, available |-> available,
   lineage |-> "d1", health |-> "HEALTHY"]

\* Observations at the median of the baseline below, and at the three ratios.
MCQualityObservations ==
  {Observation("A", 2, 0, 0), Observation("A", 2, 0, 1), Observation("A", 2, 1, 1),
   Observation("A", 3, 1, 1), Observation("A", 4, 1, 1), Observation("A", 6, 1, 2)}

\* A baseline, and two scopes that make none.
MCObservationSets ==
  {{Observation("A", 2, 0, 0), Observation("A", 2, 0, 1)},
   {Observation("A", 2, 0, 0), Observation("B", 2, 0, 1)}}

MCWorkflowEvidence == {[scope |-> "A", health |-> "DEGRADED", at |-> 1]}

\* The engines share nothing: one of them is called, or a part of it: the
\* sessions and what they take, or the life of an instance without them;
\* reports of all components, or updates and the reports of one component; and
\* one part of the journal.
VARIABLE called

governanceVars == <<journalVars, configVars, qualityVars>>

MCInit ==
  /\ called \in {"sessions", "life", "health", "updates", "alerts",
                 "emit", "capture", "notify", "retry", "configure", "evaluate"}
  /\ OpsInit /\ DepInit /\ JournalInit /\ ConfigInit /\ QualityInit

MCNext ==
  /\ UNCHANGED called
  /\ \/ /\ called = "sessions" /\ OpsNext /\ UNCHANGED <<depVars, governanceVars>>
        /\ ops'.heartbeats = <<>> /\ ops'.promotions = <<>>
     \/ /\ called = "life" /\ OpsNext /\ UNCHANGED <<depVars, governanceVars>>
        /\ ops'.observations = <<>> /\ opsLosses' = 0
     \/ called = "health" /\ HealthNext /\ UNCHANGED <<opsVars, governanceVars>>
     \/ /\ called = "updates"
        /\ HealthNext \/ UpdateNext
        /\ Cardinality(DOMAIN dep'.health) <= 1 /\ UNCHANGED <<opsVars, governanceVars>>
     \/ called = "alerts" /\ AlertNext /\ UNCHANGED <<opsVars, governanceVars>>
     \/ /\ UNCHANGED <<opsVars, depVars>>
        /\ \/ called = "emit" /\ EmitNext /\ UNCHANGED <<configVars, qualityVars>>
           \/ called = "capture" /\ CaptureNext /\ UNCHANGED <<configVars, qualityVars>>
           \/ called = "notify" /\ NotifyNext /\ UNCHANGED <<configVars, qualityVars>>
           \/ called = "retry" /\ RetryNext /\ UNCHANGED <<configVars, qualityVars>>
           \/ called = "configure" /\ ConfigNext /\ UNCHANGED <<journalVars, qualityVars>>
           \/ called = "evaluate" /\ QualityNext /\ UNCHANGED <<journalVars, configVars>>

MCSpec == MCInit /\ [][MCNext]_<<opsVars, depVars, governanceVars, called>>
=============================================================================
