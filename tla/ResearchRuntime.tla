-------------------------- MODULE ResearchRuntime --------------------------
(***************************************************************************)
(* The process that hosts the research engine: PersistentResearchRuntime   *)
(* (operations/runtime.py) over the checkpoint repository, with the        *)
(* recovery gate (core/recovery.py), the engine's state machine            *)
(* (core/engine.py, core/state.py) and the two hosts that drive it,        *)
(* run_amrte.py ("cli") and the lifespan of web/app.py ("web").  Processes *)
(* follow one another on the same directory; each may crash at any step.   *)
(***************************************************************************)
EXTENDS CheckpointStore

CONSTANTS Hosts,          \* the hosts in use, among "cli" and "web"
          Deployed,       \* the configurations processes are started with
          Targets,        \* bound: the states the host moves the engine to
          Seeds           \* checkpoints an earlier tool may have left

SystemState == {"INITIALIZING", "READY", "RUNNING", "DEFENSIVE", "PROTECT",
                "SUSPENDED", "ERROR", "STOPPED"}

\* What the gate reads of a state payload and of a checkpoint's metadata.
StatePayload == [system : SystemState,
                 event : {"COMMITTED", "IN_PROGRESS", "UNRECOGNISED"},
                 keys : {"unique", "repeated"},
                 objects : {"owned", "orphaned"}]

StateMeta == [epoch : Nat, clean : BOOLEAN, origin : {"this", "other"}]

\* recover: the epoch after the one of a checkpoint that was not shut down clean.
NextEpoch(c) == c.meta.epoch + (IF c.meta.clean THEN 0 ELSE 1)

\* The recovery epochs a process can have: what it writes is always clean, so
\* that epochs grow only past the checkpoints earlier tools left.
Epochs == {0} \cup {NextEpoch(s) : s \in Seeds}

ASSUME RuntimeAssumption ==
  /\ Hosts \subseteq {"cli", "web"}
  /\ Deployed \subseteq Config
  /\ Payload = StatePayload
  /\ Meta \subseteq StateMeta
  /\ [epoch : Epochs, clean : {TRUE}, origin : {"this"}] \subseteq Meta
  /\ Targets \subseteq SystemState \ {"STOPPED"}
  /\ Seeds \subseteq Checkpoint

VARIABLES
  phase,            \* where the process is
  host,             \* which host runs it
  config,           \* the configuration hash it was started with
  engine,           \* the engine's SystemState, "NONE" when there is no engine
  epoch,            \* runtime.recovery_epoch
  report,           \* runtime.recovery_report
  \* History of the process and of the directory.
  gated,            \* this process passed the gate and started the engine
  skipped,          \* it set a damaged current generation aside
  authority,        \* the last checkpoint promoted by a process that was gated
  overwrote         \* a process that was not gated promoted a checkpoint

process == <<phase, host, config, engine, epoch, report>>
history == <<gated, skipped, authority, overwrote>>
rvars   == <<vars, process, history>>

-----------------------------------------------------------------------------
(* core/state.py and core/recovery.py.                                     *)

AllowedTransitions ==
  [INITIALIZING |-> {"READY", "ERROR", "SUSPENDED"},
   READY        |-> {"RUNNING", "SUSPENDED", "ERROR", "STOPPED"},
   RUNNING      |-> {"DEFENSIVE", "PROTECT", "SUSPENDED", "ERROR", "STOPPED"},
   DEFENSIVE    |-> {"RUNNING", "PROTECT", "SUSPENDED", "ERROR", "STOPPED"},
   PROTECT      |-> {"DEFENSIVE", "SUSPENDED", "ERROR", "STOPPED"},
   SUSPENDED    |-> {"READY", "ERROR", "STOPPED"},
   ERROR        |-> {"SUSPENDED", "STOPPED"},
   STOPPED      |-> {}]

ProtectedStates == {"DEFENSIVE", "PROTECT", "SUSPENDED", "ERROR"}

Ready(outcome) == outcome \in {"OK", "OK_WITH_WARNINGS"}

\* Mutant: the gate does not look at the protected states.
GateUnprotected(c, chain, usedFallback, hash) ==
  IF (~chain /\ ~usedFallback) \/ c.config # hash \/ c.meta.origin # "this"
  THEN "MANUAL_REVIEW"
  ELSE IF c.payload.event = "UNRECOGNISED" \/ c.payload.keys = "repeated"
  THEN "CORRUPTED"
  ELSE IF c.payload.objects = "orphaned" THEN "MANUAL_REVIEW"
  ELSE "OK"

\* The decision recover takes on the checkpoint it selected, in the order of
\* its tests: chain, configuration, dataset and experiment, event status,
\* idempotency keys, orphans and ghosts, protected state, warnings.
Gate(c, chain, usedFallback, hash) ==
  IF \/ ~chain /\ ~usedFallback
     \/ c.config # hash
     \/ c.meta.origin # "this"
  THEN "MANUAL_REVIEW"
  ELSE IF c.payload.event = "UNRECOGNISED" \/ c.payload.keys = "repeated"
  THEN "CORRUPTED"
  ELSE IF c.payload.objects = "orphaned" THEN "MANUAL_REVIEW"
  ELSE IF c.payload.system \in ProtectedStates THEN "PROTECTION"
  ELSE IF \/ c.payload.event = "IN_PROGRESS"
          \/ ~c.meta.clean
          \/ usedFallback
  THEN "OK_WITH_WARNINGS"
  ELSE "OK"

\* What checkpoint asks the repository to save: the engine's state, no event
\* in flight, no keys, no objects, and always CLEAN_SHUTDOWN.
RuntimeRequest ==
  [payload |-> [system |-> engine, event |-> "COMMITTED", keys |-> "unique",
                objects |-> "owned"],
   config |-> config,
   meta |-> [epoch |-> epoch, clean |-> TRUE, origin |-> "this"]]

-----------------------------------------------------------------------------
(* start.                                                                  *)

\* start raises: main goes to its finally block, the lifespan of the web
\* application ends before its try block.
Raise == phase' = IF host = "cli" THEN "finalize" ELSE "exit"

\* build_engine; the engine reports ERROR when its startup checks fail.
Launch(h, hash) ==
  /\ phase = "off"
  /\ host' = h
  /\ config' = hash
  /\ \/ engine' = "READY" /\ phase' = "open"
     \/ engine' = "ERROR" /\ phase' = (IF h = "cli" THEN "finalize" ELSE "exit")
  /\ UNCHANGED <<vars, epoch, report, history>>

OpenRepository ==
  /\ phase = "open"
  /\ \/ InitializeOk /\ health' = "HEALTHY" /\ phase' = "load"
     \/ InitializeFails /\ Raise
  /\ UNCHANGED <<current, previous, fallback, lastRequest, save, acked, faults>>
  /\ UNCHANGED <<host, config, engine, epoch, report, history>>

\* The first latest_valid decides between a recovery, a new run and failure.
LoadExisting ==
  /\ phase = "load"
  /\ \E refused, moved \in SUBSET Generations :
       LET cur == Seen("current", current, refused)
           prv == Seen("previous", previous, refused)
       IN /\ Refuse(refused)
          /\ LoadFiles(cur, prv, moved)
          /\ skipped' = UsedFallback(cur, prv)
          /\ \/ Selected(cur, prv) # None /\ phase' = "recover"
             \/ cur = Absent /\ prv = Absent /\ phase' = "start"
             \/ Rejected(cur, prv) # {} /\ Selected(cur, prv) = None /\ Raise
  /\ UNCHANGED <<lastRequest, save, acked>>
  /\ UNCHANGED <<host, config, engine, epoch, report, gated, authority, overwrote>>

\* recover: it initializes the repository, searches it once more and reads
\* both generations again for the chain.  LoadExisting left a generation and
\* no pending file, so that initialize only sets health.
Recover ==
  /\ phase = "recover"
  /\ \/ /\ InitializeFails
        /\ report' = [outcome |-> "FAILED", fallback |-> fallback]
        /\ Raise
        /\ UNCHANGED <<current, previous, fallback, epoch, faults>>
     \/ \E refused, unread, moved \in SUBSET Generations :
          LET cur   == Seen("current", current, refused)
              prv   == Seen("previous", previous, refused)
              found == Selected(cur, prv)
              chain == ChainIntact(Seen("current", current', unread),
                                   Seen("previous", previous', unread))
              outcome == IF found = None THEN "CORRUPTED"
                         ELSE Gate(found, chain, fallback', config)
          IN /\ Refuse(refused \cup unread)
             /\ LoadFiles(cur, prv, moved)
             /\ report' = [outcome |-> outcome, fallback |-> fallback']
             /\ IF Ready(outcome)
                THEN phase' = "start" /\ epoch' = NextEpoch(found)
                ELSE Raise /\ UNCHANGED epoch
  /\ UNCHANGED <<lastRequest, save, acked, host, config, engine, history>>

\* engine.start: READY to RUNNING.
StartEngine ==
  /\ phase = "start"
  /\ engine' = "RUNNING"
  /\ phase' = "serve"
  /\ gated' = TRUE
  /\ UNCHANGED <<vars, host, config, epoch, report, skipped, authority, overwrote>>

-----------------------------------------------------------------------------
(* The running process.                                                    *)

\* A holder of the engine moves its state machine.
Transition(target) ==
  /\ phase = "serve"
  /\ target \in AllowedTransitions[engine]
  /\ engine' = target
  /\ UNCHANGED <<vars, phase, host, config, epoch, report, history>>

\* checkpoint, between start and shutdown.
RequestCheckpoint ==
  /\ phase = "serve"
  /\ BeginSave(RuntimeRequest)
  /\ phase' = "saving"
  /\ UNCHANGED <<host, config, engine, epoch, report, history>>

CheckpointReturns ==
  /\ phase = "saving"
  /\ pc = "idle"
  /\ phase' = "serve"
  /\ UNCHANGED <<vars, host, config, engine, epoch, report, history>>

\* The repository's steps, with the history of who promoted what.
SaveProceeds ==
  /\ phase \in {"saving", "closing"}
  /\ SaveStep
  /\ IF current' = current THEN UNCHANGED <<authority, overwrote>>
     ELSE /\ authority' = IF gated THEN draft ELSE authority
          /\ overwrote' = (overwrote \/ ~gated)
  /\ UNCHANGED <<process, gated, skipped>>

-----------------------------------------------------------------------------
(* shutdown and the ends of a process.                                     *)

\* Ctrl+C, which main also takes while it is starting; the end of the web
\* application's lifespan.  Before the repository is bound there is nothing
\* to save and the engine just stops.
Interrupt ==
  /\ \/ phase = "serve"
     \/ host = "cli" /\ phase \in {"open", "load", "recover", "start"}
  /\ \/ phase' = "finalize" /\ UNCHANGED engine
     \/ phase = "open" /\ phase' = "exit" /\ engine' = "STOPPED"
  /\ UNCHANGED <<vars, host, config, epoch, report, history>>

\* shutdown saves a checkpoint unless the engine is in ERROR.
Finalize ==
  /\ phase = "finalize"
  /\ \/ /\ engine \in {"READY", "RUNNING", "DEFENSIVE", "PROTECT", "SUSPENDED"}
        /\ BeginSave(RuntimeRequest)
        /\ phase' = "closing"
        /\ UNCHANGED engine
     \/ /\ engine = "ERROR"
        /\ engine' = "STOPPED"
        /\ phase' = "exit"
        /\ UNCHANGED vars
  /\ UNCHANGED <<host, config, epoch, report, history>>

\* Mutant: the engine stops although its checkpoint failed.
CloseRegardless ==
  /\ phase = "closing"
  /\ pc = "idle"
  /\ engine' = "STOPPED"
  /\ phase' = "exit"
  /\ UNCHANGED <<vars, host, config, epoch, report, history>>

\* Mutant: the process ends only when its last checkpoint was saved.
CloseWhenSaved ==
  /\ phase = "closing"
  /\ pc = "idle"
  /\ saved = "OK"
  /\ engine' = "STOPPED"
  /\ phase' = "exit"
  /\ UNCHANGED <<vars, host, config, epoch, report, history>>

\* The engine stops only if the checkpoint was saved.
Close ==
  /\ phase = "closing"
  /\ pc = "idle"
  /\ engine' = IF saved = "OK" THEN "STOPPED" ELSE engine
  /\ phase' = "exit"
  /\ UNCHANGED <<vars, host, config, epoch, report, history>>

\* The memory of the process is gone.
Forget ==
  /\ phase' = "off"
  /\ engine' = "NONE"
  /\ epoch' = 0
  /\ report' = None
  /\ gated' = FALSE
  /\ skipped' = FALSE
  /\ Crash
  /\ UNCHANGED <<host, config, authority, overwrote>>

Exit == phase = "exit" /\ Forget

ProcessDies == phase \notin {"off", "exit"} /\ Forget

MediumDamages == Damage /\ UNCHANGED <<process, history>>

-----------------------------------------------------------------------------
RInit ==
  /\ current \in Seeds \cup {Absent}
  /\ authority = IF current = Absent THEN None ELSE current
  /\ previous = Absent
  /\ pending = Absent
  /\ health = "UNKNOWN" /\ fallback = FALSE /\ lastRequest = None
  /\ pc = "idle" /\ draft = None /\ saved = "NONE"
  /\ acked = None
  /\ faults = 0
  /\ phase = "off" /\ host \in Hosts /\ config \in Deployed
  /\ engine = "NONE" /\ epoch = 0 /\ report = None
  /\ gated = FALSE /\ skipped = FALSE /\ overwrote = FALSE

\* The steps the process takes by itself once launched.
ProcessStep ==
  \/ OpenRepository
  \/ LoadExisting
  \/ Recover
  \/ StartEngine
  \/ SaveProceeds
  \/ CheckpointReturns
  \/ Finalize
  \/ Close
  \/ Exit

RNext ==
  \/ \E h \in Hosts, hash \in Deployed : Launch(h, hash)
  \/ ProcessStep
  \/ \E target \in Targets : Transition(target)
  \/ RequestCheckpoint
  \/ Interrupt
  \/ ProcessDies
  \/ MediumDamages

RSpec == RInit /\ [][RNext]_rvars

\* A process that is there goes on: its steps are the calls of one thread, and
\* none of them waits for anything.
RFairSpec == RSpec /\ WF_rvars(ProcessStep)

-----------------------------------------------------------------------------
(* Properties.                                                             *)

\* A checkpoint that nothing forbids to run on.
Unrestricted(c) ==
  /\ c.config = config
  /\ c.payload.system \notin {"DEFENSIVE", "PROTECT", "SUSPENDED", "ERROR"}
  /\ c.payload.keys = "unique"
  /\ c.payload.objects = "owned"
  /\ c.meta.origin = "this"

\* The state a gated process left decides whether the next one may run: with
\* no damage, and as long as no process that was refused saved on its way
\* out, the engine is started only on that state, and only if nothing in it
\* forbids to run.
StartsFromAuthority ==
  (phase = "start" /\ faults = 0 /\ ~overwrote) =>
     /\ Latest = authority
     /\ authority # None => Unrestricted(authority)

\* Under the same conditions a checkpoint that replaces another carries a
\* recovery epoch no lower, and higher when the other was not clean.
EpochAdvances ==
  [][(/\ Latest # None /\ Latest' # None /\ Latest' # Latest
      /\ faults' = 0 /\ ~overwrote') => Latest'.meta.epoch >= NextEpoch(Latest)]_rvars

\* The engine reaches STOPPED through a checkpoint only when that checkpoint,
\* with the state, configuration and epoch of this process, is what the next
\* process will read.
StopsOnlyAfterDurableSave ==
  [][(phase = "closing" /\ engine' = "STOPPED" /\ faults = 0) =>
       /\ Latest = acked
       /\ acked # None
       /\ acked.payload.system = engine
       /\ acked.config = config
       /\ acked.meta.epoch = epoch]_rvars

\* A process that was asked to end, or whose start was refused, is gone in the
\* end, and one that was launched serves or ends, whatever fails to be written or
\* read: no step on the way waits for another to succeed.
StartsOrEnds ==
  /\ phase \in {"finalize", "exit"} ~> phase = "off"
  /\ phase = "open" ~> phase \in {"serve", "off"}

\* RECOVERY.md:33 "Recovered DEFENSIVE, PROTECT, SUSPENDED, or ERROR state
\* remains restrictive across restart": without damage the engine starts only
\* if nothing in what the last gated process left forbids to run.  It does not
\* hold.
RestrictionSurvivesRestart ==
  (phase = "start" /\ faults = 0 /\ authority # None) => Unrestricted(authority)

\* The types of the process, and the epochs of every checkpoint there is.
RuntimeTypes ==
  /\ TypeOK
  /\ phase \in {"off", "open", "load", "recover", "start", "serve", "saving",
                "finalize", "closing", "exit"}
  /\ config \in Config
  /\ engine \in SystemState \cup {"NONE"}
  /\ epoch \in Epochs
  /\ gated \in BOOLEAN
  /\ overwrote \in BOOLEAN
  /\ \A c \in {current, previous, pending, draft} :
       c \in Checkpoint => NextEpoch(c) \in Epochs

\* What this process writes.
Own(c) ==
  /\ c.payload.system = engine
  /\ c.config = config
  /\ c.meta.epoch = epoch
  /\ c.meta.clean

\* Where the process is tells whether it passed the gate, whether it has an
\* engine, and whose the save in progress is.
Progress ==
  /\ phase \in {"off", "open", "load", "recover", "start"} => ~gated
  /\ phase \in {"serve", "saving"} => gated
  /\ phase \in {"serve", "saving", "closing"} => engine \in SystemState \ {"STOPPED"}
  /\ pc # "idle" => phase \in {"saving", "closing"} /\ Own(draft)

\* What the next process will read, while the medium is sound.
Handed ==
  /\ (phase = "closing" /\ pc = "idle" /\ saved = "OK") =>
       Latest = acked /\ acked # None /\ Own(acked)
  /\ ~overwrote =>
       /\ Latest = authority
       /\ (phase = "start" /\ authority # None) => Unrestricted(authority)
       /\ ((phase = "start" \/ gated) /\ Latest # None) => NextEpoch(Latest) <= epoch

\* The inductive invariant behind StartsFromAuthority and EndsDurably.
RuntimeInvariant ==
  /\ RuntimeTypes
  /\ Progress
  /\ faults = 0 => Undamaged /\ Handed

\* How a process may end (checkpoint, shutdown): what it writes never takes the
\* recovery epoch back, and STOPPED means that what it wrote will be found.
EndsDurably == EpochAdvances /\ StopsOnlyAfterDurableSave
=============================================================================
