-------------------------- MODULE CheckpointStore --------------------------
(***************************************************************************)
(* LocalCheckpointRepository of src/src/amrte/core/persistence.py: two     *)
(* checkpoint generations in a directory, replaced by a write to a pending *)
(* file and two renames.  save_checkpoint is one action per durable step,  *)
(* so that the process may die, or the operating system refuse a call,     *)
(* between any two of them.  Hashing and JSON are abstracted to whether    *)
(* _load_path accepts a file.                                              *)
(***************************************************************************)
EXTENDS Naturals

CONSTANTS
  Payload,          \* the state payloads callers ask to persist
  Config,           \* configuration hashes
  Meta,             \* the rest of a request (epoch, shutdown status, origin)
  Requests,         \* the requests made of the repository
  Refused,          \* payloads with a prohibited key, or too large
  Absent,           \* the content of a file that does not exist
  Corrupt,          \* the content of a file that _load_path rejects
  None,             \* Python's None
  MaxSeq,           \* bound: sequence numbers explored
  MaxFaults         \* bound: files the medium damages, reads it refuses

Request == [payload : Payload, config : Config, meta : Meta]

\* deterministic_id hashes the sequence, the payload and the configuration,
\* not the recovery epoch, the shutdown status or the link.
Identity == [seq : Nat, payload : Payload, config : Config]

Checkpoint == [seq : Nat, prev : Identity \cup {None}, payload : Payload,
               config : Config, meta : Meta]

IdOf(c) == [seq |-> c.seq, payload |-> c.payload, config |-> c.config]

File == Checkpoint \cup {Absent, Corrupt}

ASSUME StoreAssumption ==
  /\ Requests \subseteq Request
  /\ Refused \subseteq Payload
  /\ Absent \notin Checkpoint
  /\ Corrupt \notin Checkpoint
  /\ None \notin Checkpoint
  /\ None \notin Identity
  /\ None \notin Request
  /\ Absent # Corrupt
  /\ MaxSeq \in Nat
  /\ MaxFaults \in Nat

VARIABLES
  current,          \* checkpoint.current.json
  previous,         \* checkpoint.previous.json
  pending,          \* .checkpoint.pending.tmp
  health,           \* StorageHealth
  fallback,         \* last_load_used_fallback
  lastRequest,      \* _last_request
  pc,               \* the step save_checkpoint is at
  draft,            \* its local variable checkpoint
  saved,            \* what the last save reported
  acked,            \* history: the last checkpoint reported as saved
  faults            \* history: files damaged and searches refused a read

files  == <<current, previous, pending>>
memory == <<health, fallback, lastRequest>>
save   == <<pc, draft, saved>>
vars   == <<files, memory, save, acked, faults>>

-----------------------------------------------------------------------------
(* Reading the directory.                                                  *)

Valid(file) == file \notin {Absent, Corrupt}

\* Mutant: the search tries the previous generation first.
SelectedOldestFirst(cur, prv) ==
  IF Valid(prv) THEN prv ELSE IF Valid(cur) THEN cur ELSE None

\* latest_valid: the first of the two generations that validates.
Selected(cur, prv) ==
  IF Valid(cur) THEN cur ELSE IF Valid(prv) THEN prv ELSE None

Latest == Selected(current, previous)

\* index > 0 in the list of the files that exist.
UsedFallback(cur, prv) == cur = Corrupt /\ Valid(prv)

Generations == {"current", "previous"}

\* What a search takes a generation for.  _load_path makes no difference
\* between a file it rejects and one it is refused the reading of.
Seen(name, file, refused) ==
  IF name \in refused /\ file # Absent THEN Corrupt ELSE file

\* The operating system refuses to read some generations, for this once.
Refuse(refused) ==
  /\ refused # {} => faults < MaxFaults
  /\ faults' = IF refused = {} THEN faults ELSE faults + 1

\* health after latest_valid, which leaves it alone when there is no file.
LoadHealth(cur, prv, before) ==
  IF cur = Absent /\ prv = Absent THEN before
  ELSE IF Selected(cur, prv) # None THEN "HEALTHY" ELSE "CORRUPTED"

\* The invalid generations latest_valid meets before a valid one.
Rejected(cur, prv) ==
  {name \in Generations :
     \/ name = "current" /\ cur = Corrupt
     \/ name = "previous" /\ prv = Corrupt /\ ~Valid(cur)}

\* validate_chain succeeds.
ChainIntact(cur, prv) ==
  \/ cur = Absent
  \/ prv = Absent
  \/ /\ Valid(cur) /\ Valid(prv)
     /\ cur.prev = IdOf(prv)
     /\ cur.seq > prv.seq

NextSeq(c) == IF c = None THEN 1 ELSE c.seq + 1

\* Mutant: a checkpoint does not name its predecessor.
LinkDropped(c) == None

LinkTo(c) == IF c = None THEN None ELSE IdOf(c)

NewCheckpoint(req, prior) ==
  [seq |-> NextSeq(prior), prev |-> LinkTo(prior), payload |-> req.payload,
   config |-> req.config, meta |-> req.meta]

-----------------------------------------------------------------------------
(* initialize, which every save calls first.                               *)

\* _clean_stale_temporary: a pending file left by a dead save is moved away.
InitializeOk == pending' = Absent

\* The directory cannot be created or written, or the move is refused
\* (READ_ONLY and UNAVAILABLE are one value here).
InitializeFails == health' = "UNAVAILABLE" /\ UNCHANGED pending

Initialize ==
  /\ pc = "idle"
  /\ \/ InitializeOk /\ health' = "HEALTHY"
     \/ InitializeFails
  /\ UNCHANGED <<current, previous, fallback, lastRequest, save, acked, faults>>

-----------------------------------------------------------------------------
(* save_checkpoint.                                                        *)

\* The checkpoint is built on the latest valid one, whose search quarantines
\* nothing here.
BuildDraft(req, cur, prv) ==
  /\ fallback' = UsedFallback(cur, prv)
  /\ health' = LoadHealth(cur, prv, "HEALTHY")
  /\ \/ /\ req.payload \in Refused
        /\ saved' = "FAILED"
        /\ UNCHANGED <<pc, draft>>
     \/ /\ req.payload \notin Refused
        /\ NextSeq(Selected(cur, prv)) <= MaxSeq
        /\ draft' = NewCheckpoint(req, Selected(cur, prv))
        /\ pc' = "write"
        /\ saved' = "NONE"

\* The request is remembered and the directory prepared first.
BeginSave(req) ==
  /\ pc = "idle"
  /\ lastRequest' = req
  /\ \/ /\ InitializeFails
        /\ saved' = "FAILED"
        /\ UNCHANGED <<fallback, pc, draft, faults>>
     \/ /\ InitializeOk
        /\ \E refused \in SUBSET Generations :
             /\ Refuse(refused)
             /\ BuildDraft(req, Seen("current", current, refused),
                                Seen("previous", previous, refused))
  /\ UNCHANGED <<current, previous, acked>>

\* save: the metadata of the last request with a new payload.
SavePayload(payload) ==
  /\ lastRequest # None
  /\ BeginSave([lastRequest EXCEPT !.payload = payload])

\* Mutant: the checkpoint is written over the current generation.
WriteInPlace ==
  /\ pc = "write"
  /\ current' = Corrupt
  /\ pc' = "flush"
  /\ UNCHANGED <<previous, pending, memory, draft, saved, acked, faults>>

\* The pending file is created; until the flush it holds a torn prefix.
WriteTemporary ==
  /\ pc = "write"
  /\ pending' = Corrupt
  /\ pc' = "flush"
  /\ UNCHANGED <<current, previous, memory, draft, saved, acked, faults>>

\* flush and fsync.
FlushTemporary ==
  /\ pc = "flush"
  /\ pending' = draft
  /\ pc' = "verify"
  /\ UNCHANGED <<current, previous, memory, draft, saved, acked, faults>>

\* The pending file is read back; a rejection, or a read the operating
\* system refuses, ends the save and leaves health as it was.
VerifyTemporary ==
  /\ pc = "verify"
  /\ \/ /\ Valid(pending)
        /\ pc' = "preserve"
        /\ UNCHANGED <<draft, saved>>
     \/ /\ pc' = "idle"
        /\ draft' = None
        /\ saved' = "FAILED"
  /\ UNCHANGED <<files, memory, acked, faults>>

\* Mutant: the previous generation is kept once and for all.
PreserveOnce ==
  /\ pc = "preserve"
  /\ previous' = IF previous # Absent THEN previous ELSE current
  /\ pc' = "promote"
  /\ UNCHANGED <<current, pending, memory, draft, saved, acked, faults>>

\* The current generation becomes the previous one: copied to
\* .checkpoint.previous.tmp, which nothing else reads, then renamed.
PreserveCurrent ==
  /\ pc = "preserve"
  /\ previous' = IF current = Absent THEN previous ELSE current
  /\ pc' = "promote"
  /\ UNCHANGED <<current, pending, memory, draft, saved, acked, faults>>

\* The pending file becomes the current generation.
Promote ==
  /\ pc = "promote"
  /\ pending # Absent
  /\ current' = pending
  /\ pending' = Absent
  /\ pc' = "sync"
  /\ UNCHANGED <<previous, memory, draft, saved, acked, faults>>

\* The directory is synchronised and the save reports success.
FinishSave ==
  /\ pc = "sync"
  /\ health' = "HEALTHY"
  /\ acked' = draft
  /\ pc' = "idle"
  /\ draft' = None
  /\ saved' = "OK"
  /\ UNCHANGED <<files, fallback, lastRequest, faults>>

\* An OSError at any step, the directory's fsync included: the files stay
\* as the steps before left them.
SaveFails ==
  /\ pc \in {"write", "flush", "preserve", "promote", "sync"}
  /\ health' = "DEGRADED"
  /\ pc' = "idle"
  /\ draft' = None
  /\ saved' = "FAILED"
  /\ UNCHANGED <<files, fallback, lastRequest, acked, faults>>

SaveStep ==
  \/ WriteTemporary
  \/ FlushTemporary
  \/ VerifyTemporary
  \/ PreserveCurrent
  \/ Promote
  \/ FinishSave
  \/ SaveFails

-----------------------------------------------------------------------------
(* latest_valid, by itself and as load.                                    *)

\* A search that takes the generations for cur and prv.  moved: those of the
\* rejected ones that quarantine could rename; nothing reads a file again
\* once it is under quarantine/.
LoadFiles(cur, prv, moved) ==
  /\ moved \subseteq Rejected(cur, prv)
  /\ current'  = IF "current" \in moved THEN Absent ELSE current
  /\ previous' = IF "previous" \in moved THEN Absent ELSE previous
  /\ fallback' = UsedFallback(cur, prv)
  /\ health' = LoadHealth(cur, prv, health)
  /\ UNCHANGED pending

LatestValid ==
  /\ pc = "idle"
  /\ \E refused, moved \in SUBSET Generations :
       /\ Refuse(refused)
       /\ LoadFiles(Seen("current", current, refused),
                    Seen("previous", previous, refused), moved)
  /\ UNCHANGED <<lastRequest, save, acked>>

-----------------------------------------------------------------------------
(* The environment.                                                        *)

\* The process dies; the next one builds a new repository on the directory.
Crash ==
  /\ health' = "UNKNOWN"
  /\ fallback' = FALSE
  /\ lastRequest' = None
  /\ pc' = "idle"
  /\ draft' = None
  /\ saved' = "NONE"
  /\ UNCHANGED <<files, acked, faults>>

\* The medium damages one file.
Damage ==
  /\ faults < MaxFaults
  /\ faults' = faults + 1
  /\ \/ current # Absent /\ current' = Corrupt /\ UNCHANGED <<previous, pending>>
     \/ previous # Absent /\ previous' = Corrupt /\ UNCHANGED <<current, pending>>
     \/ pending # Absent /\ pending' = Corrupt /\ UNCHANGED <<current, previous>>
  /\ UNCHANGED <<memory, save, acked>>

Init ==
  /\ current = Absent
  /\ previous = Absent
  /\ pending = Absent
  /\ health = "UNKNOWN"
  /\ fallback = FALSE
  /\ lastRequest = None
  /\ pc = "idle"
  /\ draft = None
  /\ saved = "NONE"
  /\ acked = None
  /\ faults = 0

Next ==
  \/ Initialize
  \/ \E req \in Requests : BeginSave(req)
  \/ \E payload \in Payload : SavePayload(payload)
  \/ SaveStep
  \/ LatestValid
  \/ Crash
  \/ Damage

Spec == Init /\ [][Next]_vars

-----------------------------------------------------------------------------
(* Properties.                                                             *)

\* Every variable holds a value of its type.
TypeOK ==
  /\ current \in File
  /\ previous \in File
  /\ pending \in File
  /\ health \in {"UNKNOWN", "HEALTHY", "DEGRADED", "UNAVAILABLE", "CORRUPTED"}
  /\ fallback \in BOOLEAN
  /\ lastRequest \in Request \cup {None}
  /\ pc \in {"idle", "write", "flush", "verify", "preserve", "promote", "sync"}
  /\ draft \in Checkpoint \cup {None}
  /\ pc # "idle" => draft \in Checkpoint
  /\ saved \in {"NONE", "OK", "FAILED"}
  /\ acked \in Checkpoint \cup {None}
  /\ faults \in 0..MaxFaults

\* A torn or unverified write never becomes a generation: wherever the
\* process dies in save_checkpoint, both generations still validate.
GenerationsNeverTorn ==
  faults = 0 => current # Corrupt /\ previous # Corrupt

\* What save_checkpoint reported as saved is not lost by a later crash or
\* I/O error: a reader gets that checkpoint or one saved after it.
AcknowledgedSurvives ==
  (faults = 0 /\ acked # None) =>
    /\ Latest # None
    /\ Latest.seq >= acked.seq
    /\ Latest.seq = acked.seq => Latest = acked

\* The two generations form a chain that validate_chain accepts, except
\* after a promotion that stopped between its two renames, when both hold
\* the same checkpoint.
ChainOrInterrupted ==
  faults = 0 => ChainIntact(current, previous) \/ current = previous

\* latest_valid takes out of service only what _load_path rejected, and a
\* save replaces a generation by another: while every read is answered, no
\* step of the program removes a valid one.
ValidGenerationStays ==
  [][faults' = faults => /\ Valid(current) => current' # Absent
                         /\ Valid(previous) => previous' # Absent]_vars

\* Without damage, a repository that has been saved to never restarts its
\* numbering: each acknowledged checkpoint has a higher sequence number.
AcknowledgedSequenceGrows ==
  [][faults' = 0 /\ acked # None /\ acked' # acked => acked'.seq > acked.seq]_vars

\* What holds of the files and of the save in progress while the medium is
\* sound.
Undamaged ==
  /\ current # Corrupt
  /\ previous # Corrupt
  /\ previous # Absent => current # Absent
  /\ ChainIntact(current, previous) \/ current = previous
  /\ acked # None =>
       /\ Valid(current)
       /\ acked.seq <= current.seq
       /\ acked.seq = current.seq => acked = current
  /\ pc \notin {"idle", "sync"} =>
       /\ draft.seq = NextSeq(Latest)
       /\ draft.prev = LinkTo(Latest)
  /\ pc \in {"verify", "preserve", "promote"} => pending = draft
  /\ pc = "promote" => previous = current
  /\ pc = "sync" =>
       /\ current = draft
       /\ acked # None => acked.seq < current.seq

\* The inductive invariant behind the properties above: at every step of a
\* save the files, the draft and the acknowledged checkpoint fit together.
SaveInvariant == TypeOK /\ (faults = 0 => Undamaged)

\* The repository implements one durable register (AtomicStore): the save
\* takes effect at the rename that promotes the pending file.
Atomic == INSTANCE AtomicStore WITH stored <- Latest, damaged <- faults > 0

ImplementsAtomicStore == Atomic!ASpec

\* test_persistence.py, test_injected_write_failures_preserve_last_valid: no
\* step of a save, failed or not, costs the last valid checkpoint.  It does
\* not hold once the medium has damaged the current generation.
WriteFailuresPreserveLastValid ==
  [][(pc # "idle" /\ faults' = faults /\ Latest # None) => Latest' # None]_vars
=============================================================================
