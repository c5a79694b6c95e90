----------------------- MODULE ResearchRuntime_proofs -----------------------
(***************************************************************************)
(* What the checkpoint repository guarantees for every payload, every      *)
(* number of saves and every place a crash or an I/O error can fall; and   *)
(* its invariant carried through the hosting process: what one process     *)
(* hands to the next through the checkpoint directory, for every           *)
(* configuration and every checkpoint an earlier tool left.                *)
(***************************************************************************)
EXTENDS ResearchRuntime, TLAPS

USE DEF files, memory, save

-----------------------------------------------------------------------------
(* The checkpoint repository.                                              *)

\* A search finds a checkpoint or nothing.
LEMMA SelectedType ==
  ASSUME NEW cur \in File, NEW prv \in File
  PROVE  Selected(cur, prv) \in Checkpoint \cup {None}
  BY DEF Selected, Valid, File

\* What a search takes a generation for is the content of some file.
LEMMA SeenType ==
  ASSUME NEW file \in File, NEW name, NEW refused
  PROVE  Seen(name, file, refused) \in File
  BY DEF Seen, File

\* Being refused a read is counted, within the bound.
LEMMA RefuseType ==
  ASSUME TypeOK, NEW refused, Refuse(refused)
  PROVE  faults' \in 0..MaxFaults
  BY StoreAssumption DEF StoreAssumption, TypeOK, Refuse

\* The checkpoint a save builds on what it found is a checkpoint.
LEMMA DraftType ==
  ASSUME NEW req \in Request, NEW prior \in Checkpoint \cup {None}
  PROVE  NewCheckpoint(req, prior) \in Checkpoint
  <1>1. NextSeq(prior) \in Nat
    BY StoreAssumption DEF NextSeq, Checkpoint
  <1>2. LinkTo(prior) \in Identity \cup {None}
    BY StoreAssumption DEF LinkTo, IdOf, Identity, Checkpoint
  <1>3. QED
    BY <1>1, <1>2 DEF NewCheckpoint, Checkpoint, Request

LEMMA LoadHealthType ==
  ASSUME NEW cur, NEW prv,
         NEW h \in {"UNKNOWN", "HEALTHY", "DEGRADED", "UNAVAILABLE", "CORRUPTED"}
  PROVE  LoadHealth(cur, prv, h) \in
           {"UNKNOWN", "HEALTHY", "DEGRADED", "UNAVAILABLE", "CORRUPTED"}
  BY DEF LoadHealth

\* Beginning a save, with any request, keeps the types.
LEMMA BeginSaveType ==
  ASSUME TypeOK, NEW req \in Request, BeginSave(req)
  PROVE  TypeOK'
  <1>1. /\ UNCHANGED <<current, previous, acked>>
        /\ lastRequest' = req
    BY DEF BeginSave
  <1>2. CASE InitializeFails /\ saved' = "FAILED" /\ UNCHANGED <<fallback, pc, draft, faults>>
    BY <1>1, <1>2 DEF TypeOK, InitializeFails
  <1>3. ASSUME NEW refused \in SUBSET Generations, InitializeOk, Refuse(refused),
               BuildDraft(req, Seen("current", current, refused),
                               Seen("previous", previous, refused))
        PROVE  TypeOK'
    <2> DEFINE cur == Seen("current", current, refused)
               prv == Seen("previous", previous, refused)
    <2>1. cur \in File /\ prv \in File
      BY SeenType DEF TypeOK
    <2>2. NewCheckpoint(req, Selected(cur, prv)) \in Checkpoint
      BY <2>1, SelectedType, DraftType
    <2>3. /\ health' = LoadHealth(cur, prv, "HEALTHY")
          /\ fallback' = UsedFallback(cur, prv)
          /\ \/ saved' = "FAILED" /\ UNCHANGED <<pc, draft>>
             \/ /\ draft' = NewCheckpoint(req, Selected(cur, prv))
                /\ pc' = "write" /\ saved' = "NONE"
      BY <1>3 DEF BuildDraft
    <2> HIDE DEF cur, prv
    <2>4. health' \in {"UNKNOWN", "HEALTHY", "DEGRADED", "UNAVAILABLE", "CORRUPTED"}
      BY <2>3, LoadHealthType
    <2>5. fallback' \in BOOLEAN
      BY <2>3 DEF UsedFallback
    <2>6. pending' \in File /\ faults' \in 0..MaxFaults
      BY <1>3, RefuseType DEF InitializeOk, File
    <2>7. QED
      BY <1>1, <2>2, <2>3, <2>4, <2>5, <2>6 DEF TypeOK
  <1>4. QED
    BY <1>2, <1>3 DEF BeginSave

LEMMA TypeInit == Init => TypeOK
  <1> SUFFICES ASSUME Init PROVE TypeOK
    OBVIOUS
  <1>1. faults \in 0..MaxFaults
    BY StoreAssumption DEF StoreAssumption, Init
  <1>2. fallback \in BOOLEAN
    BY DEF Init
  <1>3. QED
    BY <1>1, <1>2 DEF Init, TypeOK, File

LEMMA TypeNext == TypeOK /\ [Next]_vars => TypeOK'
  <1> SUFFICES ASSUME TypeOK, [Next]_vars PROVE TypeOK'
    OBVIOUS
  <1>1. CASE Initialize
    BY <1>1 DEF Initialize, InitializeOk, InitializeFails, TypeOK, File
  <1>2. ASSUME NEW req \in Requests, BeginSave(req) PROVE TypeOK'
    BY <1>2, BeginSaveType, StoreAssumption
  <1>3. ASSUME NEW payload \in Payload, SavePayload(payload) PROVE TypeOK'
    <2>1. lastRequest \in Request
      BY <1>3 DEF SavePayload, TypeOK
    <2>2. [lastRequest EXCEPT !.payload = payload] \in Request
      BY <2>1 DEF Request
    <2>3. QED
      BY <1>3, <2>2, BeginSaveType DEF SavePayload
  <1>4. CASE WriteTemporary
    BY <1>4 DEF WriteTemporary, TypeOK, File
  <1>5. CASE FlushTemporary
    BY <1>5 DEF FlushTemporary, TypeOK, File
  <1>6. CASE VerifyTemporary
    BY <1>6 DEF VerifyTemporary, TypeOK
  <1>7. CASE PreserveCurrent
    BY <1>7 DEF PreserveCurrent, TypeOK
  <1>8. CASE Promote
    BY <1>8 DEF Promote, TypeOK, File
  <1>9. CASE FinishSave
    BY <1>9 DEF FinishSave, TypeOK
  <1>10. CASE SaveFails
    BY <1>10 DEF SaveFails, TypeOK
  <1>11. CASE LatestValid
    <2>1. PICK refused, moved \in SUBSET Generations :
            /\ Refuse(refused)
            /\ LoadFiles(Seen("current", current, refused),
                         Seen("previous", previous, refused), moved)
      BY <1>11 DEF LatestValid
    <2>2. health' \in {"UNKNOWN", "HEALTHY", "DEGRADED", "UNAVAILABLE", "CORRUPTED"}
      BY <2>1, LoadHealthType DEF LoadFiles, TypeOK
    <2>3. faults' \in 0..MaxFaults
      BY <2>1, RefuseType
    <2>4. current' \in File /\ previous' \in File /\ pending' \in File
      BY <2>1 DEF LoadFiles, TypeOK, File
    <2>5. fallback' \in BOOLEAN
      BY <2>1 DEF LoadFiles, UsedFallback
    <2>6. QED
      BY <1>11, <2>2, <2>3, <2>4, <2>5 DEF LatestValid, TypeOK
  <1>12. CASE Crash
    BY <1>12 DEF Crash, TypeOK
  <1>13. CASE Damage
    BY <1>13, StoreAssumption DEF Damage, TypeOK, File
  <1>14. CASE UNCHANGED vars
    BY <1>14 DEF vars, TypeOK
  <1>15. QED
    BY <1>1, <1>2, <1>3, <1>4, <1>5, <1>6, <1>7, <1>8, <1>9, <1>10, <1>11,
       <1>12, <1>13, <1>14 DEF Next, SaveStep

\* Type correctness of the repository.
THEOREM TypeCorrect == Spec => []TypeOK
  BY TypeInit, TypeNext, PTL DEF Spec

-----------------------------------------------------------------------------
(* The inductive invariant.                                                *)

\* While the medium is sound a reader gets the current generation.
LEMMA LatestIsCurrent ==
  ASSUME TypeOK, Undamaged
  PROVE  Latest = IF current = Absent THEN None ELSE current
  BY DEF Undamaged, Latest, Selected, Valid

\* A file that exists and is not corrupt holds a checkpoint.
LEMMA ValidFile ==
  ASSUME NEW file \in File, Valid(file)
  PROVE  file \in Checkpoint /\ file # None
  BY StoreAssumption DEF StoreAssumption, File, Valid

\* A step counts at most one fault.
LEMMA FaultsCounted ==
  ASSUME [Next]_vars, faults' # faults
  PROVE  faults' = faults + 1
  BY DEF Next, SaveStep, vars, Initialize, BeginSave, SavePayload, Refuse,
         WriteTemporary, FlushTemporary, VerifyTemporary, PreserveCurrent,
         Promote, FinishSave, SaveFails, LatestValid, Crash, Damage

LEMMA InvariantInit == Init => SaveInvariant
  <1> SUFFICES ASSUME Init PROVE Undamaged
    BY TypeInit DEF SaveInvariant
  <1>1. QED
    BY StoreAssumption DEF StoreAssumption, Init, Undamaged, ChainIntact

\* Beginning a save, with any request, keeps the invariant.
LEMMA BeginSaveInvariant ==
  ASSUME TypeOK, Undamaged, NEW req \in Request, BeginSave(req), faults' = faults
  PROVE  Undamaged'
  <1>1. /\ UNCHANGED <<current, previous, acked>>
        /\ pc = "idle"
    BY DEF BeginSave
  <1>2. Latest' = Latest
    BY <1>1 DEF Latest
  <1>3. \/ pc' = "idle"
        \/ pc' = "write" /\ draft' = NewCheckpoint(req, Latest)
    <2>1. CASE pc' = pc
      BY <1>1, <2>1
    <2>2. ASSUME NEW refused \in SUBSET Generations, Refuse(refused),
                 BuildDraft(req, Seen("current", current, refused),
                                 Seen("previous", previous, refused)),
                 pc' # pc
          PROVE  pc' = "write" /\ draft' = NewCheckpoint(req, Latest)
      <3>1. refused = {}
        BY <2>2, StoreAssumption DEF StoreAssumption, Refuse, TypeOK
      <3>2. /\ Seen("current", current, refused) = current
            /\ Seen("previous", previous, refused) = previous
        BY <3>1 DEF Seen
      <3>3. QED
        BY <2>2, <3>2 DEF BuildDraft, Latest
    <2>3. QED
      BY <2>1, <2>2 DEF BeginSave
  <1>4. CASE pc' = "idle"
    BY <1>1, <1>4 DEF Undamaged
  <1>5. CASE pc' = "write" /\ draft' = NewCheckpoint(req, Latest)
    <2>1. draft'.seq = NextSeq(Latest) /\ draft'.prev = LinkTo(Latest)
      BY <1>5 DEF NewCheckpoint
    <2>2. QED
      BY <1>1, <1>2, <1>5, <2>1 DEF Undamaged
  <1>6. QED
    BY <1>3, <1>4, <1>5

\* The first rename: the current generation is now held twice.
LEMMA PreserveInvariant ==
  ASSUME TypeOK, Undamaged, PreserveCurrent
  PROVE  Undamaged'
  <1>1. /\ UNCHANGED <<current, pending, draft, acked>>
        /\ pc = "preserve" /\ pc' = "promote"
        /\ pending = draft
    BY DEF PreserveCurrent, Undamaged
  <1>2. previous' = current
    BY DEF PreserveCurrent, Undamaged
  <1>3. Latest' = Latest
    BY <1>1, <1>2, LatestIsCurrent DEF Latest, Selected, Valid, Undamaged
  <1>4. draft.seq = NextSeq(Latest) /\ draft.prev = LinkTo(Latest)
    BY <1>1 DEF Undamaged
  <1>5. QED
    BY <1>1, <1>2, <1>3, <1>4 DEF Undamaged

\* The second rename: the draft, linked to the generation now in previous,
\* becomes the current one, and is newer than anything acknowledged.
LEMMA PromoteInvariant ==
  ASSUME TypeOK, Undamaged, Promote
  PROVE  Undamaged'
  <1>1. /\ pc = "promote" /\ pc' = "sync"
        /\ current' = draft /\ previous' = previous /\ previous = current
        /\ UNCHANGED <<draft, acked>>
    BY DEF Promote, Undamaged
  <1>2. draft \in Checkpoint
    BY <1>1 DEF TypeOK
  <1>3. Valid(current') /\ current' # Absent /\ current' # Corrupt
    BY <1>1, <1>2, StoreAssumption DEF StoreAssumption, Valid
  <1>4. draft.seq = NextSeq(Latest) /\ draft.prev = LinkTo(Latest)
    BY <1>1 DEF Undamaged
  <1>5. CASE current = Absent
    <2>1. acked = None
      BY <1>5 DEF Undamaged, Valid
    <2>2. QED
      BY <1>1, <1>3, <1>5, <2>1 DEF Undamaged, ChainIntact
  <1>6. CASE current # Absent
    <2>1. Valid(current) /\ current \in Checkpoint /\ current # None
      BY <1>6, ValidFile DEF Undamaged, Valid, TypeOK
    <2>2. Latest = current
      BY <1>6, LatestIsCurrent
    <2>3. current.seq \in Nat
      BY <2>1 DEF Checkpoint
    <2>4. draft.seq = current.seq + 1 /\ draft.prev = IdOf(current)
      BY <1>4, <2>1, <2>2 DEF NextSeq, LinkTo
    <2>5. ChainIntact(current', previous')
      BY <1>1, <1>3, <2>1, <2>3, <2>4 DEF ChainIntact
    <2>6. acked # None => acked.seq \in Nat /\ acked.seq < draft.seq
      BY <2>3, <2>4 DEF Undamaged, TypeOK, Checkpoint
    <2>7. QED
      BY <1>1, <1>2, <1>3, <1>6, <2>1, <2>4, <2>5, <2>6 DEF Undamaged, Checkpoint
  <1>7. QED
    BY <1>5, <1>6

\* A step that counts no fault and searches the generations saw them as they
\* are; when the medium is sound there is then nothing to quarantine.
LEMMA SearchLeavesFiles ==
  ASSUME TypeOK, Undamaged, LatestValid, faults' = faults
  PROVE  UNCHANGED <<current, previous, pending, acked, pc, draft>>
  <1>1. PICK refused, moved \in SUBSET Generations :
          /\ Refuse(refused)
          /\ LoadFiles(Seen("current", current, refused),
                       Seen("previous", previous, refused), moved)
    BY DEF LatestValid
  <1>2. refused = {}
    BY <1>1, StoreAssumption DEF StoreAssumption, Refuse, TypeOK
  <1>3. /\ Seen("current", current, refused) = current
        /\ Seen("previous", previous, refused) = previous
    BY <1>2 DEF Seen
  <1>4. moved \subseteq Rejected(current, previous)
    BY <1>1, <1>3 DEF LoadFiles
  <1>5. Rejected(current, previous) = {}
    BY DEF Rejected, Undamaged
  <1>6. QED
    BY <1>1, <1>4, <1>5 DEF LoadFiles, LatestValid

LEMMA InvariantNext == SaveInvariant /\ [Next]_vars => SaveInvariant'
  <1> SUFFICES ASSUME SaveInvariant, [Next]_vars, faults' = 0
               PROVE  Undamaged'
    BY TypeNext DEF SaveInvariant
  <1>1. TypeOK
    BY DEF SaveInvariant
  <1>2. faults \in Nat
    BY <1>1, StoreAssumption DEF StoreAssumption, TypeOK
  <1>3. CASE faults' # faults
    <2>1. faults' = faults + 1
      BY <1>3, FaultsCounted
    <2>2. QED
      BY <1>2, <2>1
  <1>4. CASE faults' = faults
    <2>2. Undamaged
      BY <1>4 DEF SaveInvariant
    <2>3. CASE Initialize
      BY <2>2, <2>3 DEF Initialize, Undamaged, Latest
    <2>4. ASSUME NEW req \in Requests, BeginSave(req) PROVE Undamaged'
      BY <1>1, <1>4, <2>2, <2>4, BeginSaveInvariant, StoreAssumption DEF StoreAssumption
    <2>5. ASSUME NEW payload \in Payload, SavePayload(payload) PROVE Undamaged'
      <3>1. lastRequest \in Request
        BY <1>1, <2>5 DEF SavePayload, TypeOK
      <3>2. [lastRequest EXCEPT !.payload = payload] \in Request
        BY <3>1 DEF Request
      <3>3. QED
        BY <1>1, <1>4, <2>2, <2>5, <3>2, BeginSaveInvariant DEF SavePayload
    <2>6. CASE WriteTemporary
      BY <2>2, <2>6 DEF WriteTemporary, Undamaged, Latest
    <2>7. CASE FlushTemporary
      BY <2>2, <2>7 DEF FlushTemporary, Undamaged, Latest
    <2>8. CASE VerifyTemporary
      BY <2>2, <2>8 DEF VerifyTemporary, Undamaged, Latest
    <2>9. CASE PreserveCurrent
      BY <1>1, <2>2, <2>9, PreserveInvariant
    <2>10. CASE Promote
      BY <1>1, <2>2, <2>10, PromoteInvariant
    <2>11. CASE FinishSave
      <3>1. current' = current /\ previous' = previous /\ acked' = current /\ pc' = "idle"
        BY <2>2, <2>11 DEF FinishSave, Undamaged
      <3>2. current \in Checkpoint
        BY <1>1, <2>2, <2>11 DEF FinishSave, Undamaged, TypeOK
      <3>3. Valid(current) /\ current.seq \in Nat
        BY <3>2, StoreAssumption DEF StoreAssumption, Valid, Checkpoint
      <3>4. QED
        BY <2>2, <3>1, <3>3 DEF Undamaged
    <2>12. CASE SaveFails
      BY <2>2, <2>12 DEF SaveFails, Undamaged
    <2>13. CASE LatestValid
      <3>1. UNCHANGED <<current, previous, pending, acked, pc, draft>>
        BY <1>1, <1>4, <2>2, <2>13, SearchLeavesFiles
      <3>2. QED
        BY <2>2, <3>1 DEF Undamaged, Latest
    <2>14. CASE Crash
      BY <2>2, <2>14 DEF Crash, Undamaged
    <2>15. CASE UNCHANGED vars
      BY <2>2, <2>15 DEF vars, Undamaged, Latest
    <2>16. ~Damage
      BY <1>2, <1>4 DEF Damage
    <2>17. QED
      BY <2>3, <2>4, <2>5, <2>6, <2>7, <2>8, <2>9, <2>10, <2>11, <2>12,
         <2>13, <2>14, <2>15, <2>16 DEF Next, SaveStep
  <1>5. QED
    BY <1>3, <1>4

\* The files, the draft and the acknowledged checkpoint fit together at
\* every step of every save.
THEOREM SaveInvariantHolds == Spec => []SaveInvariant
  BY InvariantInit, InvariantNext, PTL DEF Spec

-----------------------------------------------------------------------------
(* What follows from it.                                                   *)

LEMMA InvariantImplies ==
  SaveInvariant => GenerationsNeverTorn /\ AcknowledgedSurvives /\ ChainOrInterrupted
  <1> SUFFICES ASSUME SaveInvariant
               PROVE  GenerationsNeverTorn /\ AcknowledgedSurvives /\ ChainOrInterrupted
    OBVIOUS
  <1>1. CASE faults # 0
    BY <1>1 DEF GenerationsNeverTorn, AcknowledgedSurvives, ChainOrInterrupted
  <1>2. CASE faults = 0
    <2>1. TypeOK /\ Undamaged
      BY <1>2 DEF SaveInvariant
    <2>2. ASSUME acked # None
          PROVE  /\ Latest # None
                 /\ Latest.seq >= acked.seq
                 /\ Latest.seq = acked.seq => Latest = acked
      <3>1. Valid(current)
        BY <2>1, <2>2 DEF Undamaged
      <3>2. Latest = current /\ current \in Checkpoint /\ current # None
        BY <2>1, <3>1, ValidFile, LatestIsCurrent DEF TypeOK, Valid
      <3>3. acked.seq \in Nat /\ current.seq \in Nat
        BY <2>1, <2>2, <3>2 DEF TypeOK, Checkpoint
      <3>4. QED
        BY <2>1, <2>2, <3>2, <3>3 DEF Undamaged
    <2>3. GenerationsNeverTorn /\ ChainOrInterrupted
      BY <1>2, <2>1 DEF Undamaged, GenerationsNeverTorn, ChainOrInterrupted
    <2>4. AcknowledgedSurvives
      BY <2>2 DEF AcknowledgedSurvives
    <2>5. QED
      BY <2>3, <2>4
  <1>3. QED
    BY <1>1, <1>2

\* No crash and no I/O error leaves a torn generation.
THEOREM NeverTorn == Spec => []GenerationsNeverTorn
  BY SaveInvariantHolds, InvariantImplies, PTL

\* Nothing acknowledged is lost to a crash or an I/O error.
THEOREM AcknowledgedSafe == Spec => []AcknowledgedSurvives
  BY SaveInvariantHolds, InvariantImplies, PTL

\* The chain validates, or both generations are the same checkpoint.
THEOREM ChainSafe == Spec => []ChainOrInterrupted
  BY SaveInvariantHolds, InvariantImplies, PTL

\* No step of the program removes a valid generation, damaged medium or not.
THEOREM ValidKept == Spec => ValidGenerationStays
  <1>1. ASSUME TypeOK, [Next]_vars
        PROVE  [faults' = faults => /\ Valid(current) => current' # Absent
                                    /\ Valid(previous) => previous' # Absent]_vars
    <2> SUFFICES ASSUME faults' = faults
                 PROVE  /\ Valid(current) => current' # Absent
                        /\ Valid(previous) => previous' # Absent
      OBVIOUS
    <2>1. CASE LatestValid
      <3>1. PICK refused, moved \in SUBSET Generations :
              /\ Refuse(refused)
              /\ LoadFiles(Seen("current", current, refused),
                           Seen("previous", previous, refused), moved)
        BY <2>1 DEF LatestValid
      <3>2. refused = {}
        BY <1>1, <3>1, StoreAssumption DEF StoreAssumption, Refuse, TypeOK
      <3>3. /\ Seen("current", current, refused) = current
            /\ Seen("previous", previous, refused) = previous
        BY <3>2 DEF Seen
      <3>4. moved \subseteq Rejected(current, previous)
        BY <3>1, <3>3 DEF LoadFiles
      <3>5. /\ Valid(current) => "current" \notin moved
            /\ Valid(previous) => "previous" \notin moved
        BY StoreAssumption, <3>4 DEF StoreAssumption, Rejected, Valid
      <3>6. QED
        BY <3>1, <3>5 DEF LoadFiles, Valid
    <2>2. CASE Promote
      BY <2>2 DEF Promote, Valid
    <2>3. CASE PreserveCurrent
      BY <2>3 DEF PreserveCurrent, Valid
    <2>4. CASE Damage
      BY <2>4, StoreAssumption DEF StoreAssumption, Damage, Valid
    <2>5. CASE UNCHANGED <<current, previous>>
      BY <2>5 DEF Valid
    <2>6. \/ LatestValid \/ Promote \/ PreserveCurrent \/ Damage
          \/ UNCHANGED <<current, previous>>
      BY <1>1 DEF Next, SaveStep, vars, Initialize, BeginSave, SavePayload,
                  WriteTemporary, FlushTemporary, VerifyTemporary, FinishSave,
                  SaveFails, Crash
    <2>7. QED
      BY <2>1, <2>2, <2>3, <2>4, <2>5, <2>6
  <1>2. QED
    BY <1>1, TypeCorrect, PTL DEF Spec, ValidGenerationStays

\* Without damage each acknowledged checkpoint is newer than the one before.
THEOREM AcknowledgedGrows == Spec => AcknowledgedSequenceGrows
  <1>1. ASSUME SaveInvariant, [Next]_vars
        PROVE  [faults' = 0 /\ acked # None /\ acked' # acked
                  => acked'.seq > acked.seq]_vars
    <2> SUFFICES ASSUME faults' = 0, acked # None, acked' # acked
                 PROVE  acked'.seq > acked.seq
      OBVIOUS
    <2>1. FinishSave
      BY <1>1 DEF Next, SaveStep, vars, Initialize, BeginSave, SavePayload,
                  WriteTemporary, FlushTemporary, VerifyTemporary,
                  PreserveCurrent, Promote, SaveFails, LatestValid, Crash, Damage
    <2>2. Undamaged /\ TypeOK
      BY <1>1, <2>1 DEF SaveInvariant, FinishSave
    <2>3. acked' = current /\ acked.seq < current.seq
      BY <2>1, <2>2 DEF FinishSave, Undamaged
    <2>4. acked.seq \in Nat /\ current.seq \in Nat
      BY <2>1, <2>2 DEF FinishSave, Undamaged, TypeOK, Checkpoint
    <2>5. QED
      BY <2>3, <2>4
  <1>2. QED
    BY <1>1, SaveInvariantHolds, PTL DEF Spec, AcknowledgedSequenceGrows

-----------------------------------------------------------------------------
(* The repository implements the durable register.                         *)

LEMMA RefinementInit == Init => Atomic!AInit
  BY DEF Init, Atomic!AInit, Latest, Selected, Valid

LEMMA RefinementNext ==
  SaveInvariant /\ [Next]_vars => [Atomic!ANext]_(Atomic!avars)
  <1> SUFFICES ASSUME SaveInvariant, [Next]_vars
               PROVE  Atomic!ANext \/ UNCHANGED Atomic!avars
    OBVIOUS
  <1>1. TypeOK /\ TypeOK'
    BY TypeNext DEF SaveInvariant
  <1>2. CASE faults' # 0
    <2>1. faults' > 0
      BY <1>1, <1>2, StoreAssumption DEF StoreAssumption, TypeOK
    <2>2. QED
      BY <2>1 DEF Atomic!ANext, Atomic!Damaged
  <1>3. CASE faults' = 0
    <2>1. faults \in Nat
      BY <1>1, StoreAssumption DEF StoreAssumption, TypeOK
    <2>2. faults = 0
      BY <1>3, <2>1, FaultsCounted
    <2>3. /\ Undamaged /\ Undamaged'
          /\ Latest = IF current = Absent THEN None ELSE current
          /\ Latest' = IF current' = Absent THEN None ELSE current'
      <3>1. Undamaged /\ Undamaged'
        BY <1>3, <2>2, InvariantNext DEF SaveInvariant
      <3>2. QED
        BY <1>1, <3>1 DEF Undamaged, Latest, Selected, Valid
    <2>4. (faults > 0) = FALSE /\ (faults > 0)' = FALSE
      BY <1>3, <2>2
    <2>5. CASE Promote
      <3>1. current' = draft /\ acked' = acked /\ draft \in Checkpoint
        BY <1>1, <2>3, <2>5 DEF Promote, Undamaged, TypeOK
      <3>2. Latest' = draft
        BY <2>3, <3>1, StoreAssumption DEF StoreAssumption
      <3>3. draft.seq = NextSeq(Latest) /\ draft.prev = LinkTo(Latest)
        BY <2>3, <2>5 DEF Promote, Undamaged
      <3>4. Atomic!Commit
        BY <2>4, <3>1, <3>2, <3>3 DEF Atomic!Commit, NextSeq, LinkTo
      <3>5. QED
        BY <3>4 DEF Atomic!ANext
    <2>6. CASE FinishSave
      <3>1. current' = current /\ acked' = current /\ current \in Checkpoint
        BY <1>1, <2>3, <2>6 DEF FinishSave, Undamaged, TypeOK
      <3>2. Latest' = Latest /\ acked' = Latest /\ Latest # None
        BY <2>3, <3>1, StoreAssumption DEF StoreAssumption
      <3>3. Atomic!Acknowledge
        BY <2>4, <3>2 DEF Atomic!Acknowledge
      <3>4. QED
        BY <3>3 DEF Atomic!ANext
    <2>7. CASE LatestValid
      <3>1. current' = current /\ acked' = acked
        BY <1>1, <1>3, <2>2, <2>3, <2>7, SearchLeavesFiles
      <3>2. QED
        BY <2>3, <2>4, <3>1 DEF Atomic!avars
    <2>8. CASE current' = current /\ acked' = acked
      BY <2>3, <2>4, <2>8 DEF Atomic!avars
    <2>9. Promote \/ FinishSave \/ LatestValid \/ (current' = current /\ acked' = acked)
      <3>1. ~Damage
        BY <1>3, <2>1, <2>2 DEF Damage
      <3>2. QED
        BY <3>1 DEF Next, SaveStep, vars, Initialize, BeginSave, SavePayload,
                    WriteTemporary, FlushTemporary, VerifyTemporary,
                    PreserveCurrent, SaveFails, Crash
    <2>10. QED
      BY <2>5, <2>6, <2>7, <2>8, <2>9
  <1>4. QED
    BY <1>2, <1>3

\* Saves, crashes and I/O errors look to a reader like one durable register:
\* promotion is where a save takes effect, everything else stutters.
THEOREM Refinement == Spec => ImplementsAtomicStore
  BY RefinementInit, RefinementNext, SaveInvariantHolds, PTL
     DEF Spec, ImplementsAtomicStore, Atomic!ASpec

-----------------------------------------------------------------------------
(* The hosting process.                                                    *)

\* Epochs are numbers, and a process may write any of them.
LEMMA EpochType ==
  ASSUME NEW e \in Epochs
  PROVE  /\ e \in Nat
         /\ [epoch |-> e, clean |-> TRUE, origin |-> "this"] \in Meta
  <1>1. ASSUME NEW s \in Seeds PROVE NextEpoch(s) \in Nat
    BY RuntimeAssumption DEF RuntimeAssumption, NextEpoch, Checkpoint, StateMeta
  <1>2. e \in Nat
    BY <1>1 DEF Epochs
  <1>3. [epoch |-> e, clean |-> TRUE, origin |-> "this"]
          \in [epoch : Epochs, clean : {TRUE}, origin : {"this"}]
    OBVIOUS
  <1>4. QED
    BY <1>2, <1>3, RuntimeAssumption DEF RuntimeAssumption

\* What checkpoint asks for is a request of the repository.
LEMMA RequestType ==
  ASSUME RuntimeTypes, engine \in SystemState
  PROVE  RuntimeRequest \in Request
  <1>1. [epoch |-> epoch, clean |-> TRUE, origin |-> "this"] \in Meta
    BY EpochType DEF RuntimeTypes
  <1>2. [system |-> engine, event |-> "COMMITTED", keys |-> "unique",
         objects |-> "owned"] \in Payload
    BY RuntimeAssumption DEF RuntimeAssumption, StatePayload
  <1>3. config \in Config
    BY DEF RuntimeTypes
  <1>4. QED
    BY <1>1, <1>2, <1>3 DEF RuntimeRequest, Request


-----------------------------------------------------------------------------
(* The searches.                                                           *)

\* Whatever a search takes the generations for, it leaves files.
LEMMA SearchType ==
  ASSUME TypeOK, NEW cur, NEW prv, NEW moved, LoadFiles(cur, prv, moved)
  PROVE  /\ current' \in File /\ previous' \in File /\ pending' = pending
         /\ current' \in {current, Absent} /\ previous' \in {previous, Absent}
         /\ health' \in {"UNKNOWN", "HEALTHY", "DEGRADED", "UNAVAILABLE", "CORRUPTED"}
         /\ fallback' \in BOOLEAN
  <1>1. health' \in {"UNKNOWN", "HEALTHY", "DEGRADED", "UNAVAILABLE", "CORRUPTED"}
    BY LoadHealthType DEF LoadFiles, TypeOK
  <1>2. QED
    BY <1>1 DEF LoadFiles, UsedFallback, TypeOK, File

\* A search that is refused no read, on a sound medium, sees the files as they
\* are and quarantines nothing.
LEMMA SearchSeesFiles ==
  ASSUME TypeOK, Undamaged, NEW refused, NEW unread, NEW moved,
         Refuse(refused \cup unread), faults' = faults,
         LoadFiles(Seen("current", current, refused),
                   Seen("previous", previous, refused), moved)
  PROVE  /\ refused = {} /\ unread = {}
         /\ Seen("current", current, refused) = current
         /\ Seen("previous", previous, refused) = previous
         /\ UNCHANGED <<current, previous, pending>>
  <1>1. refused \cup unread = {}
    BY StoreAssumption DEF StoreAssumption, Refuse, TypeOK
  <1>2. refused = {} /\ unread = {}
    BY <1>1
  <1>3. /\ Seen("current", current, refused) = current
        /\ Seen("previous", previous, refused) = previous
    BY <1>2 DEF Seen
  <1>4. Rejected(current, previous) = {}
    BY DEF Rejected, Undamaged
  <1>5. moved = {}
    BY <1>3, <1>4 DEF LoadFiles
  <1>6. QED
    BY <1>2, <1>3, <1>5 DEF LoadFiles

\* The search of recover and the two reads of its chain test.
RecoverySearch ==
  \E refused, unread, moved \in SUBSET Generations :
     /\ Refuse(refused \cup unread)
     /\ LoadFiles(Seen("current", current, refused),
                  Seen("previous", previous, refused), moved)
     /\ UNCHANGED <<lastRequest, save, acked>>

-----------------------------------------------------------------------------
(* Every step of the process is, to the repository, one of its own, a save *)
(* this process asked for, or the search of recover.                       *)

RepositoryStep ==
  \/ Initialize
  \/ SaveStep
  \/ LatestValid
  \/ Crash
  \/ Damage
  \/ UNCHANGED vars

LEMMA StepOfRepository ==
  ASSUME RuntimeTypes, Progress, [RNext]_rvars
  PROVE  \/ RepositoryStep
         \/ RecoverySearch
         \/ BeginSave(RuntimeRequest) /\ engine \in SystemState \ {"STOPPED"}
  <1>1. ASSUME NEW h \in Hosts, NEW hash \in Deployed, Launch(h, hash) PROVE UNCHANGED vars
    BY <1>1 DEF Launch
  <1>2. CASE OpenRepository
    <2>1. pc = "idle"
      BY <1>2 DEF OpenRepository, Progress
    <2>2. Initialize
      BY <1>2, <2>1 DEF OpenRepository, Initialize
    <2>3. QED
      BY <2>2 DEF RepositoryStep
  <1>3. CASE LoadExisting
    <2>1. pc = "idle"
      BY <1>3 DEF LoadExisting, Progress
    <2>2. LatestValid
      BY <1>3, <2>1 DEF LoadExisting, LatestValid
    <2>3. QED
      BY <2>2 DEF RepositoryStep
  <1>4. CASE Recover
    <2>1. pc = "idle"
      BY <1>4 DEF Recover, Progress
    <2>2. CASE InitializeFails /\ UNCHANGED <<current, previous, fallback, faults>>
      <3>1. Initialize
        BY <1>4, <2>1, <2>2 DEF Recover, Initialize
      <3>2. QED
        BY <3>1 DEF RepositoryStep
    <2>3. CASE RecoverySearch
      BY <2>3
    <2>4. QED
      BY <1>4, <2>2, <2>3 DEF Recover, RecoverySearch
  <1>5. CASE StartEngine
    BY <1>5 DEF StartEngine, RepositoryStep
  <1>6. CASE SaveProceeds
    BY <1>6 DEF SaveProceeds, RepositoryStep
  <1>7. CASE CheckpointReturns
    BY <1>7 DEF CheckpointReturns, RepositoryStep
  <1>8. CASE Finalize
    BY <1>8 DEF Finalize, SystemState, RepositoryStep
  <1>9. CASE Close
    BY <1>9 DEF Close, RepositoryStep
  <1>10. CASE Exit
    BY <1>10 DEF Exit, Forget, RepositoryStep
  <1>11. ASSUME NEW target \in Targets, Transition(target) PROVE UNCHANGED vars
    BY <1>11 DEF Transition
  <1>12. CASE RequestCheckpoint
    BY <1>12 DEF RequestCheckpoint, Progress, RepositoryStep
  <1>13. CASE Interrupt
    BY <1>13 DEF Interrupt, RepositoryStep
  <1>14. CASE ProcessDies
    BY <1>14 DEF ProcessDies, Forget, RepositoryStep
  <1>15. CASE MediumDamages
    BY <1>15 DEF MediumDamages, RepositoryStep
  <1>16. CASE UNCHANGED rvars
    BY <1>16 DEF rvars, RepositoryStep
  <1>17. QED
    BY <1>1, <1>2, <1>3, <1>4, <1>5, <1>6, <1>7, <1>8, <1>9, <1>10, <1>11,
       <1>12, <1>13, <1>14, <1>15, <1>16 DEF RNext, ProcessStep, RepositoryStep

LEMMA RepositorySteps == RepositoryStep => [Next]_vars
  BY DEF RepositoryStep, Next

\* A step counts at most one fault.
LEMMA RuntimeFaultsCounted ==
  ASSUME RuntimeTypes, Progress, [RNext]_rvars, faults' # faults
  PROVE  faults' = faults + 1
  <1>1. CASE RepositoryStep
    BY <1>1, RepositorySteps, FaultsCounted
  <1>2. CASE RecoverySearch
    BY <1>2 DEF RecoverySearch, Refuse
  <1>3. CASE BeginSave(RuntimeRequest)
    BY <1>3 DEF BeginSave, Refuse
  <1>4. QED
    BY <1>1, <1>2, <1>3, StepOfRepository

\* The repository's own invariant holds in a hosted repository.
LEMMA RepositoryKept ==
  ASSUME RuntimeInvariant, [RNext]_rvars
  PROVE  SaveInvariant'
  <1>1. RuntimeTypes /\ Progress /\ SaveInvariant /\ TypeOK
    BY DEF RuntimeInvariant, RuntimeTypes, SaveInvariant
  <1>2. CASE RepositoryStep
    BY <1>1, <1>2, RepositorySteps, InvariantNext
  <1>3. faults' = 0 => faults' = faults
    <2>1. faults \in Nat
      BY <1>1, StoreAssumption DEF StoreAssumption, TypeOK
    <2>2. QED
      BY <1>1, <2>1, RuntimeFaultsCounted
  <1>4. CASE RecoverySearch
    <2>1. PICK refused, unread, moved \in SUBSET Generations :
            /\ Refuse(refused \cup unread)
            /\ LoadFiles(Seen("current", current, refused),
                         Seen("previous", previous, refused), moved)
            /\ UNCHANGED <<lastRequest, save, acked>>
      BY <1>4 DEF RecoverySearch
    <2>2. faults' \in 0..MaxFaults
      BY <1>1, <2>1, RefuseType
    <2>3. TypeOK'
      BY <1>1, <2>1, <2>2, SearchType DEF TypeOK
    <2>4. ASSUME faults' = 0 PROVE Undamaged'
      <3>1. Undamaged
        BY <1>1, <1>3, <2>4 DEF SaveInvariant
      <3>2. UNCHANGED <<current, previous, pending, acked, pc, draft>>
        BY <1>1, <1>3, <2>1, <2>4, <3>1, SearchSeesFiles
      <3>3. QED
        BY <3>1, <3>2 DEF Undamaged, Latest
    <2>5. QED
      BY <2>3, <2>4 DEF SaveInvariant
  <1>5. CASE BeginSave(RuntimeRequest) /\ engine \in SystemState \ {"STOPPED"}
    <2>1. RuntimeRequest \in Request
      BY <1>1, <1>5, RequestType
    <2>2. TypeOK'
      BY <1>1, <1>5, <2>1, BeginSaveType
    <2>3. ASSUME faults' = 0 PROVE Undamaged'
      BY <1>1, <1>3, <1>5, <2>1, <2>3, BeginSaveInvariant DEF SaveInvariant
    <2>4. QED
      BY <2>2, <2>3 DEF SaveInvariant
  <1>6. QED
    BY <1>1, <1>2, <1>4, <1>5, StepOfRepository

-----------------------------------------------------------------------------
(* The types of the process.                                               *)

\* A step writes nothing but what this process asks to save.
LEMMA WrittenByThisProcess ==
  ASSUME RuntimeTypes, Progress, [RNext]_rvars
  PROVE  \A c \in {current', previous', pending', draft'} :
            \/ c \in {current, previous, pending, draft, Absent, Corrupt, None}
            \/ c.meta = RuntimeRequest.meta
  <1>1. ASSUME NEW req, BeginSave(req)
        PROVE  /\ UNCHANGED <<current, previous>> /\ pending' \in {pending, Absent}
               /\ draft' = draft \/ draft'.meta = req.meta
    BY <1>1 DEF BeginSave, InitializeOk, InitializeFails, BuildDraft, NewCheckpoint
  <1>2. CASE BeginSave(RuntimeRequest)
    BY <1>1, <1>2
  <1>3. CASE RecoverySearch
    BY <1>3, SearchType DEF RecoverySearch, RuntimeTypes
  <1>4. CASE RepositoryStep
    BY <1>4 DEF RepositoryStep, SaveStep, WriteTemporary, FlushTemporary,
       VerifyTemporary, PreserveCurrent, Promote, FinishSave, SaveFails, Initialize,
       InitializeOk, InitializeFails, LatestValid, LoadFiles, Crash, Damage, vars
  <1>5. QED
    BY <1>2, <1>3, <1>4, StepOfRepository

\* Every checkpoint there is keeps an epoch a process can have.
LEMMA EpochsKept ==
  ASSUME RuntimeTypes, Progress, [RNext]_rvars
  PROVE  \A c \in {current', previous', pending', draft'} :
            c \in Checkpoint => NextEpoch(c) \in Epochs
  <1>1. epoch \in Nat /\ epoch \in Epochs
    BY EpochType DEF RuntimeTypes
  <1> SUFFICES ASSUME NEW c \in {current', previous', pending', draft'}, c \in Checkpoint
               PROVE  NextEpoch(c) \in Epochs
    OBVIOUS
  <1>2. CASE c \in {current, previous, pending, draft}
    BY <1>2 DEF RuntimeTypes
  <1>3. CASE c.meta = RuntimeRequest.meta
    BY <1>1, <1>3 DEF RuntimeRequest, NextEpoch
  <1>4. c \notin {Absent, Corrupt, None}
    BY StoreAssumption DEF StoreAssumption
  <1>5. QED
    BY <1>2, <1>3, <1>4, WrittenByThisProcess

\* A generation a search selects was in one of the files.
LEMMA SelectedFromFiles ==
  ASSUME TypeOK, NEW refused,
         Selected(Seen("current", current, refused), Seen("previous", previous, refused)) # None
  PROVE  /\ Selected(Seen("current", current, refused), Seen("previous", previous, refused))
              \in {current, previous}
         /\ Selected(Seen("current", current, refused), Seen("previous", previous, refused))
              \in Checkpoint
  BY StoreAssumption DEF StoreAssumption, Selected, Seen, Valid, TypeOK, File

LEMMA RuntimeTypesKept ==
  ASSUME RuntimeInvariant, [RNext]_rvars
  PROVE  RuntimeTypes'
  <1>1. RuntimeTypes /\ Progress /\ TypeOK'
    BY RepositoryKept DEF RuntimeInvariant, SaveInvariant
  <1>2. \A c \in {current', previous', pending', draft'} :
          c \in Checkpoint => NextEpoch(c) \in Epochs
    BY <1>1, EpochsKept
  <1> USE <1>1, <1>2 DEF RuntimeTypes
  <1>3. ASSUME NEW h \in Hosts, NEW hash \in Deployed, Launch(h, hash) PROVE RuntimeTypes'
    BY <1>3, RuntimeAssumption DEF RuntimeAssumption, Launch, history, SystemState
  <1>4. CASE OpenRepository
    BY <1>4 DEF OpenRepository, Raise, history
  <1>5. CASE LoadExisting
    BY <1>5 DEF LoadExisting, Raise
  <1>6. CASE Recover
    <2>1. epoch' \in Epochs
      <3>1. CASE epoch' = epoch
        BY <3>1
      <3>2. ASSUME NEW refused,
                   epoch' = NextEpoch(Selected(Seen("current", current, refused),
                                               Seen("previous", previous, refused))),
                   Selected(Seen("current", current, refused),
                            Seen("previous", previous, refused)) # None
            PROVE  epoch' \in Epochs
        BY <3>2, SelectedFromFiles
      <3>3. QED
        BY <1>6, <3>1, <3>2 DEF Recover, Ready
    <2>2. QED
      BY <1>6, <2>1 DEF Recover, Raise, history
  <1>7. CASE StartEngine
    BY <1>7 DEF StartEngine, SystemState
  <1>8. CASE SaveProceeds
    BY <1>8 DEF SaveProceeds, process
  <1>9. CASE CheckpointReturns
    BY <1>9 DEF CheckpointReturns, history
  <1>10. CASE Finalize
    BY <1>10 DEF Finalize, history, SystemState
  <1>11. CASE Close
    BY <1>11 DEF Close, history, SystemState
  <1>12. CASE Forget
    BY <1>12 DEF Forget, Epochs
  <1>13. ASSUME NEW target \in Targets, Transition(target) PROVE RuntimeTypes'
    BY <1>13, RuntimeAssumption DEF RuntimeAssumption, Transition, history
  <1>14. CASE RequestCheckpoint
    BY <1>14 DEF RequestCheckpoint, history
  <1>15. CASE Interrupt
    BY <1>15 DEF Interrupt, history, SystemState
  <1>16. CASE MediumDamages
    BY <1>16 DEF MediumDamages, process, history
  <1>17. CASE UNCHANGED rvars
    BY <1>17 DEF rvars, process, history
  <1>18. QED
    BY <1>3, <1>4, <1>5, <1>6, <1>7, <1>8, <1>9, <1>10, <1>11, <1>12, <1>13,
       <1>14, <1>15, <1>16, <1>17 DEF RuntimeInvariant, RNext, ProcessStep, Exit, ProcessDies

-----------------------------------------------------------------------------
(* The process and the save in progress.                                   *)

\* A save that goes on has a draft with what was asked for.
LEMMA DraftAsked ==
  ASSUME NEW req, BeginSave(req)
  PROVE  \/ pc' = "idle" /\ saved' = "FAILED"
         \/ /\ pc' = "write"
            /\ draft'.payload = req.payload
            /\ draft'.config = req.config
            /\ draft'.meta = req.meta
  BY DEF BeginSave, BuildDraft, NewCheckpoint

LEMMA ProgressKept ==
  ASSUME RuntimeTypes, Progress, [RNext]_rvars
  PROVE  Progress'
  <1> USE DEF Progress
  <1>1. ASSUME NEW h \in Hosts, NEW hash \in Deployed, Launch(h, hash) PROVE Progress'
    BY <1>1 DEF Launch, vars, history
  <1>2. CASE OpenRepository
    BY <1>2 DEF OpenRepository, Raise, history
  <1>3. CASE LoadExisting
    BY <1>3 DEF LoadExisting, Raise
  <1>4. CASE Recover
    BY <1>4 DEF Recover, Raise, history
  <1>5. CASE StartEngine
    BY <1>5 DEF StartEngine, vars, SystemState
  <1>6. CASE SaveProceeds
    <2>1. UNCHANGED <<phase, engine, config, epoch, gated>> /\ (pc' = "idle" \/ draft' = draft)
      BY <1>6 DEF SaveProceeds, process, SaveStep, WriteTemporary, FlushTemporary,
         VerifyTemporary, PreserveCurrent, Promote, FinishSave, SaveFails
    <2>2. pc # "idle"
      BY <1>6 DEF SaveProceeds, SaveStep, WriteTemporary, FlushTemporary,
         VerifyTemporary, PreserveCurrent, Promote, FinishSave, SaveFails
    <2>3. QED
      BY <2>1, <2>2 DEF Own
  <1>7. CASE CheckpointReturns
    BY <1>7 DEF CheckpointReturns, vars, history
  <1>8. CASE RequestCheckpoint \/ (Finalize /\ phase' = "closing")
    <2>1. /\ UNCHANGED <<engine, config, epoch, gated>>
          /\ engine \in SystemState \ {"STOPPED"}
          /\ \/ phase' = "saving" /\ gated
             \/ phase' = "closing"
      BY <1>8 DEF RequestCheckpoint, Finalize, BeginSave, history, SystemState
    <2>2. pc' = "idle" \/ Own(draft)'
      BY <1>8, <2>1, DraftAsked DEF Own, RequestCheckpoint, Finalize, RuntimeRequest
    <2>3. QED
      BY <2>1, <2>2
  <1>9. CASE Finalize /\ UNCHANGED vars
    BY <1>9 DEF Finalize, vars, history, SystemState, BeginSave
  <1>10. CASE Close
    BY <1>10 DEF Close, vars, history
  <1>11. CASE Forget
    BY <1>11 DEF Forget, Crash
  <1>12. ASSUME NEW target \in Targets, Transition(target) PROVE Progress'
    BY <1>12, RuntimeAssumption DEF RuntimeAssumption, Transition, vars, history
  <1>13. CASE Interrupt
    BY <1>13 DEF Interrupt, vars, history
  <1>14. CASE MediumDamages
    BY <1>14 DEF MediumDamages, Damage, process, history, Own
  <1>15. CASE UNCHANGED rvars
    BY <1>15 DEF rvars, vars, process, history, Own
  <1>16. QED
    BY <1>1, <1>2, <1>3, <1>4, <1>5, <1>6, <1>7, <1>8, <1>9, <1>10, <1>11, <1>12,
       <1>13, <1>14, <1>15 DEF RNext, ProcessStep, Exit, ProcessDies, Finalize

-----------------------------------------------------------------------------
(* What the next process will read.                                        *)

\* The gate lets only an unrestricted checkpoint of this configuration pass.
LEMMA GatePasses ==
  ASSUME NEW c \in Checkpoint, NEW chain, NEW used, Ready(Gate(c, chain, used, config))
  PROVE  Unrestricted(c)
  <1>1. c.payload \in StatePayload /\ c.meta \in StateMeta
    BY RuntimeAssumption DEF RuntimeAssumption, Checkpoint
  <1>2. c.payload.keys \in {"unique", "repeated"} /\ c.payload.objects \in {"owned", "orphaned"}
    BY <1>1 DEF StatePayload
  <1>3. QED
    BY <1>2 DEF Ready, Gate, Unrestricted, ProtectedStates

\* On a sound medium recover goes on with the checkpoint a reader gets.
LEMMA RecoverPasses ==
  ASSUME TypeOK, Undamaged, Recover, faults' = faults, phase' = "start"
  PROVE  /\ Unrestricted(Latest)
         /\ epoch' = NextEpoch(Latest)
  <1>1. PICK refused, unread, moved \in SUBSET Generations :
          LET cur   == Seen("current", current, refused)
              prv   == Seen("previous", previous, refused)
              found == Selected(cur, prv)
              chain == ChainIntact(Seen("current", current', unread),
                                   Seen("previous", previous', unread))
              outcome == IF found = None THEN "CORRUPTED"
                         ELSE Gate(found, chain, fallback', config)
          IN /\ Refuse(refused \cup unread)
             /\ LoadFiles(cur, prv, moved)
             /\ Ready(outcome)
             /\ epoch' = NextEpoch(found)
    BY DEF Recover, Raise
  <1>2. /\ Seen("current", current, refused) = current
        /\ Seen("previous", previous, refused) = previous
    BY <1>1, SearchSeesFiles
  <1> DEFINE chain == ChainIntact(Seen("current", current', unread),
                                  Seen("previous", previous', unread))
  <1>3. /\ Ready(IF Latest = None THEN "CORRUPTED" ELSE Gate(Latest, chain, fallback', config))
        /\ epoch' = NextEpoch(Latest)
    BY <1>1, <1>2 DEF Latest
  <1>4. Ready(Gate(Latest, chain, fallback', config))
    BY <1>3 DEF Ready
  <1>5. Latest \in Checkpoint
    BY <1>3, SelectedType DEF Ready, Latest, TypeOK
  <1>6. QED
    BY <1>3, <1>4, <1>5, GatePasses

\* On a sound medium what a reader gets changes only by a promotion, to the
\* draft of the save in progress.
LEMMA LatestMoves ==
  ASSUME TypeOK, Undamaged, TypeOK', Undamaged', RuntimeTypes, Progress,
         [RNext]_rvars, faults' = faults
  PROVE  \/ Latest' = Latest /\ current' = current
         \/ /\ SaveProceeds /\ Promote
            /\ Latest' = draft /\ draft \in Checkpoint
            /\ current' = draft
  <1>1. /\ Latest = IF current = Absent THEN None ELSE current
        /\ Latest' = IF current' = Absent THEN None ELSE current'
    <2>1. Latest' = Selected(current', previous')
      BY DEF Latest
    <2>2. QED
      BY <2>1, LatestIsCurrent DEF Undamaged, Selected, Valid
  <1>2. CASE current' = current
    BY <1>1, <1>2
  <1>3. CASE SaveProceeds /\ Promote
    BY <1>1, <1>3, StoreAssumption DEF StoreAssumption, Promote, Undamaged, TypeOK
  <1>4. current' = current \/ (SaveProceeds /\ Promote)
    <2>1. CASE RepositoryStep
      <3>1. CASE LatestValid
        BY <3>1, SearchLeavesFiles
      <3>2. ~Damage
        BY StoreAssumption DEF StoreAssumption, Damage, TypeOK
      <3>3. Promote => SaveProceeds
        BY DEF Promote, RNext, ProcessStep, Launch, OpenRepository, LoadExisting,
           Recover, StartEngine, CheckpointReturns, Finalize, Close, Exit, ProcessDies,
           Forget, Transition, RequestCheckpoint, Interrupt, MediumDamages, Crash,
           Damage, BeginSave, rvars, vars
      <3>4. QED
        BY <2>1, <3>1, <3>2, <3>3 DEF RepositoryStep, SaveStep, WriteTemporary,
           FlushTemporary, VerifyTemporary, PreserveCurrent, FinishSave, SaveFails,
           Initialize, Crash, vars
    <2>2. CASE RecoverySearch
      BY <2>2, SearchSeesFiles DEF RecoverySearch
    <2>3. CASE BeginSave(RuntimeRequest)
      BY <2>3 DEF BeginSave
    <2>4. QED
      BY <2>1, <2>2, <2>3, StepOfRepository
  <1>5. QED
    BY <1>2, <1>3, <1>4

LEMMA HandedKept ==
  ASSUME RuntimeTypes, Progress, TypeOK', Undamaged, Undamaged', Handed,
         [RNext]_rvars, faults' = faults
  PROVE  Handed'
  <1>1. TypeOK
    BY DEF RuntimeTypes
  <1>2. \/ Latest' = Latest /\ current' = current
        \/ /\ SaveProceeds /\ Promote
           /\ Latest' = draft /\ draft \in Checkpoint
           /\ current' = draft
    BY <1>1, LatestMoves
  <1> USE DEF Handed
  <1>3. ASSUME NEW h \in Hosts, NEW hash \in Deployed, Launch(h, hash) PROVE Handed'
    <2>1. /\ Latest' = Latest /\ ~gated' /\ phase' \notin {"closing", "start"}
          /\ UNCHANGED <<authority, overwrote>>
      BY <1>2, <1>3 DEF Launch, vars, history, Progress, SaveProceeds
    <2>2. QED
      BY <2>1
  <1>4. CASE OpenRepository
    <2>1. /\ Latest' = Latest /\ ~gated' /\ phase' \notin {"closing", "start"}
          /\ UNCHANGED <<authority, overwrote>>
      BY <1>2, <1>4 DEF OpenRepository, Raise, history, Progress, SaveProceeds
    <2>2. QED
      BY <2>1
  <1>5. CASE LoadExisting
    <2>1. /\ Latest' = Latest /\ ~gated' /\ phase' # "closing"
          /\ UNCHANGED <<authority, overwrote>>
      BY <1>2, <1>5 DEF LoadExisting, Raise, Progress, SaveProceeds
    <2>2. phase' = "start" => Latest = None
      <3>1. PICK refused, moved \in SUBSET Generations :
              LET cur == Seen("current", current, refused)
                  prv == Seen("previous", previous, refused)
              IN /\ Refuse(refused)
                 /\ LoadFiles(cur, prv, moved)
                 /\ phase' = "start" => cur = Absent /\ prv = Absent
        BY <1>5 DEF LoadExisting, Raise
      <3>2. refused \cup {} = refused
        OBVIOUS
      <3>3. /\ Seen("current", current, refused) = current
            /\ Seen("previous", previous, refused) = previous
        BY <1>1, <3>1, <3>2, SearchSeesFiles
      <3>4. QED
        BY <3>1, <3>3 DEF Latest, Selected, Valid
    <2>3. QED
      BY <2>1, <2>2
  <1>6. CASE Recover
    <2>1. /\ Latest' = Latest /\ ~gated' /\ phase' # "closing"
          /\ UNCHANGED <<authority, overwrote, config>>
      BY <1>2, <1>6 DEF Recover, Raise, history, Progress, SaveProceeds
    <2>2. phase' = "start" => Unrestricted(Latest)' /\ epoch' = NextEpoch(Latest)
      BY <1>1, <1>6, <2>1, RecoverPasses DEF Unrestricted
    <2>3. Latest # None => Latest \in Checkpoint /\ NextEpoch(Latest) \in Nat
      <3>1. Latest # None => Latest \in Checkpoint /\ Latest \in {current, previous}
        BY <1>1, StoreAssumption DEF StoreAssumption, Latest, Selected, Valid, TypeOK, File
      <3>2. QED
        BY <3>1, EpochType DEF RuntimeTypes
    <2>4. NextEpoch(Latest)' = NextEpoch(Latest')
      BY DEF NextEpoch
    <2>5. QED
      BY <2>1, <2>2, <2>3, <2>4 DEF Unrestricted, NextEpoch
  <1>7. CASE StartEngine
    <2>1. /\ Latest' = Latest /\ phase' = "serve" /\ phase = "start"
          /\ UNCHANGED <<authority, overwrote, epoch>>
      BY <1>2, <1>7 DEF StartEngine, Promote, vars, SaveProceeds
    <2>2. QED
      BY <2>1 DEF NextEpoch
  <1>8. CASE SaveProceeds
    <2>1. UNCHANGED <<phase, engine, config, epoch, gated>> /\ phase # "start"
      BY <1>8 DEF SaveProceeds, process
    <2>2. pc # "idle" /\ draft \in Checkpoint /\ Own(draft)
      BY <1>1, <1>8 DEF SaveProceeds, SaveStep, WriteTemporary, FlushTemporary,
         VerifyTemporary, PreserveCurrent, Promote, FinishSave, SaveFails, Progress,
         TypeOK, Own
    <2>3. (pc' = "idle" /\ saved' = "OK") => Latest' = acked' /\ acked' # None /\ Own(acked)'
      <3>1. SUFFICES ASSUME pc' = "idle", saved' = "OK"
                     PROVE  Latest' = acked' /\ acked' # None /\ Own(acked)'
        OBVIOUS
      <3>2. FinishSave
        BY <1>8, <3>1 DEF SaveProceeds, SaveStep, WriteTemporary, FlushTemporary,
           VerifyTemporary, PreserveCurrent, Promote, FinishSave, SaveFails
      <3>3. current = draft /\ acked' = draft /\ current' = current
        BY <3>2 DEF FinishSave, Undamaged
      <3>4. draft # Absent /\ draft # None
        BY <2>2, StoreAssumption DEF StoreAssumption
      <3>5. Latest = draft /\ Latest' = Latest
        BY <1>1, <1>2, <3>2, <3>3, <3>4, LatestIsCurrent DEF FinishSave, Promote
      <3>6. QED
        BY <2>1, <2>2, <3>3, <3>4, <3>5 DEF Own
    <2>4. CASE Latest' = Latest /\ current' = current
      <3>1. UNCHANGED <<authority, overwrote>>
        BY <1>8, <2>4 DEF SaveProceeds
      <3>2. QED
        BY <2>1, <2>3, <2>4, <3>1 DEF NextEpoch
    <2>5. CASE current' # current /\ Latest' = draft
      <3>1. ~overwrote' => gated /\ authority' = draft
        BY <1>8, <2>5 DEF SaveProceeds, RuntimeTypes
      <3>2. NextEpoch(draft) = epoch /\ epoch \in Nat
        <4>1. epoch \in Nat
          BY EpochType DEF RuntimeTypes
        <4>2. draft.meta.clean \in BOOLEAN
          BY <2>2, RuntimeAssumption DEF RuntimeAssumption, Checkpoint, StateMeta
        <4>3. draft.meta.clean = TRUE /\ draft.meta.epoch = epoch
          BY <2>2, <4>2 DEF Own
        <4>4. QED
          BY <4>1, <4>3 DEF NextEpoch
      <3>3. QED
        BY <2>1, <2>3, <2>5, <3>1, <3>2 DEF NextEpoch
    <2>6. current' = current => Latest' = Latest
      <3>1. draft # Absent
        BY <2>2, StoreAssumption DEF StoreAssumption
      <3>2. QED
        BY <1>1, <1>2, <3>1, LatestIsCurrent
    <2>7. QED
      BY <1>2, <2>4, <2>5, <2>6
  <1>9. CASE \/ CheckpointReturns
             \/ \E target \in Targets : Transition(target)
             \/ RequestCheckpoint
             \/ Interrupt
             \/ Finalize
             \/ Close
    <2>1. UNCHANGED <<authority, overwrote, epoch, gated>> /\ phase' # "start"
      BY <1>9 DEF CheckpointReturns, Transition, RequestCheckpoint, Interrupt,
         Finalize, Close, history
    <2>2. Latest' = Latest
      BY <1>2, <1>9 DEF Promote, CheckpointReturns, Transition, RequestCheckpoint,
         Interrupt, Finalize, Close, BeginSave, vars
    <2>3. phase' = "closing" => pc' # "idle" \/ saved' # "OK"
      BY <1>9, DraftAsked DEF CheckpointReturns, Transition, RequestCheckpoint, Interrupt,
         Finalize, Close
    <2>4. QED
      BY <2>1, <2>2, <2>3 DEF NextEpoch
  <1>10. CASE Forget
    <2>1. /\ Latest' = Latest /\ ~gated' /\ phase' = "off"
          /\ UNCHANGED <<authority, overwrote>>
      BY <1>2, <1>10 DEF Forget, Crash, Promote
    <2>2. QED
      BY <2>1
  <1>11. ~MediumDamages
    BY <1>1, StoreAssumption DEF StoreAssumption, MediumDamages, Damage, TypeOK
  <1>12. CASE UNCHANGED rvars
    BY <1>12 DEF rvars, vars, process, history, Latest, Own, Unrestricted, NextEpoch
  <1>13. QED
    BY <1>3, <1>4, <1>5, <1>6, <1>7, <1>8, <1>9, <1>10, <1>11, <1>12
       DEF RNext, ProcessStep, Exit, ProcessDies

-----------------------------------------------------------------------------
(* The inductive invariant, and what follows from it.                      *)

LEMMA RuntimeInvariantInit == RInit => RuntimeInvariant
  <1> SUFFICES ASSUME RInit PROVE RuntimeInvariant
    OBVIOUS
  <1>1. current \in Checkpoint \cup {Absent} /\ (current \in Checkpoint => current \in Seeds)
    BY StoreAssumption, RuntimeAssumption DEF StoreAssumption, RuntimeAssumption, RInit
  <1>2. TypeOK
    <2>1. faults \in 0..MaxFaults
      BY StoreAssumption DEF StoreAssumption, RInit
    <2>2. fallback \in BOOLEAN
      BY DEF RInit
    <2>3. QED
      BY <1>1, <2>1, <2>2 DEF RInit, TypeOK, File
  <1>3. \A c \in {current, previous, pending, draft} : c \in Checkpoint => NextEpoch(c) \in Epochs
    BY <1>1, StoreAssumption DEF StoreAssumption, RInit, Epochs
  <1>4. RuntimeTypes
    <2>1. gated \in BOOLEAN /\ overwrote \in BOOLEAN
      BY DEF RInit
    <2>2. epoch \in Epochs /\ config \in Config
      BY RuntimeAssumption DEF RuntimeAssumption, RInit, Epochs
    <2>3. QED
      BY <1>2, <1>3, <2>1, <2>2 DEF RuntimeTypes, RInit
  <1>5. Undamaged
    BY <1>1, StoreAssumption DEF StoreAssumption, RInit, Undamaged, ChainIntact
  <1>6. Latest = authority
    BY <1>1, StoreAssumption DEF StoreAssumption, RInit, Latest, Selected, Valid
  <1>7. QED
    BY <1>4, <1>5, <1>6 DEF RInit, RuntimeInvariant, Progress, Handed

LEMMA RuntimeInvariantNext == RuntimeInvariant /\ [RNext]_rvars => RuntimeInvariant'
  <1> SUFFICES ASSUME RuntimeInvariant, [RNext]_rvars PROVE RuntimeInvariant'
    OBVIOUS
  <1>1. RuntimeTypes /\ Progress /\ TypeOK
    BY DEF RuntimeInvariant, RuntimeTypes
  <1>2. RuntimeTypes' /\ Progress'
    BY <1>1, RuntimeTypesKept, ProgressKept
  <1>3. SaveInvariant'
    BY RepositoryKept
  <1>4. ASSUME faults' = 0 PROVE Undamaged' /\ Handed'
    <2>1. faults \in Nat
      BY <1>1, StoreAssumption DEF StoreAssumption, TypeOK
    <2>2. faults' = faults
      BY <1>1, <1>4, <2>1, RuntimeFaultsCounted
    <2>3. Undamaged /\ Handed
      BY <1>4, <2>2 DEF RuntimeInvariant
    <2>4. TypeOK' /\ Undamaged'
      BY <1>3, <1>4 DEF SaveInvariant
    <2>5. QED
      BY <1>1, <2>2, <2>3, <2>4, HandedKept
  <1>5. QED
    BY <1>2, <1>4 DEF RuntimeInvariant

\* The files, the process and what it read and wrote fit together.
THEOREM RuntimeInvariantHolds == RSpec => []RuntimeInvariant
  BY RuntimeInvariantInit, RuntimeInvariantNext, PTL DEF RSpec

\* Neither a refused start nor what a process saves on its way out costs the
\* repository its own guarantees.
THEOREM HostedRepositorySafe ==
  RSpec => [](GenerationsNeverTorn /\ AcknowledgedSurvives /\ ChainOrInterrupted)
  <1>1. RuntimeInvariant => SaveInvariant
    BY DEF RuntimeInvariant, RuntimeTypes, SaveInvariant
  <1>2. QED
    BY <1>1, InvariantImplies, RuntimeInvariantHolds, PTL

\* The engine starts only on what the last gated process left, and only if
\* nothing in it forbids to run (start, recover).
THEOREM AuthorityStarts == RSpec => []StartsFromAuthority
  <1>1. RuntimeInvariant => StartsFromAuthority
    BY DEF RuntimeInvariant, Handed, StartsFromAuthority
  <1>2. QED
    BY <1>1, RuntimeInvariantHolds, PTL

LEMMA EpochNeverFalls ==
  ASSUME RuntimeInvariant, [RNext]_rvars, Latest # None, Latest' # None,
         Latest' # Latest, faults' = 0, ~overwrote'
  PROVE  Latest'.meta.epoch >= NextEpoch(Latest)
  <1>1. RuntimeTypes /\ Progress /\ TypeOK
    BY DEF RuntimeInvariant, RuntimeTypes
  <1>2. faults \in Nat
    BY <1>1, StoreAssumption DEF StoreAssumption, TypeOK
  <1>3. faults' = faults
    BY <1>1, <1>2, RuntimeFaultsCounted
  <1>4. Undamaged /\ Handed
    BY <1>3 DEF RuntimeInvariant
  <1>5. TypeOK' /\ Undamaged'
    BY RepositoryKept DEF SaveInvariant
  <1>6. SaveProceeds /\ Promote /\ Latest' = draft
    BY <1>1, <1>3, <1>4, <1>5, LatestMoves
  <1>7. gated /\ ~overwrote
    <2>1. current' # current
      BY <1>1, <1>3, <1>4, <1>5, LatestIsCurrent, LatestMoves DEF Latest
    <2>2. QED
      BY <1>1, <1>6, <2>1 DEF SaveProceeds, RuntimeTypes
  <1>8. NextEpoch(Latest) <= epoch
    BY <1>4, <1>7 DEF Handed
  <1>9. draft.meta.epoch = epoch
    BY <1>1, <1>6 DEF Progress, Own, Promote
  <1>10. epoch \in Nat /\ NextEpoch(Latest) \in Nat
    <2>1. Latest \in Checkpoint /\ Latest \in {current, previous}
      BY <1>1, StoreAssumption DEF StoreAssumption, Latest, Selected, Valid, TypeOK, File
    <2>2. QED
      BY <1>1, <2>1, EpochType DEF RuntimeTypes
  <1>11. QED
    BY <1>6, <1>8, <1>9, <1>10

LEMMA StopsDurably ==
  ASSUME RuntimeInvariant, [RNext]_rvars, phase = "closing", engine' = "STOPPED", faults = 0
  PROVE  /\ Latest = acked
         /\ acked # None
         /\ acked.payload.system = engine
         /\ acked.config = config
         /\ acked.meta.epoch = epoch
  <1>1. engine # "STOPPED"
    BY DEF RuntimeInvariant, Progress
  <1>2. Close /\ saved = "OK"
    BY <1>1 DEF RNext, ProcessStep, Launch, OpenRepository, LoadExisting,
       Recover, StartEngine, SaveProceeds, CheckpointReturns, Finalize, Close, Exit,
       ProcessDies, Forget, Transition, RequestCheckpoint, Interrupt, MediumDamages,
       process, rvars
  <1>3. QED
    BY <1>2 DEF Close, RuntimeInvariant, Handed, Own

\* However a process ends, the recovery epoch never goes back, and STOPPED
\* means that the next process will find what this one wrote (checkpoint,
\* shutdown).
THEOREM EndsWithDurableState == RSpec => EndsDurably
  <1>1. ASSUME RuntimeInvariant, [RNext]_rvars
        PROVE  [(/\ Latest # None /\ Latest' # None /\ Latest' # Latest
                 /\ faults' = 0 /\ ~overwrote')
                    => Latest'.meta.epoch >= NextEpoch(Latest)]_rvars
    BY <1>1, EpochNeverFalls
  <1>2. ASSUME RuntimeInvariant, [RNext]_rvars
        PROVE  [(phase = "closing" /\ engine' = "STOPPED" /\ faults = 0) =>
                  /\ Latest = acked
                  /\ acked # None
                  /\ acked.payload.system = engine
                  /\ acked.config = config
                  /\ acked.meta.epoch = epoch]_rvars
    BY <1>2, StopsDurably
  <1>3. RSpec => EpochAdvances
    BY <1>1, RuntimeInvariantHolds, PTL DEF RSpec, EpochAdvances
  <1>4. RSpec => StopsOnlyAfterDurableSave
    BY <1>2, RuntimeInvariantHolds, PTL DEF RSpec, StopsOnlyAfterDurableSave
  <1>5. QED
    BY <1>3, <1>4 DEF EndsDurably
=============================================================================
