---------------------------- MODULE AtomicStore ----------------------------
(***************************************************************************)
(* What the checkpoint repository promises its callers while the storage   *)
(* keeps what was written to it: one durable register.  A save takes       *)
(* effect in a single step that links the new checkpoint to the one it     *)
(* replaces, and only an effective save is ever acknowledged.  Crashes and *)
(* I/O errors are stuttering steps here.  Once the medium has damaged a    *)
(* file (damaged) nothing is promised.                                     *)
(***************************************************************************)
EXTENDS Naturals

CONSTANTS Checkpoint,     \* the checkpoints that can be stored
          IdOf(_),        \* the identity of a checkpoint
          None            \* no checkpoint

VARIABLES stored,         \* the checkpoint a reader gets
          acked,          \* the last checkpoint whose save reported success
          damaged         \* the medium has lost something

avars == <<stored, acked, damaged>>

AInit == stored = None /\ acked = None /\ damaged = FALSE

\* A save takes effect.
Commit ==
  /\ stored' \in Checkpoint
  /\ stored'.seq  = (IF stored = None THEN 1 ELSE stored.seq + 1)
  /\ stored'.prev = (IF stored = None THEN None ELSE IdOf(stored))
  /\ UNCHANGED <<acked, damaged>>

\* A save that took effect is reported to its caller.
Acknowledge ==
  /\ stored # None
  /\ acked' = stored
  /\ UNCHANGED <<stored, damaged>>

\* The medium fails, or has failed: anything may be lost.
Damaged == damaged' = TRUE

ANext == Commit \/ Acknowledge \/ Damaged

ASpec == AInit /\ [][ANext]_avars
=============================================================================
