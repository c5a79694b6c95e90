--------------------------- MODULE Observability ---------------------------
(***************************************************************************)
(* ObservabilityService of src/src/amrte/core/observability.py with its    *)
(* sink JsonLinesSink, NotificationDeduplicator, and ErrorManager of       *)
(* src/src/amrte/core/error_management.py, which emits events.             *)
(*                                                                         *)
(* The service is one record, journal.  An event's hash stands for its     *)
(* content, so that the number of the event before stands for the link.    *)
(* What a call emits, Emitted, is composed of the steps of the pipeline:   *)
(* deduplicate, number and link, retain, write.                            *)
(***************************************************************************)
EXTENDS Evidence, Store

CONSTANTS
  Inputs,         \* what callers emit: [code, audit, severity, size]
  ErrorCodes,     \* codes of captured errors
  Keys,           \* notification keys
  MinimumSeverity,\* minimum_severity and verbosity: the lowest rank that is emitted
  MaxHistory,     \* maximum_history (the code takes no less than 10)
  MaxFileBytes, RotationCount, MaxTotalBytes,   \* of the JSON lines sink
  StormThreshold, StormWindow,                  \* of the error manager
  NotifyCooldown, \* cooldown_seconds of a notification
  MaximumAttempts,\* maximum_attempts of a RetryPolicy
  MaxEvents,      \* bound: events emitted
  MaxNotices      \* bound: occurrences of a notification key

VARIABLES
  clock,          \* what the clock says
  journal,        \* the service
  windows,        \* the error manager's windows, by code
  announced,      \* history: a storm was reported since the window was below the threshold
  notices,        \* states of the notification deduplicator
  occurred,       \* history: occurrences of a key, when and whether notified
  committed,      \* idempotency keys in the ledger
  succeeded       \* history: how often the operation of a key succeeded

journalVars == <<clock, journal, windows, announced, notices, occurred, committed, succeeded>>

\* DEBUG, INFO, WARNING, ERROR, CRITICAL
SeverityRank == 0..4
INFO == 1
ERROR == 3

ObservabilityHealth == {"HEALTHY", "DEGRADED", "UNAVAILABLE", "CORRUPTED"}

ASSUME JournalAssumption ==
  /\ \A i \in Inputs : i.audit \in BOOLEAN /\ i.severity \in SeverityRank /\ i.size \in Nat \ {0}
  /\ MinimumSeverity \in SeverityRank /\ MaxHistory \in Nat \ {0}
  /\ {MaxFileBytes, RotationCount, MaxTotalBytes, StormThreshold, MaximumAttempts} \subseteq Nat \ {0}
  /\ {StormWindow, NotifyCooldown, MaxEvents, MaxNotices} \subseteq Nat
  /\ None \notin Time

\* The codes of what is emitted.
Codes == {i.code : i \in Inputs} \cup {"ERR_ESCALATED", "ERR_CAPTURED", "ERR_STORM"}

\* What the properties tell apart of an event.
StructuredEvent ==
  [sequence : Nat, previous : Nat, at : Time, code : Codes, audit : BOOLEAN,
   severity : SeverityRank, size : Nat]

NotificationState == [first : Time, last : Time, count : Nat, level : Nat]

ASSUME NoNoticeIsNone == None \notin NotificationState

FreshJournal ==
  [sequence |-> 0, history |-> <<>>, health |-> "HEALTHY", dropped |-> 0,
   dedupe |-> [c \in {} |-> 0], files |-> <<<<>>>>]

(***************************************************************************)
(* JsonLinesSink.  The first file is the current one (empty: there is      *)
(* none), the others are the rotated ones, the newest first.               *)
(***************************************************************************)

Bytes(file) == SumOver([i \in DOMAIN file |-> file[i].size], DOMAIN file)

TotalBytes(files) == SumOver([i \in DOMAIN files |-> Bytes(files[i])], DOMAIN files)

\* rotate: the oldest of RotationCount rotated files is deleted.
Rotated(files) ==
  LET shifted == <<<<>>>> \o files
  IN SubSeq(shifted, 1, Least(Len(shifted), RotationCount + 1))

\* apply_retention: the oldest rotated files are deleted while the total is
\* not below the limit, whatever the size of the event that is to be written.
Retention(files) ==
  LET low == {n \in 1..Len(files) :
                n = 1 \/ TotalBytes(SubSeq(files, 1, n)) < MaxTotalBytes}
  IN SubSeq(files, 1, Max(low))

\* The files after rotation and retention.
FilesFor(files, e) ==
  LET turned == IF files[1] # <<>> /\ Bytes(files[1]) + e.size > MaxFileBytes
                THEN Rotated(files) ELSE files
  IN IF TotalBytes(turned) + e.size > MaxTotalBytes THEN Retention(turned) ELSE turned

\* write: refused when one event is too large, or the total still is.
Refused(files, e) ==
  \/ e.size > MaxFileBytes
  \/ TotalBytes(FilesFor(files, e)) + e.size > MaxTotalBytes

Written(files, e) ==
  IF e.size > MaxFileBytes THEN files
  ELSE IF Refused(files, e) THEN FilesFor(files, e)
  ELSE [FilesFor(files, e) EXCEPT ![1] = Append(@, e)]

(***************************************************************************)
(* ObservabilityService.                                                   *)
(***************************************************************************)

\* _should_emit
ShouldEmit(input) ==
  input.severity >= ERROR \/ input.audit \/ input.severity >= MinimumSeverity

\* _should_dedupe: within a second of the last event of the code.
Repeated(j, input) ==
  /\ ~input.audit
  /\ input.code \in DOMAIN j.dedupe
  /\ clock - j.dedupe[input.code] <= 1

\* The events of the history that may make room for another.
Removable(history) ==
  {i \in DOMAIN history : ~history[i].audit /\ history[i].severity <= INFO}

\* Mutant: the oldest event goes, whatever it is.
RetainedOldest(j, e) ==
  IF Len(j.history) < MaxHistory THEN [j EXCEPT !.history = Append(@, e)]
  ELSE [j EXCEPT !.history = Append(Tail(@), e), !.dropped = @ + 1]

\* _retain
Retained(j, e) ==
  IF Len(j.history) < MaxHistory THEN [j EXCEPT !.history = Append(@, e)]
  ELSE IF Removable(j.history) = {}
  THEN [j EXCEPT !.health = "DEGRADED", !.dropped = @ + 1]
  ELSE [j EXCEPT !.history = Append(RemoveAt(@, Min(Removable(j.history))), e),
                 !.dropped = @ + 1]

\* _route to the file and to a sink without authority, and _sink_failure: an
\* error of the medium is fails; the sinks come in this order.
Routed(j, e, fails, optionalFails) ==
  LET lost == fails \/ Refused(j.files, e)
  IN [j EXCEPT !.files = IF fails THEN @ ELSE Written(@, e),
               !.health = IF optionalFails THEN "DEGRADED"
                          ELSE IF lost THEN "UNAVAILABLE" ELSE @]

\* emit
Emitted(j, input, fails, optionalFails) ==
  IF ~ShouldEmit(input) \/ Repeated(j, input) THEN j
  ELSE LET e == [sequence |-> j.sequence + 1, previous |-> j.sequence, at |-> clock,
                 code |-> input.code, audit |-> input.audit,
                 severity |-> input.severity, size |-> input.size]
           numbered == [j EXCEPT !.sequence = @ + 1,
                                 !.dedupe = IF input.audit THEN @
                                            ELSE [c \in DOMAIN @ \cup {input.code} |->
                                                    IF c = input.code THEN clock ELSE @[c]]]
       IN Routed(Retained(numbered, e), e, fails, optionalFails)

Emit(input, fails, optionalFails) ==
  /\ journal.sequence < MaxEvents
  /\ journal' = Emitted(journal, input, fails, optionalFails)
  /\ UNCHANGED <<clock, windows, announced, notices, occurred, committed, succeeded>>

\* verify_chain, over what the history retains.
ChainHolds(history) ==
  \A i \in 1..(Len(history) - 1) : history[i + 1].previous = history[i].sequence

VerifyChain ==
  /\ ~ChainHolds(journal.history)
  /\ journal' = [journal EXCEPT !.health = "CORRUPTED"]
  /\ UNCHANGED <<clock, windows, announced, notices, occurred, committed, succeeded>>

(***************************************************************************)
(* ErrorManager.                                                           *)
(***************************************************************************)

\* capture: the window of the code without what is older than its length.
WindowAfter(code) ==
  LET all  == Append(windows[code], clock)
      late == {i \in DOMAIN all : all[i] >= clock - StormWindow}
  IN SubSeq(all, Min(late), Len(all))

Escalated(window, severity) == Len(window) >= StormThreshold \/ severity = 4

\* Mutant: the storm is told one event late.
StormReachedLate(window) == Len(window) = StormThreshold + 1

\* The report of a storm is due when the window has exactly the threshold.
StormReached(window) == Len(window) = StormThreshold

AuditEvent(code, severity) ==
  [code |-> code, audit |-> TRUE, severity |-> severity, size |-> 1]

Capture(code, severity) ==
  LET window == WindowAfter(code)
      first  == IF Escalated(window, severity)
                THEN Emitted(journal, AuditEvent("ERR_ESCALATED", 4), FALSE, FALSE)
                ELSE Emitted(journal, AuditEvent("ERR_CAPTURED", severity), FALSE, FALSE)
  IN /\ journal.sequence < MaxEvents
     /\ windows' = [windows EXCEPT ![code] = window]
     /\ journal' = IF StormReached(window)
                   THEN Emitted(first, AuditEvent("ERR_STORM", 4), FALSE, FALSE)
                   ELSE first
     /\ announced' = [announced EXCEPT ![code] =
                        Len(window) >= StormThreshold /\ (@ \/ StormReached(window))]
     /\ UNCHANGED <<clock, notices, occurred, committed, succeeded>>

(***************************************************************************)
(* NotificationDeduplicator.                                               *)
(***************************************************************************)

Due(key) == notices[key] = None \/ clock - notices[key].last >= NotifyCooldown

\* register: every occurrence moves the time the cooldown is counted from.
NoticeAfter(notice, due) ==
  IF notice = None THEN [first |-> clock, last |-> clock, count |-> 1, level |-> 1]
  ELSE [notice EXCEPT !.last = clock, !.count = @ + 1,
                      !.level = @ + (IF due THEN 1 ELSE 0)]

Register(key) ==
  /\ notices[key] # None => notices[key].count < MaxNotices
  /\ notices' = [notices EXCEPT ![key] = NoticeAfter(@, Due(key))]
  /\ occurred' = [occurred EXCEPT ![key] = Append(@, [at |-> clock, told |-> Due(key)])]
  /\ UNCHANGED <<clock, journal, windows, announced, committed, succeeded>>

(***************************************************************************)
(* ErrorManager.execute_with_retry, with the IdempotencyLedger of          *)
(* core/recovery.py.  What the attempts of a call would give is results.   *)
(***************************************************************************)

\* The attempts that are made: until one succeeds or fails for good.
Attempts(results) ==
  {n \in 1..Len(results) : \A i \in 1..(n - 1) : results[i] = "RETRYABLE"}

ExecuteWithRetry(key, results) ==
  LET done == {n \in Attempts(results) : results[n] = "SUCCESS"}
  IN /\ key \notin committed
     /\ committed' = IF done # {} THEN committed \cup {key} ELSE committed
     /\ succeeded' = [succeeded EXCEPT ![key] = @ + Cardinality(done)]
     /\ UNCHANGED <<clock, journal, windows, announced, notices, occurred>>

\* A clock of a machine may stand still, or be set.
SetClock(t) ==
  /\ clock' = t
  /\ UNCHANGED <<journal, windows, announced, notices, occurred, committed, succeeded>>

JournalInit ==
  /\ clock = 0 /\ journal = FreshJournal
  /\ windows = [c \in ErrorCodes |-> <<>>] /\ announced = [c \in ErrorCodes |-> FALSE]
  /\ notices = [k \in Keys |-> None] /\ occurred = [k \in Keys |-> <<>>]
  /\ committed = {} /\ succeeded = [k \in Keys |-> 0]

EmitNext ==
  \/ \E i \in Inputs, fails, optionalFails \in BOOLEAN : Emit(i, fails, optionalFails)
  \/ VerifyChain
  \/ \E t \in Time : SetClock(t)

CaptureNext ==
  \/ \E c \in ErrorCodes, s \in {2, 3, 4} : Capture(c, s)
  \/ \E t \in Time : SetClock(t)

RetryNext ==
  \/ \E k \in Keys, results \in [1..MaximumAttempts -> {"SUCCESS", "RETRYABLE", "FAILURE"}] :
       ExecuteWithRetry(k, results)
  \/ \E t \in Time : SetClock(t)

NotifyNext ==
  \/ \E k \in Keys : Register(k)
  \/ \E t \in Time : SetClock(t)

JournalNext == EmitNext \/ CaptureNext \/ NotifyNext \/ RetryNext

JournalSpec == JournalInit /\ [][JournalNext]_journalVars

-----------------------------------------------------------------------------
(* Properties.                                                             *)

JournalTypeOK == journal.health \in ObservabilityHealth /\ ToSet(journal.history) \subseteq StructuredEvent

\* The service's bounds and counts (_retain, write, rotate): the history and
\* the files keep within their limits whatever sizes come and fail, and the
\* files that are kept hold what they hold in the order of emission.
WithinLimits ==
  /\ JournalTypeOK
  /\ Len(journal.history) <= MaxHistory
  /\ Len(journal.files) <= RotationCount + 1
  /\ \A i \in DOMAIN journal.files : Bytes(journal.files[i]) <= MaxFileBytes
  /\ TotalBytes(journal.files) <= MaxTotalBytes
  /\ \A i, j \in DOMAIN journal.files :
       \A k \in DOMAIN journal.files[i], l \in DOMAIN journal.files[j] :
         i > j \/ (i = j /\ k < l) =>
           journal.files[i][k].sequence < journal.files[j][l].sequence

\* emit, _retain and verify_chain: the history is in the order of emission, and
\* as long as nothing was dropped it is the whole chain, so that a chain that
\* does not verify has been broken by the service's own retention.
ChainWhole ==
  /\ \A i \in 1..(Len(journal.history) - 1) :
       journal.history[i].sequence < journal.history[i + 1].sequence
  /\ journal.sequence - Len(journal.history) = journal.dropped
  /\ journal.dropped = 0 => ChainHolds(journal.history)

\* _retain: an audit event, a warning or an error that the history holds stays.
AuditKept ==
  [][ \A i \in DOMAIN journal.history :
        LET e == journal.history[i]
        IN e.audit \/ e.severity > INFO =>
             \E k \in DOMAIN journal'.history : journal'.history[k] = e
    ]_journalVars

\* capture: whenever the window of a code holds the threshold or more, the storm
\* has been reported since it last held less, although the report waits for
\* equality and the window moves both ways, and the clock too.
StormReported ==
  \A c \in ErrorCodes : Len(windows[c]) >= StormThreshold => announced[c]

\* register: two notifications of a key are never closer than its cooldown, as
\* long as the clock did not go back between them, and the first occurrence is
\* always notified.
NotificationsSpaced ==
  \A k \in Keys : \A i, j \in DOMAIN occurred[k] :
    /\ occurred[k][1].told
    /\ i < j /\ occurred[k][i].told /\ occurred[k][j].told =>
         \/ \E n \in i..(j - 1) : occurred[k][n + 1].at < occurred[k][n].at
         \/ occurred[k][j].at - occurred[k][i].at >= NotifyCooldown

\* execute_with_retry and IdempotencyLedger: an operation succeeds at most once
\* for a key unless the process ends between its success and the recovery state,
\* and not even the retries of one call repeat a success.
SucceededOnce == \A k \in Keys : succeeded[k] <= IF k \in committed THEN 1 ELSE 0

\* The journal keeps what it must: the chain as long as nothing was dropped, and
\* every audit event whatever is dropped, while the files keep their limits.
JournalKept == [](WithinLimits /\ ChainWhole) /\ AuditKept

\* Alarms are heard, once: a storm is reported although the window moves both ways,
\* a notification is not repeated within its cooldown, and a retry repeats no
\* success.
AlarmsHeard == StormReported /\ NotificationsSpaced /\ SucceededOnce
=============================================================================
