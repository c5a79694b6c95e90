------------------------------ MODULE Workflow ------------------------------
(***************************************************************************)
(* DeterministicWorkflowEngine of src/src/amrte/simulation/workflow.py:    *)
(* authorized units of work, submitted once per idempotency key, completed *)
(* in parts by events of a bounded ledger, retried, timed out, cancelled,  *)
(* and carried over a restart by a recovery state.  The engine's lock      *)
(* makes each call one step.  A submission's identity hashes its request,  *)
(* so that submissions and their events are indexed by requests; two       *)
(* requests may share a key.  Amounts are whole multiples of the smallest  *)
(* one.                                                                    *)
(***************************************************************************)
EXTENDS Integers, FiniteSets, Sequences, SequencesExt

CONSTANTS
  Key,              \* idempotency keys
  Requests,         \* the requests callers make
  Amount,           \* the amounts of work callers report as completed
  Cause,            \* the causation ids they report them with
  WorkStep,         \* work_step
  MinimumWork,      \* minimum_work
  MaximumWork,      \* maximum_work
  PartialAllowed,   \* completion_policy is PARTIAL_ALLOWED
  MaxRetries,       \* maximum_retries
  TimeoutAfter,     \* timeout_seconds
  MaxSubmissions,   \* maximum_submissions
  MaxEvents,        \* maximum_events
  None,             \* Python's None
  MaxTime,          \* bound: the timestamps callers pass
  MaxLosses         \* bound: records stored recovery states lose

Request == [key : Key, configured : BOOLEAN, authorized : Nat, requested : Nat,
            available : Nat, expires : Nat]

\* The states a submission can be in; the others of WorkflowState never occur.
WorkflowState == {"SUBMITTED", "ACKNOWLEDGED", "PARTIALLY_COMPLETED", "COMPLETED",
                  "REJECTED", "TIMED_OUT", "CANCELLED", "EXPIRED"}

Terminal == {"COMPLETED", "REJECTED", "CANCELLED", "EXPIRED"}

\* remaining_work is always authorized - completed.
Submission == [state : WorkflowState, authorized : Nat, completed : Nat, retries : Nat,
               sequence : Nat, updated : Nat, timeout : Nat, expires : Nat]

\* The state an event leads to gives its type.
Event == [sequence : Nat, to : WorkflowState, work : Nat, at : Nat,
          cause : Cause \cup {None}]

\* What validate accepts.
WorkflowConfiguration ==
  /\ WorkStep \in Nat \ {0}
  /\ MinimumWork \in Nat /\ MaximumWork \in Nat /\ MinimumWork <= MaximumWork
  /\ PartialAllowed \in BOOLEAN
  /\ MaxRetries \in Nat
  /\ {TimeoutAfter, MaxSubmissions, MaxEvents} \subseteq Nat \ {0}

ASSUME WorkflowAssumption ==
  /\ WorkflowConfiguration
  /\ Requests \subseteq Request
  /\ Amount \subseteq Nat
  /\ None \notin Request
  /\ None \notin Submission
  /\ MaxTime \in Nat
  /\ MaxLosses \in Nat

VARIABLES
  submission,       \* submissions, by request
  order,            \* the requests of the submissions, in the order of their insertion
  events,           \* ledger.by_submission: the events of each submission
  ledger,           \* ledger.events: whose event each is, in the order of insertion
  known,            \* _idempotency: the request submitted for each key
  backup,           \* the recovery state kept outside the engine
  original,         \* history: that recovery state as it was taken
  done,             \* history: the work accepted for each key
  losses            \* history: records recovery states have lost

engine  == <<submission, order, events, ledger, known, done>>
outside == <<backup, original, losses>>
vars    == <<engine, outside>>

Time == 0..MaxTime

-----------------------------------------------------------------------------
(* Helpers.                                                                *)

FloorWork(amount) == (amount \div WorkStep) * WorkStep

Least(a, b) == IF a <= b THEN a ELSE b

\* The work of a sequence of events.
WorkOf(es) ==
  LET sum[n \in 0..Len(es)] == IF n = 0 THEN 0 ELSE sum[n - 1] + es[n].work
  IN sum[Len(es)]

Remaining(s) == s.authorized - s.completed

\* popitem(last=False) when a bounded store has outgrown its limit.
Bounded(seq, limit) == IF Len(seq) > limit THEN Tail(seq) ELSE seq

\* The transitions of _transition.
AllowedTransitions ==
  [s \in WorkflowState |->
     CASE s = "SUBMITTED"           -> {"ACKNOWLEDGED", "REJECTED", "CANCELLED", "EXPIRED", "TIMED_OUT"}
       [] s = "ACKNOWLEDGED"        -> WorkflowState \ {"SUBMITTED", "ACKNOWLEDGED"}
       [] s = "PARTIALLY_COMPLETED" -> WorkflowState \ {"SUBMITTED", "ACKNOWLEDGED", "REJECTED"}
       [] s = "TIMED_OUT"           -> {"CANCELLED", "EXPIRED"}
       [] OTHER                     -> {}]

-----------------------------------------------------------------------------
(* process.                                                                *)

\* validate finds the request valid.
ValidRequest(r, asOf) ==
  /\ r.configured
  /\ r.available <= asOf
  /\ asOf < r.expires
  /\ r.requested <= r.authorized
  /\ r.requested <= MaximumWork
  /\ r.requested >= MinimumWork
  /\ FloorWork(r.requested) > 0

Save(r, s) ==
  LET queue == IF submission[r] # None THEN order ELSE Append(order, r)
      kept  == Bounded(queue, MaxSubmissions)
  IN /\ order' = kept
     /\ submission' = [q \in Requests |-> IF q \notin ToSet(kept) THEN None
                                          ELSE IF q = r THEN s ELSE submission[q]]

\* Mutant: a request whose key is known is submitted again.
ProcessUnkeyed(r, asOf) ==
  /\ submission[r] = None
  /\ ValidRequest(r, asOf)
  /\ Save(r, [state |-> "SUBMITTED", authorized |-> FloorWork(r.requested),
              completed |-> 0, retries |-> 0, sequence |-> 0, updated |-> asOf,
              timeout |-> asOf + TimeoutAfter, expires |-> r.expires])
  /\ known' = [known EXCEPT ![r.key] = r]
  /\ UNCHANGED <<events, ledger, done, outside>>

\* A request whose key is known returns the submission of that key, if it is
\* still there, and changes nothing.
Process(r, asOf) ==
  /\ known[r.key] = None
  /\ ValidRequest(r, asOf)
  /\ Save(r, [state |-> "SUBMITTED", authorized |-> FloorWork(r.requested),
              completed |-> 0, retries |-> 0, sequence |-> 0, updated |-> asOf,
              timeout |-> asOf + TimeoutAfter, expires |-> r.expires])
  /\ known' = [known EXCEPT ![r.key] = r]
  /\ UNCHANGED <<events, ledger, done, outside>>

-----------------------------------------------------------------------------
(* Events.                                                                 *)

\* The ledger accepts the event: the next of its submission.
Fits(r, e) ==
  /\ e \notin ToSet(events[r])
  /\ e.sequence = IF events[r] = <<>> THEN 1 ELSE Last(events[r]).sequence + 1

\* WorkflowEventLedger.append and _bound: the oldest event of all goes.
Record(r, e) ==
  LET queue == Append(ledger, r)
      grown == [events EXCEPT ![r] = Append(@, e)]
  IN /\ ledger' = Bounded(queue, MaxEvents)
     /\ events' = IF Len(queue) > MaxEvents THEN [grown EXCEPT ![Head(queue)] = Tail(@)]
                  ELSE grown

\* _transition commits an event and the submission it leads to.
Transition(r, to, work, asOf, cause) ==
  /\ submission[r] # None
  /\ LET s == submission[r]
         e == [sequence |-> s.sequence + 1, to |-> to, work |-> work, at |-> asOf,
               cause |-> cause]
     IN /\ to \in AllowedTransitions[s.state]
        /\ asOf >= s.updated
        /\ Fits(r, e)
        /\ Record(r, e)
        /\ Save(r, [s EXCEPT !.state = to, !.completed = @ + work,
                             !.sequence = @ + 1, !.updated = asOf])
  /\ done' = [done EXCEPT ![r.key] = @ + work]
  /\ UNCHANGED <<known, outside>>

\* acknowledge, reject and cancel.
Answer(r, to, asOf) ==
  /\ to \in {"ACKNOWLEDGED", "REJECTED", "CANCELLED"}
  /\ Transition(r, to, 0, asOf, None)

\* Mutant: a completion is not cut to what remains.
CompleteUncapped(r, amount, asOf, cause) ==
  /\ submission[r] # None
  /\ amount > 0
  /\ LET accepted == FloorWork(amount)
         whole    == accepted >= Remaining(submission[r])
     IN /\ whole \/ PartialAllowed
        /\ Transition(r, IF whole THEN "COMPLETED" ELSE "PARTIALLY_COMPLETED",
                      accepted, asOf, cause)

\* complete takes what remains at most, in whole steps, which may be nothing.
Complete(r, amount, asOf, cause) ==
  /\ submission[r] # None
  /\ amount > 0
  /\ LET remaining == Remaining(submission[r])
         accepted  == FloorWork(Least(amount, remaining))
         whole     == accepted = remaining
     IN /\ whole \/ PartialAllowed
        /\ Transition(r, IF whole THEN "COMPLETED" ELSE "PARTIALLY_COMPLETED",
                      accepted, asOf, cause)

Expire(r, asOf) ==
  /\ submission[r] # None
  /\ asOf >= submission[r].expires
  /\ Transition(r, "EXPIRED", 0, asOf, None)

TimeOut(r, asOf) ==
  /\ submission[r] # None
  /\ asOf >= submission[r].timeout
  /\ Transition(r, "TIMED_OUT", 0, asOf, None)

\* retry of a retryable failure, with any timestamp; the timeout stays.
Retry(r, asOf) ==
  /\ submission[r] # None
  /\ submission[r].retries < MaxRetries
  /\ submission[r].state \notin Terminal
  /\ Save(r, [submission[r] EXCEPT !.state = "SUBMITTED", !.retries = @ + 1,
                                   !.updated = asOf])
  /\ UNCHANGED <<events, ledger, known, done, outside>>

-----------------------------------------------------------------------------
(* recovery_state, restore, and what happens in between.  A recovery state  *)
(* holds nothing of what the engine does after it is taken, and a restore   *)
(* replaces whatever the engine holds: the engine that is asked for one     *)
(* stops there, and one without work restores it.                          *)

StopAt(state) ==
  /\ backup = None
  /\ backup' = state
  /\ original' = [state |-> state, done |-> done]
  /\ submission' = [r \in Requests |-> None]
  /\ order' = <<>>
  /\ events' = [r \in Requests |-> <<>>]
  /\ ledger' = <<>>
  /\ known' = [k \in Key |-> None]
  /\ done' = [k \in Key |-> 0]
  /\ UNCHANGED losses

\* The order of the events is not kept: restore sorts them.
TakeBackup ==
  StopAt([submission |-> submission, order |-> order, events |-> events,
          known |-> known])

\* Mutant: the restore adds up the work and not the number of events.
AddsUpByWork(s, es) == WorkOf(es) = s.completed

\* The events of a submission add up to it.
AddsUp(s, es) ==
  /\ WorkOf(es) = s.completed
  /\ Len(es) = s.sequence
  /\ s.completed <= s.authorized

\* restore accepts the recovery state: every event fits the ones before it,
\* belongs to a submission, and the submissions add up.
Acceptable(b) ==
  \A r \in Requests :
    /\ \A i \in DOMAIN b.events[r] : b.events[r][i].sequence = i
    /\ IF b.submission[r] = None THEN b.events[r] = <<>>
       ELSE AddsUp(b.submission[r], b.events[r])

\* How many of the events in the ledger are of one submission.
Occurrences(queue, r) == Cardinality({i \in DOMAIN queue : queue[i] = r})

\* The events come back in the order of their submissions' identities, which
\* are hashes: each one's events together.
Regrouped(es) ==
  {queue \in BoundedSeq(Requests, MaxEvents) :
     /\ \A r \in Requests : Occurrences(queue, r) = Len(es[r])
     /\ \A i, j, k \in DOMAIN queue :
          i < j /\ j < k /\ queue[i] = queue[k] => queue[j] = queue[i]}

RestoreAccepted ==
  /\ backup # None
  /\ Acceptable(backup)
  /\ submission' = backup.submission
  /\ order' = backup.order
  /\ events' = backup.events
  /\ ledger' \in Regrouped(backup.events)
  /\ known' = backup.known
  /\ done' = original.done
  /\ backup' = None
  /\ original' = None
  /\ UNCHANGED losses

\* The engine works on without the recovery state, or is refused it: restore
\* then only sets recovery_restricted, which nothing reads.
StartWithout ==
  /\ backup # None
  /\ backup' = None
  /\ original' = None
  /\ UNCHANGED <<engine, losses>>

\* The stored recovery state loses an event, a submission or a key.
LoseRecord ==
  /\ backup # None
  /\ losses < MaxLosses
  /\ losses' = losses + 1
  /\ \/ \E r \in Requests : \E i \in DOMAIN backup.events[r] :
          backup' = [backup EXCEPT !.events[r] = RemoveAt(@, i)]
     \/ \E i \in DOMAIN backup.order :
          backup' = [backup EXCEPT !.order = RemoveAt(@, i),
                                   !.submission[backup.order[i]] = None]
     \/ \E k \in Key :
          /\ backup.known[k] # None
          /\ backup' = [backup EXCEPT !.known[k] = None]
  /\ UNCHANGED <<engine, original>>

-----------------------------------------------------------------------------
Init ==
  /\ submission = [r \in Requests |-> None]
  /\ order = <<>>
  /\ events = [r \in Requests |-> <<>>]
  /\ ledger = <<>>
  /\ known = [k \in Key |-> None]
  /\ backup = None
  /\ original = None
  /\ done = [k \in Key |-> 0]
  /\ losses = 0

\* The calls of a running engine.
Work ==
  \E r \in Requests, asOf \in Time :
    \/ Process(r, asOf)
    \/ \E to \in WorkflowState : Answer(r, to, asOf)
    \/ \E amount \in Amount, cause \in Cause : Complete(r, amount, asOf, cause)
    \/ Expire(r, asOf)
    \/ TimeOut(r, asOf)
    \/ Retry(r, asOf)

Next ==
  \/ backup = None /\ Work
  \/ TakeBackup
  \/ RestoreAccepted
  \/ StartWithout
  \/ LoseRecord

Spec == Init /\ [][Next]_vars

-----------------------------------------------------------------------------
(* Properties.                                                             *)

\* Every variable holds a value of its type, and the bounds are kept.
TypeOK ==
  /\ submission \in [Requests -> Submission \cup {None}]
  /\ order \in Seq(Requests) /\ Len(order) <= MaxSubmissions
  /\ events \in [Requests -> Seq(Event)]
  /\ ledger \in Seq(Requests) /\ Len(ledger) <= MaxEvents
  /\ known \in [Key -> Requests \cup {None}]
  /\ done \in [Key -> Nat]
  /\ losses \in 0..MaxLosses

\* The order of the store and the submissions agree; a submission has done no
\* more than was authorized; its events are the last of it, in sequence, and
\* account for its work: for all of it unless the ledger has evicted some.
Accounted ==
  losses = 0 => \A r \in Requests :
    LET s  == submission[r]
        es == events[r]
    IN s # None =>
         /\ r \in ToSet(order)
         /\ s.completed <= s.authorized
         /\ \A i \in DOMAIN es : es[i].sequence = s.sequence - Len(es) + i
         /\ WorkOf(es) <= s.completed
         /\ Len(es) = s.sequence => WorkOf(es) = s.completed

\* "Duplicate requests cannot increase work": whatever is evicted, retried and
\* restored, the work accepted for a key is that of one of its requests, as
\* long as stored states lose nothing.
WorkOncePerKey ==
  losses = 0 => \A k \in Key :
    done[k] > 0 => \E r \in Requests : r.key = k /\ done[k] <= FloorWork(r.requested)

\* An answer that comes after the timeout is not taken: between a timeout and
\* a completion there is another acknowledgement.
LateAnswersRefused ==
  \A r \in Requests : \A i, j \in DOMAIN events[r] :
    (/\ i < j
     /\ events[r][i].to = "TIMED_OUT"
     /\ events[r][j].to \in {"PARTIALLY_COMPLETED", "COMPLETED"}) =>
       \E k \in (i + 1)..(j - 1) : events[r][k].to = "ACKNOWLEDGED"

\* "Restarts preserve authorization and completion totals": an accepted
\* restore brings a submission, if its events added up to it when the state was
\* taken, back with all of them or not at all.
RestorePreservesTotals ==
  [][RestoreAccepted =>
       \A r \in Requests :
         LET s  == original.state.submission[r]
             es == original.state.events[r]
         IN (s = None \/ Len(es) = s.sequence) =>
              \/ submission'[r] = s /\ events'[r] = es
              \/ submission'[r] = None /\ events'[r] = <<>>]_vars

\* submit, process and retry: whatever answers repeatedly or late, the work of a
\* key is done once, and none of it by an answer that came after its timeout.
AnswersOnce == WorkOncePerKey /\ LateAnswersRefused
=============================================================================
