------------------------------ MODULE Evidence ------------------------------
(***************************************************************************)
(* Time and evidence, as the engines of AMRTE share them: every call says   *)
(* which time it is, and a time is a small number.  The three engines of   *)
(* src/src/amrte/research that restrict the research process               *)
(* (reliability.py, temporal_quality.py, system_safety.py) also share what *)
(* follows: pieces of evidence are observed at one time and become         *)
(* available at that time or later, and a recovery state holds the current *)
(* state of a scope, its versions, the events and the evidence they are    *)
(* about.                                                                  *)
(***************************************************************************)
EXTENDS Integers, Sequences, FiniteSets

CONSTANTS
  None,        \* Python's None
  MaxTime,     \* bound: the timestamps callers pass
  MaxLosses    \* bound: records stored recovery states lose

ASSUME EvidenceAssumption == MaxTime \in Nat /\ MaxLosses \in Nat

Time == 0..MaxTime

\* Multipliers of the permission, in percent.
Percent == 0..100

\* The stages of reliability.py (PROTECTED is 3) and of temporal_quality.py
\* (COOLDOWN is 3) in the order of their severity; UNKNOWN never occurs.
NORMAL     == 0
WATCH      == 1
RESTRICTED == 2
SUSPENDED  == 4
Stage      == NORMAL..SUSPENDED

Least(a, b) == IF a <= b THEN a ELSE b

Greatest(a, b) == IF a >= b THEN a ELSE b

\* The worst of a set of stages.
Worst(stages) == CHOOSE s \in stages : \A r \in stages : r <= s

\* A call at asOf takes evidence that was observed and available by then, and
\* observed no earlier than the last.
InTime(evidence, last, asOf) ==
  /\ evidence.observed <= evidence.available
  /\ evidence.available <= asOf
  /\ evidence.observed >= last

\* Mutant: the events of a stored state are not counted.
NumberedUncounted(b) ==
  /\ \A i \in DOMAIN b.events : b.current # None /\ b.events[i].evidence \in b.evidence
  /\ \A i \in DOMAIN b.events : b.events[i].sequence = i

\* A recovery state whose events belong to a scope and to evidence that are
\* there, have the numbers from 1 on, and are as many as the scope counts.
Numbered(b) ==
  /\ \A i \in DOMAIN b.events : b.current # None /\ b.events[i].evidence \in b.evidence
  /\ \A i \in DOMAIN b.events : b.events[i].sequence = i
  /\ b.current # None => b.current.count = Len(b.events)

\* Recovery states that have lost an event, a piece of evidence, or the scope.
Damaged(b) ==
  LET without(i) == [j \in 1..(Len(b.events) - 1) |->
                       IF j < i THEN b.events[j] ELSE b.events[j + 1]]
  IN {[b EXCEPT !.events = without(i)] : i \in DOMAIN b.events}
     \cup {[b EXCEPT !.evidence = @ \ {e}] : e \in b.evidence}
     \cup {[b EXCEPT !.current = None, !.versions = <<>>]}
=============================================================================
