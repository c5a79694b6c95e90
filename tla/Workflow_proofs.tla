-------------------------- MODULE Workflow_proofs --------------------------
(***************************************************************************)
(* What holds of Workflow for every set of requests and keys, every        *)
(* configuration and every bound.                                          *)
(***************************************************************************)
EXTENDS Workflow, FiniteSetTheorems, SequenceTheorems, FunctionTheorems, WellFoundedInduction, TLAPS

\* What an engine holds, and a recovery state keeps.
EngineState ==
  [submission : [Requests -> Submission \cup {None}], order : Seq(Requests),
   events : [Requests -> Seq(Event)], known : [Key -> Requests \cup {None}]]

Held == [submission |-> submission, order |-> order, events |-> events, known |-> known]

\* The bounds aside, the variables hold values of their types.
Typed ==
  /\ TypeOK
  /\ backup # None =>
       /\ backup \in EngineState /\ Len(backup.order) <= MaxSubmissions
       /\ original \in [state : EngineState, done : [Key -> Nat]]

\* The events of a submission are its last ones; a submission that was sent in
\* anew, which happens only when its key was lost, has none that continue it.
Continued(s, es) ==
  /\ \A i \in DOMAIN es : es[i].sequence > 0
  /\ s # None /\ s.sequence > 0 =>
       \A i \in DOMAIN es : es[i].sequence = s.sequence - Len(es) + i

\* Between the position of a timeout and another there is an acknowledgement.
Answered(es, i, j) == \E k \in (i + 1)..(j - 1) : es[k].to = "ACKNOWLEDGED"

Refused(es) ==
  \A i, j \in DOMAIN es :
    i < j /\ es[i].to = "TIMED_OUT" /\ es[j].to \in {"PARTIALLY_COMPLETED", "COMPLETED"}
    => Answered(es, i, j)

\* Work is only taken of a submission that was acknowledged since its timeouts.
Told(s, es) ==
  /\ Continued(s, es)
  /\ Refused(es)
  /\ s # None =>
       /\ s.completed <= s.authorized
       /\ s.state \in {"ACKNOWLEDGED", "PARTIALLY_COMPLETED", "COMPLETED"} =>
            \A i \in DOMAIN es : es[i].to = "TIMED_OUT" => Answered(es, i, Len(es) + 1)

\* The account of a submission, of the request r, and its events.
Accounts(r, s, es, key, d) ==
  /\ es # <<>> => key = r
  /\ s # None =>
       /\ key = r /\ d = s.completed
       /\ s.authorized = FloorWork(r.requested)
       /\ \A i \in DOMAIN es : es[i].sequence = s.sequence - Len(es) + i
       /\ WorkOf(es) <= s.completed
       /\ Len(es) = s.sequence => WorkOf(es) = s.completed

\* The accounts of all that e holds, d of which is done.
Booked(e, d) ==
  /\ \A r \in Requests :
       /\ e.submission[r] # None => r \in ToSet(e.order)
       /\ Accounts(r, e.submission[r], e.events[r], e.known[r.key], d[r.key])
  /\ \A k \in Key :
       /\ e.known[k] = None => d[k] = 0
       /\ e.known[k] # None => e.known[k].key = k /\ d[k] <= FloorWork(e.known[k].requested)

\* The ledger has the events of every submission.
Queued == \A r \in Requests : Occurrences(ledger, r) = Len(events[r])

\* Of every submission, a stored state has what was taken or less.
Remains ==
  \A r \in Requests :
    LET es == original.state.events[r]
    IN /\ backup.submission[r] \in {None, original.state.submission[r]}
       /\ backup.events[r] = es \/ Len(backup.events[r]) < Len(es)

\* The inductive invariant.
WorkflowInvariant ==
  /\ Typed
  /\ Queued
  /\ \A r \in Requests : Told(submission[r], events[r])
  /\ losses = 0 => Booked(Held, done)
  /\ backup # None =>
       /\ Remains
       /\ \A r \in Requests : Told(original.state.submission[r], original.state.events[r])
       /\ losses = 0 => backup = original.state /\ Booked(original.state, original.done)

-----------------------------------------------------------------------------
(* Amounts, and the work of events.                                        *)

\* The order of the natural numbers, as a set of pairs.
Smaller == {pair \in Nat \X Nat : pair[1] < pair[2]}

LEMMA SmallerWellFounded == IsWellFoundedOn(Smaller, Nat)
BY NatLessThanWellFounded DEF OpToRel, Smaller

\* Induction over the natural numbers, for a set.
LEMMA InductiveSet ==
  ASSUME NEW P, 0 \in P, \A n \in Nat : n \in P => n + 1 \in P
  PROVE  Nat \subseteq P
<1>1. SUFFICES ASSUME Nat \ P # {} PROVE FALSE
  OBVIOUS
<1>2. PICK n \in Nat \ P : \A m \in Nat \ P : ~(<<m, n>> \in Smaller)
  BY <1>1, SmallerWellFounded, WFMin
<1>3. n # 0 /\ n - 1 \in Nat /\ n - 1 \in P => FALSE
  BY <1>2
<1>4. n # 0 /\ n - 1 \in Nat /\ n - 1 < n
  BY <1>2
<1>5. <<n - 1, n>> \in Smaller
  <2>1. <<n - 1, n>> \in Nat \X Nat
    BY <1>2, <1>4
  <2>2. QED
    BY <1>4, <2>1 DEF Smaller
<1>6. QED
  BY <1>2, <1>3, <1>4, <1>5

\* Flooring keeps amounts of work, and gives no more than there is.
LEMMA FloorFacts ==
  ASSUME NEW a \in Nat
  PROVE  FloorWork(a) \in Nat /\ FloorWork(a) <= a
<1>1. WorkStep \in Nat /\ WorkStep > 0
  BY WorkflowAssumption DEF WorkflowConfiguration
<1> DEFINE q == a \div WorkStep
<1>2. q \in Nat /\ q * WorkStep <= a
  BY <1>1, Z3
<1>3. q * WorkStep \in Nat
  BY <1>1, <1>2
<1>4. QED
  BY <1>2, <1>3 DEF FloorWork

\* The sums of the work of the first events.
Sums(es) ==
  CHOOSE sum : sum = [n \in 0..Len(es) |-> IF n = 0 THEN 0 ELSE sum[n - 1] + es[n].work]

\* They are what the definition says of them.
LEMMA SumsFacts ==
  ASSUME NEW es \in Seq(Event)
  PROVE  /\ Sums(es) \in [0..Len(es) -> Nat]
         /\ Sums(es)[0] = 0
         /\ \A n \in 1..Len(es) : Sums(es)[n] = Sums(es)[n - 1] + es[n].work
         /\ WorkOf(es) = Sums(es)[Len(es)]
<1> DEFINE Is(f, m) == f[0] = 0 /\ \A n \in 1..m : f[n] = f[n - 1] + es[n].work
           P == {m \in Nat : m <= Len(es) => \E f \in [0..m -> Nat] : Is(f, m)}
<1>1. Len(es) \in Nat /\ \A n \in 1..Len(es) : es[n].work \in Nat
  <2>1. \A n \in 1..Len(es) : es[n] \in Event
    OBVIOUS
  <2>2. QED
    BY <2>1 DEF Event
<1>2. 0 \in P
  <2>1. [n \in 0..0 |-> 0] \in [0..0 -> Nat] /\ Is([n \in 0..0 |-> 0], 0)
    OBVIOUS
  <2>2. QED
    BY <2>1
<1>3. ASSUME NEW m \in Nat, m \in P PROVE m + 1 \in P
  <2> HIDE DEF Is
  <2>1. SUFFICES ASSUME m + 1 <= Len(es) PROVE \E f \in [0..(m + 1) -> Nat] : Is(f, m + 1)
    OBVIOUS
  <2>2. PICK f \in [0..m -> Nat] : Is(f, m)
    BY <1>1, <1>3, <2>1
  <2> USE DEF Is
  <2> DEFINE g == [n \in 0..(m + 1) |-> IF n <= m THEN f[n] ELSE f[m] + es[m + 1].work]
  <2>3. f[m] \in Nat /\ es[m + 1].work \in Nat
    BY <1>1, <2>1, <2>2
  <2>4. g \in [0..(m + 1) -> Nat]
    BY <2>2, <2>3
  <2>5. g[0] = 0 /\ g[m + 1] = f[m] + es[m + 1].work /\ \A n \in 0..m : g[n] = f[n]
    BY <2>2, <2>3
  <2> HIDE DEF g
  <2>6. Is(g, m + 1)
    <3>1. ASSUME NEW n \in 1..(m + 1) PROVE g[n] = g[n - 1] + es[n].work
      <4>1. CASE n <= m
        BY <2>2, <2>5, <4>1
      <4>2. CASE n = m + 1
        BY <2>5, <4>2
      <4>3. QED
        BY <4>1, <4>2
    <3>2. QED
      BY <2>5, <3>1
  <2>7. QED
    BY <2>4, <2>6
<1>4. Nat \subseteq P
  <2> HIDE DEF P
  <2> QED
    BY <1>2, <1>3, InductiveSet
<1>5. PICK f \in [0..Len(es) -> Nat] : Is(f, Len(es))
  <2> HIDE DEF Is
  <2> QED
    BY <1>1, <1>4
<1>6. f = [n \in 0..Len(es) |-> IF n = 0 THEN 0 ELSE f[n - 1] + es[n].work]
  BY <1>1, <1>5
<1>7. Sums(es) = [n \in 0..Len(es) |-> IF n = 0 THEN 0 ELSE Sums(es)[n - 1] + es[n].work]
  BY <1>6, Zenon DEF Sums
<1>8. WorkOf(es) = Sums(es)[Len(es)]
  BY Zenon DEF WorkOf, Sums
<1>9. Sums(es)[0] = 0 /\ \A n \in 1..Len(es) : Sums(es)[n] = Sums(es)[n - 1] + es[n].work
  BY <1>1, <1>7
<1> DEFINE Q == {m \in Nat : m <= Len(es) => Sums(es)[m] \in Nat}
<1>10. 0 \in Q
  BY <1>9
<1>11. ASSUME NEW m \in Nat, m \in Q PROVE m + 1 \in Q
  BY <1>1, <1>9, <1>11
<1>12. Nat \subseteq Q
  <2> HIDE DEF Q
  <2> QED
    BY <1>10, <1>11, InductiveSet
<1>13. Sums(es) \in [0..Len(es) -> Nat]
  <2>1. \A n \in 0..Len(es) : Sums(es)[n] \in Nat
    BY <1>1, <1>12
  <2>2. DOMAIN Sums(es) = 0..Len(es) /\ Sums(es) = [n \in DOMAIN Sums(es) |-> Sums(es)[n]]
    BY <1>7
  <2>3. QED
    BY <2>1, <2>2
<1>14. QED
  BY <1>8, <1>9, <1>13

\* The work of no events, and of some of a type.
LEMMA WorkFacts ==
  ASSUME NEW es \in Seq(Event)
  PROVE  WorkOf(es) \in Nat /\ (es = <<>> => WorkOf(es) = 0)
BY SumsFacts

\* Another event adds its work.
LEMMA WorkGrows ==
  ASSUME NEW es \in Seq(Event), NEW e \in Event
  PROVE  WorkOf(Append(es, e)) = WorkOf(es) + e.work
<1> DEFINE fs == Append(es, e)
           P == {m \in Nat : m <= Len(es) => Sums(fs)[m] = Sums(es)[m]}
<1>1. /\ fs \in Seq(Event) /\ Len(fs) = Len(es) + 1 /\ Len(es) \in Nat
      /\ fs[Len(es) + 1] = e /\ \A n \in 1..Len(es) : fs[n] = es[n]
  OBVIOUS
<1> HIDE DEF fs
<1>2. 0 \in P
  BY <1>1, SumsFacts
<1>3. ASSUME NEW m \in Nat, m \in P PROVE m + 1 \in P
  <2>1. SUFFICES ASSUME m + 1 <= Len(es) PROVE Sums(fs)[m + 1] = Sums(es)[m + 1]
    OBVIOUS
  <2>2. /\ Sums(fs)[m + 1] = Sums(fs)[m] + fs[m + 1].work
        /\ Sums(es)[m + 1] = Sums(es)[m] + es[m + 1].work
    <3>1. m + 1 \in 1..Len(fs) /\ m + 1 \in 1..Len(es) /\ (m + 1) - 1 = m
      BY <1>1, <2>1
    <3>2. QED
      BY <1>1, <3>1, SumsFacts
  <2>3. QED
    BY <1>1, <1>3, <2>1, <2>2
<1>4. Nat \subseteq P
  <2> HIDE DEF P
  <2> QED
    BY <1>2, <1>3, InductiveSet
<1>5. Sums(fs)[Len(es)] = Sums(es)[Len(es)]
  BY <1>1, <1>4
<1>6. Sums(fs)[Len(es) + 1] = Sums(fs)[Len(es)] + e.work
  <2>1. Len(es) + 1 \in 1..Len(fs) /\ (Len(es) + 1) - 1 = Len(es)
    BY <1>1
  <2>2. QED
    BY <1>1, <2>1, SumsFacts
<1>7. WorkOf(fs) = Sums(fs)[Len(es) + 1] /\ WorkOf(es) = Sums(es)[Len(es)]
  BY <1>1, SumsFacts
<1>8. QED
  BY <1>5, <1>6, <1>7 DEF fs

\* Without the oldest event there is no more of it.
LEMMA WorkShrinks ==
  ASSUME NEW es \in Seq(Event), es # <<>>
  PROVE  WorkOf(Tail(es)) <= WorkOf(es)
<1> DEFINE fs == Tail(es)
           P == {m \in Nat : m <= Len(fs) => Sums(fs)[m] <= Sums(es)[m + 1]}
<1>1. /\ fs \in Seq(Event) /\ Len(fs) = Len(es) - 1 /\ Len(es) \in Nat /\ Len(fs) \in Nat
      /\ \A n \in 1..Len(fs) : fs[n] = es[n + 1]
  OBVIOUS
<1>2. /\ \A n \in 1..Len(es) : es[n].work \in Nat
      /\ \A n \in 0..Len(es) : Sums(es)[n] \in Nat
      /\ \A n \in 0..Len(fs) : Sums(fs)[n] \in Nat
  <2>1. \A n \in 1..Len(es) : es[n] \in Event
    OBVIOUS
  <2>2. \A n \in 1..Len(es) : es[n].work \in Nat
    BY <2>1 DEF Event
  <2> HIDE DEF fs
  <2>3. QED
    BY <1>1, <2>2, SumsFacts
<1> HIDE DEF fs
<1>3. 0 \in P
  <2>1. Sums(fs)[0] = 0 /\ Sums(es)[1] \in Nat
    <3>1. 1 \in 0..Len(es)
      BY <1>1
    <3>2. QED
      BY <1>1, <1>2, <3>1, SumsFacts
  <2>2. QED
    BY <2>1
<1>4. ASSUME NEW m \in Nat, m \in P PROVE m + 1 \in P
  <2>1. SUFFICES ASSUME m + 1 <= Len(fs) PROVE Sums(fs)[m + 1] <= Sums(es)[m + 2]
    OBVIOUS
  <2>2. /\ m + 1 \in 1..Len(fs) /\ (m + 1) - 1 = m /\ (m + 2) - 1 = m + 1
        /\ m + 2 \in 1..Len(es) /\ m \in 0..Len(fs) /\ m + 1 \in 0..Len(es)
    BY <1>1, <2>1
  <2>3. /\ Sums(fs)[m + 1] = Sums(fs)[m] + fs[m + 1].work
        /\ Sums(es)[m + 2] = Sums(es)[m + 1] + es[m + 2].work
        /\ fs[m + 1] = es[m + 2]
    <3>1. fs[m + 1] = es[(m + 1) + 1] /\ (m + 1) + 1 = m + 2
      BY <1>1, <2>2
    <3>2. Sums(fs)[m + 1] = Sums(fs)[m] + fs[m + 1].work
      BY <1>1, <2>2, SumsFacts
    <3>3. Sums(es)[m + 2] = Sums(es)[m + 1] + es[m + 2].work
      BY <2>2, SumsFacts
    <3>4. QED
      BY <3>1, <3>2, <3>3
  <2>4. Sums(fs)[m] <= Sums(es)[m + 1]
    BY <1>1, <1>4, <2>1
  <2>5. QED
    BY <1>2, <2>2, <2>3, <2>4
<1>5. Nat \subseteq P
  <2> HIDE DEF P
  <2> QED
    BY <1>3, <1>4, InductiveSet
<1>6. Sums(fs)[Len(fs)] <= Sums(es)[Len(es)]
  BY <1>1, <1>5
<1>7. WorkOf(fs) = Sums(fs)[Len(fs)] /\ WorkOf(es) = Sums(es)[Len(es)]
  BY <1>1, SumsFacts
<1>8. QED
  BY <1>6, <1>7 DEF fs

-----------------------------------------------------------------------------
(* The ledger.                                                             *)

\* Another event of r is one more of r, and none of the others.
LEMMA OccurrencesGrow ==
  ASSUME NEW queue \in Seq(Requests), NEW r \in Requests, NEW q \in Requests
  PROVE  /\ Occurrences(queue, q) \in Nat
         /\ Occurrences(Append(queue, r), q) = Occurrences(queue, q) + (IF q = r THEN 1 ELSE 0)
<1> DEFINE old == {i \in DOMAIN queue : queue[i] = q}
           longer == Append(queue, r)
           new == {i \in DOMAIN longer : longer[i] = q}
<1>1. /\ Len(queue) \in Nat /\ DOMAIN queue = 1..Len(queue)
      /\ DOMAIN longer = 1..(Len(queue) + 1) /\ longer[Len(queue) + 1] = r
      /\ \A i \in 1..Len(queue) : longer[i] = queue[i]
  OBVIOUS
<1> HIDE DEF longer
<1>0. Occurrences(queue, q) = Cardinality(old) /\ Occurrences(longer, q) = Cardinality(new)
  BY DEF Occurrences
<1>2. IsFiniteSet(old) /\ Cardinality(old) \in Nat
  <2>1. IsFiniteSet(1..Len(queue))
    BY <1>1, FS_Interval
  <2>2. old \subseteq 1..Len(queue)
    BY <1>1
  <2>3. QED
    BY <2>1, <2>2, FS_Subset, FS_CardinalityType
<1>3. CASE q = r
  <2>1. new = old \cup {Len(queue) + 1} /\ Len(queue) + 1 \notin old
    BY <1>1, <1>3
  <2>2. Cardinality(new) = Cardinality(old) + 1
    BY <1>2, <2>1, FS_AddElement
  <2>3. QED
    <3> HIDE DEF old, new
    <3> QED
      BY <1>0, <1>2, <1>3, <2>2 DEF longer
<1>4. CASE q # r
  <2>1. new = old
    BY <1>1, <1>4
  <2>2. QED
    <3> HIDE DEF old, new
    <3> QED
      BY <1>0, <1>2, <1>4, <2>1 DEF longer
<1>5. QED
  BY <1>3, <1>4

\* Without the oldest event there is one less of its submission.
LEMMA OccurrencesShrink ==
  ASSUME NEW queue \in Seq(Requests), queue # <<>>, NEW q \in Requests
  PROVE  /\ Occurrences(queue, q) \in Nat /\ Occurrences(Tail(queue), q) \in Nat
         /\ Occurrences(queue, q) = Occurrences(Tail(queue), q) + (IF q = Head(queue) THEN 1 ELSE 0)
<1> DEFINE rest == Tail(queue)
           old == {i \in DOMAIN queue : queue[i] = q}
           new == {i \in DOMAIN rest : rest[i] = q}
           later == {i \in 2..Len(queue) : queue[i] = q}
           shift == [i \in new |-> i + 1]
<1>1. /\ Len(queue) \in Nat /\ DOMAIN queue = 1..Len(queue) /\ Len(queue) >= 1
      /\ DOMAIN rest = 1..(Len(queue) - 1) /\ Head(queue) = queue[1]
      /\ \A i \in 1..(Len(queue) - 1) : rest[i] = queue[i + 1]
  OBVIOUS
<1> HIDE DEF rest
<1>0. Occurrences(queue, q) = Cardinality(old) /\ Occurrences(rest, q) = Cardinality(new)
  BY DEF Occurrences
<1>2. IsFiniteSet(new) /\ IsFiniteSet(later)
  <2>1. IsFiniteSet(1..Len(queue))
    BY <1>1, FS_Interval
  <2>2. new \subseteq 1..Len(queue) /\ later \subseteq 1..Len(queue)
    BY <1>1
  <2>3. QED
    BY <2>1, <2>2, FS_Subset
<1>3. Cardinality(new) = Cardinality(later)
  <2>1. shift \in [new -> later]
    BY <1>1
  <2>2. \A i, j \in new : shift[i] = shift[j] => i = j
    BY <1>1
  <2>3. \A j \in later : \E i \in new : shift[i] = j
    <3>1. SUFFICES ASSUME NEW j \in later PROVE j - 1 \in new /\ shift[j - 1] = j
      OBVIOUS
    <3>2. j \in Nat /\ j - 1 \in 1..(Len(queue) - 1) /\ (j - 1) + 1 = j
      BY <1>1
    <3>3. j - 1 \in new
      BY <1>1, <3>2
    <3>4. QED
      BY <3>2, <3>3
  <2>4. shift \in Bijection(new, later)
    <3> HIDE DEF shift, new, later
    <3> QED
      BY <2>1, <2>2, <2>3, Fun_IsBij
  <2>5. ExistsBijection(new, later)
    BY <2>4 DEF ExistsBijection
  <2>6. QED
    BY <1>2, <2>5, FS_Bijection
<1>4. Cardinality(later) \in Nat
  BY <1>2, FS_CardinalityType
<1>5. CASE queue[1] = q
  <2>1. old = later \cup {1} /\ 1 \notin later
    BY <1>1, <1>5
  <2>2. Cardinality(old) = Cardinality(later) + 1
    BY <1>2, <2>1, FS_AddElement
  <2>3. QED
    <3> HIDE DEF old, new, later
    <3> QED
      BY <1>0, <1>1, <1>3, <1>4, <1>5, <2>2 DEF rest
<1>6. CASE queue[1] # q
  <2>1. old = later
    BY <1>1, <1>6
  <2>2. QED
    <3> HIDE DEF old, new, later
    <3> QED
      BY <1>0, <1>1, <1>3, <1>4, <1>6, <2>1 DEF rest
<1>7. QED
  BY <1>5, <1>6

\* Recording an event adds it to those of its submission, and takes the oldest
\* of one submission away when the ledger is full.
LEMMA RecordFacts ==
  ASSUME Typed, Queued, NEW r \in Requests, NEW e \in Event, Record(r, e)
  PROVE  /\ ledger' \in Seq(Requests) /\ Len(ledger') <= MaxEvents
         /\ events' \in [Requests -> Seq(Event)]
         /\ Queued'
         /\ events'[r] \in {Append(events[r], e), Tail(Append(events[r], e))}
         /\ \A q \in Requests \ {r} :
              events'[q] = events[q] \/ (events[q] # <<>> /\ events'[q] = Tail(events[q]))
<1> DEFINE queue == Append(ledger, r)
           grown == [events EXCEPT ![r] = Append(@, e)]
           first == Head(queue)
<1>1. /\ events \in [Requests -> Seq(Event)] /\ ledger \in Seq(Requests)
      /\ Len(ledger) <= MaxEvents /\ MaxEvents \in Nat
  BY WorkflowAssumption DEF Typed, TypeOK, WorkflowConfiguration
<1>2. /\ queue \in Seq(Requests) /\ queue # <<>> /\ Len(queue) = Len(ledger) + 1
      /\ first \in Requests /\ Tail(queue) \in Seq(Requests) /\ Len(Tail(queue)) = Len(ledger)
  BY <1>1
<1>3. /\ grown \in [Requests -> Seq(Event)] /\ grown[r] = Append(events[r], e)
      /\ \A q \in Requests \ {r} : grown[q] = events[q]
  BY <1>1
<1>4. \A q \in Requests : Len(grown[q]) = Occurrences(queue, q)
  <2>1. SUFFICES ASSUME NEW q \in Requests PROVE Len(grown[q]) = Occurrences(queue, q)
    OBVIOUS
  <2>2. Occurrences(ledger, q) = Len(events[q]) /\ Occurrences(ledger, q) \in Nat
    BY <1>1, OccurrencesGrow DEF Queued
  <2>3. Occurrences(queue, q) = Occurrences(ledger, q) + (IF q = r THEN 1 ELSE 0)
    BY <1>1, OccurrencesGrow
  <2>4. CASE q = r
    <3>1. Len(grown[r]) = Len(events[r]) + 1
      BY <1>1, <1>3
    <3> HIDE DEF grown, queue
    <3>2. QED
      BY <2>2, <2>3, <2>4, <3>1
  <2>5. CASE q # r
    <3> HIDE DEF grown, queue
    <3> QED
      BY <1>3, <2>2, <2>3, <2>5
  <2>6. QED
    BY <2>4, <2>5
<1>5. /\ ledger' = IF Len(queue) > MaxEvents THEN Tail(queue) ELSE queue
      /\ events' = IF Len(queue) > MaxEvents THEN [grown EXCEPT ![first] = Tail(@)] ELSE grown
  BY DEF Record, Bounded
<1> HIDE DEF queue, grown, first
<1>6. CASE Len(queue) > MaxEvents
  <2>1. ledger' = Tail(queue) /\ events' = [grown EXCEPT ![first] = Tail(@)]
    BY <1>5, <1>6
  <2>2. \A q \in Requests :
          /\ Occurrences(queue, q) \in Nat /\ Occurrences(ledger', q) \in Nat
          /\ Occurrences(queue, q) = Occurrences(ledger', q) + (IF q = first THEN 1 ELSE 0)
    BY <1>2, <2>1, OccurrencesShrink DEF first
  <2>3. grown[first] # <<>> /\ grown[first] \in Seq(Event) /\ Tail(grown[first]) \in Seq(Event)
    <3>1. Len(grown[first]) >= 1
      BY <1>2, <1>4, <2>2
    <3>2. grown[first] \in Seq(Event)
      BY <1>2, <1>3
    <3>3. grown[first] # <<>>
      BY <3>1
    <3>4. QED
      BY <3>2, <3>3
  <2>4. /\ events' \in [Requests -> Seq(Event)] /\ events'[first] = Tail(grown[first])
        /\ \A q \in Requests \ {first} : events'[q] = grown[q]
    BY <1>2, <1>3, <2>1, <2>3
  <2>5. Queued'
    <3>1. SUFFICES ASSUME NEW q \in Requests PROVE Occurrences(ledger', q) = Len(events'[q])
      BY DEF Queued, Occurrences
    <3>2. CASE q = first
      <4>1. Len(Tail(grown[first])) = Len(grown[first]) - 1
        BY <2>3
      <4>2. /\ Occurrences(ledger', first) \in Nat
            /\ Len(grown[first]) = Occurrences(ledger', first) + 1
        BY <1>2, <1>4, <2>2
      <4>3. events'[first] = Tail(grown[first])
        BY <2>4
      <4>4. QED
        BY <3>2, <4>1, <4>2, <4>3
    <3>3. CASE q # first
      BY <1>4, <2>2, <2>4, <3>3
    <3>4. QED
      BY <3>2, <3>3
  <2>6. \A q \in Requests \ {r} :
          events'[q] = events[q] \/ (events[q] # <<>> /\ events'[q] = Tail(events[q]))
    BY <1>3, <2>3, <2>4
  <2>7. events'[r] \in {Append(events[r], e), Tail(Append(events[r], e))}
    BY <1>3, <2>4
  <2>8. QED
    BY <1>1, <1>2, <2>1, <2>4, <2>5, <2>6, <2>7
<1>7. CASE ~(Len(queue) > MaxEvents)
  <2>1. ledger' = queue /\ events' = grown
    BY <1>5, <1>7
  <2>2. Queued'
    <3>1. SUFFICES ASSUME NEW q \in Requests PROVE Occurrences(ledger', q) = Len(events'[q])
      BY DEF Queued, Occurrences
    <3>2. QED
      BY <1>4, <2>1
  <2>3. Len(queue) <= MaxEvents
    BY <1>1, <1>2, <1>7
  <2>4. QED
    BY <1>2, <1>3, <2>1, <2>2, <2>3
<1>8. QED
  BY <1>6, <1>7

\* Saving a submission keeps it, or it and another go: those that are kept are in
\* the order, and no other changes.
LEMMA SaveFacts ==
  ASSUME Typed, NEW r \in Requests, NEW s \in Submission, Save(r, s)
  PROVE  /\ order' \in Seq(Requests) /\ Len(order') <= MaxSubmissions
         /\ submission' \in [Requests -> Submission \cup {None}]
         /\ submission'[r] \in {s, None}
         /\ \A q \in Requests : submission'[q] # None => q \in ToSet(order')
         /\ \A q \in Requests \ {r} : submission'[q] \in {submission[q], None}
<1> DEFINE queue == IF submission[r] # None THEN order ELSE Append(order, r)
<1>1. /\ order \in Seq(Requests) /\ Len(order) <= MaxSubmissions
      /\ MaxSubmissions \in Nat /\ submission \in [Requests -> Submission \cup {None}]
  BY WorkflowAssumption DEF Typed, TypeOK, WorkflowConfiguration
<1>2. queue \in Seq(Requests) /\ Len(queue) <= MaxSubmissions + 1
  BY <1>1
<1>3. order' = IF Len(queue) > MaxSubmissions THEN Tail(queue) ELSE queue
  BY DEF Save, Bounded
<1>4. order' \in Seq(Requests) /\ Len(order') <= MaxSubmissions
  <2> HIDE DEF queue
  <2>1. CASE Len(queue) > MaxSubmissions
    <3>1. queue # <<>>
      BY <1>1, <2>1
    <3>2. QED
      BY <1>1, <1>2, <1>3, <2>1, <3>1
  <2>2. CASE ~(Len(queue) > MaxSubmissions)
    BY <1>1, <1>2, <1>3, <2>2
  <2>3. QED
    BY <2>1, <2>2
<1>5. submission' = [q \in Requests |-> IF q \notin ToSet(order') THEN None
                                        ELSE IF q = r THEN s ELSE submission[q]]
  BY DEF Save
<1>6. QED
  BY <1>1, <1>4, <1>5

-----------------------------------------------------------------------------
(* One submission and its events.                                          *)

\* What is told of events stays true without the oldest of them, and without
\* the submission.
LEMMA ToldLess ==
  ASSUME NEW s \in Submission \cup {None}, NEW es \in Seq(Event), Told(s, es),
         NEW t \in {s, None}, NEW fs, fs = es \/ (es # <<>> /\ fs = Tail(es))
  PROVE  Told(t, fs)
<1>1. CASE fs = es
  BY <1>1 DEF Told, Continued
<1>2. CASE es # <<>> /\ fs = Tail(es)
  <2>1. /\ fs \in Seq(Event) /\ Len(es) \in Nat /\ Len(fs) = Len(es) - 1
        /\ DOMAIN es = 1..Len(es) /\ DOMAIN fs = 1..(Len(es) - 1)
        /\ \A i \in DOMAIN fs : i + 1 \in DOMAIN es /\ fs[i] = es[i + 1]
    BY <1>2
  <2>2. s # None => s.sequence \in Nat
    BY DEF Submission
  <2>3. ASSUME NEW i \in DOMAIN fs, NEW j \in Nat, Answered(es, i + 1, j + 1), j <= Len(es)
        PROVE  Answered(fs, i, j)
    <3>1. PICK k \in (i + 2)..j : es[k].to = "ACKNOWLEDGED"
      BY <2>1, <2>3 DEF Answered
    <3>2. k - 1 \in (i + 1)..(j - 1) /\ k - 1 \in DOMAIN fs /\ (k - 1) + 1 = k
      BY <2>1, <2>3, <3>1
    <3>3. fs[k - 1] = es[k]
      BY <2>1, <3>2
    <3>4. QED
      BY <3>1, <3>2, <3>3 DEF Answered
  <2>4. Continued(t, fs)
    <3>1. \A i \in DOMAIN fs : fs[i].sequence > 0
      BY <2>1 DEF Told, Continued
    <3>2. ASSUME t # None, t.sequence > 0, NEW i \in DOMAIN fs
          PROVE  fs[i].sequence = t.sequence - Len(fs) + i
      <4>1. t = s /\ s.sequence \in Nat
        BY <2>2, <3>2
      <4>2. es[i + 1].sequence = s.sequence - Len(es) + (i + 1)
        BY <2>1, <3>2, <4>1 DEF Told, Continued
      <4>3. i \in Nat /\ fs[i] = es[i + 1] /\ Len(fs) = Len(es) - 1 /\ Len(es) \in Nat
        BY <2>1
      <4>4. \A a, b, k \in Nat : a - b + (k + 1) = a - (b - 1) + k
        OBVIOUS
      <4>5. s.sequence - Len(es) + (i + 1) = s.sequence - Len(fs) + i
        BY <4>1, <4>3, <4>4
      <4>6. QED
        BY <4>1, <4>2, <4>3, <4>5
    <3>3. QED
      BY <3>1, <3>2 DEF Continued
  <2>5. Refused(fs)
    <3>1. SUFFICES ASSUME NEW i \in DOMAIN fs, NEW j \in DOMAIN fs, i < j, fs[i].to = "TIMED_OUT",
                          fs[j].to \in {"PARTIALLY_COMPLETED", "COMPLETED"}
                   PROVE  Answered(fs, i, j)
      BY DEF Refused
    <3>2. Answered(es, i + 1, j + 1)
      BY <2>1, <3>1 DEF Told, Refused
    <3>3. QED
      BY <2>1, <2>3, <3>1, <3>2
  <2>6. ASSUME t # None, t.state \in {"ACKNOWLEDGED", "PARTIALLY_COMPLETED", "COMPLETED"},
               NEW i \in DOMAIN fs, fs[i].to = "TIMED_OUT"
        PROVE  Answered(fs, i, Len(fs) + 1)
    <3>1. Answered(es, i + 1, Len(es) + 1)
      BY <2>1, <2>6 DEF Told
    <3>2. Len(fs) + 1 = Len(es) /\ Len(es) \in Nat
      BY <2>1
    <3>3. Answered(fs, i, Len(es))
      BY <2>3, <3>1, <3>2
    <3>4. QED
      BY <3>2, <3>3
  <2>7. QED
    BY <2>4, <2>5, <2>6 DEF Told
<1>3. QED
  BY <1>1, <1>2

\* One event more and one number higher: the event stays where it was counted.
LEMMA OnePlaceLater ==
  ASSUME NEW a \in Nat, NEW b \in Nat, NEW c \in Nat, NEW d \in Nat, NEW k \in Nat,
         c = a + 1, d = b + 1
  PROVE  a - b + k = c - d + k
OBVIOUS

\* An event that fits and follows an allowed transition continues what is told.
LEMMA ToldNext ==
  ASSUME Typed, NEW r \in Requests, submission[r] # None, Told(submission[r], events[r]),
         NEW to \in AllowedTransitions[submission[r].state], to \in WorkflowState,
         NEW work \in Nat, submission[r].completed + work <= submission[r].authorized,
         NEW at, NEW e \in Event, e.to = to, e.sequence = submission[r].sequence + 1,
         Fits(r, e)
  PROVE  Told([submission[r] EXCEPT !.state = to, !.completed = @ + work,
                                    !.sequence = @ + 1, !.updated = at],
              Append(events[r], e))
<1> DEFINE s  == submission[r]
           es == events[r]
           t  == [s EXCEPT !.state = to, !.completed = @ + work, !.sequence = @ + 1, !.updated = at]
           fs == Append(es, e)
<1>1. s \in Submission /\ es \in Seq(Event)
  BY DEF Typed, TypeOK
<1>2. /\ t.state = to /\ t.completed = s.completed + work /\ t.sequence = s.sequence + 1
      /\ t.authorized = s.authorized /\ s.sequence \in Nat
  BY <1>1 DEF Submission
<1>3. /\ Len(es) \in Nat /\ Len(fs) = Len(es) + 1 /\ DOMAIN es = 1..Len(es)
      /\ DOMAIN fs = 1..(Len(es) + 1) /\ fs[Len(es) + 1] = e /\ \A i \in DOMAIN es : fs[i] = es[i]
      /\ \A i \in DOMAIN es : es[i].sequence \in Nat
  <2>1. \A i \in DOMAIN es : es[i] \in Event
    BY <1>1
  <2>2. \A i \in DOMAIN es : es[i].sequence \in Nat
    BY <2>1 DEF Event
  <2>3. QED
    BY <1>1, <2>2
<1>4. es # <<>> => es[Len(es)].sequence = s.sequence
  BY <1>1, <1>2, <1>3 DEF Fits, Last
<1>5. s.state \in WorkflowState /\ (to \in {"PARTIALLY_COMPLETED", "COMPLETED"} =>
        s.state \in {"ACKNOWLEDGED", "PARTIALLY_COMPLETED"})
  BY <1>1 DEF Submission, AllowedTransitions, WorkflowState
<1> HIDE DEF t, fs
<1>6. ASSUME NEW i \in DOMAIN es, NEW j \in Nat, Answered(es, i, j), j <= Len(es) + 1
      PROVE  Answered(fs, i, j)
  <2>1. PICK k \in (i + 1)..(j - 1) : es[k].to = "ACKNOWLEDGED"
    BY <1>6 DEF Answered
  <2>2. k \in DOMAIN es
    BY <1>3, <1>6, <2>1
  <2>3. QED
    BY <1>3, <2>1, <2>2 DEF Answered
<1>7. Continued(t, fs)
  <2>1. \A i \in DOMAIN es : es[i].sequence > 0
    BY DEF Told, Continued
  <2>2. \A i \in DOMAIN fs : fs[i].sequence > 0
    <3>1. e.sequence > 0
      BY <1>2
    <3>2. QED
      BY <1>3, <2>1, <3>1
  <2>3. \A i \in DOMAIN fs : fs[i].sequence = t.sequence - Len(fs) + i
    <3>1. \A i \in DOMAIN es : es[i].sequence = s.sequence - Len(es) + i
      <4>1. CASE s.sequence > 0
        BY <4>1 DEF Told, Continued
      <4>2. CASE s.sequence = 0
        <5>1. es = <<>>
          <6>1. SUFFICES ASSUME es # <<>> PROVE FALSE
            OBVIOUS
          <6>2. Len(es) \in DOMAIN es
            BY <1>1, <6>1
          <6>3. QED
            BY <1>4, <2>1, <4>2, <6>1, <6>2
        <5>2. QED
          BY <5>1
      <4>3. QED
        BY <1>2, <4>1, <4>2
    <3>2. e.sequence = s.sequence + 1
      OBVIOUS
    <3>3. SUFFICES ASSUME NEW i \in DOMAIN fs
                   PROVE  fs[i].sequence = t.sequence - Len(fs) + i
      OBVIOUS
    <3>4. CASE i \in DOMAIN es
      <4>1. fs[i] = es[i] /\ es[i].sequence = s.sequence - Len(es) + i
        BY <1>3, <3>1, <3>4
      <4>2. /\ i \in Nat /\ Len(fs) = Len(es) + 1 /\ Len(es) \in Nat
            /\ t.sequence = s.sequence + 1 /\ s.sequence \in Nat
        BY <1>2, <1>3, <3>4
      <4>3. t.sequence \in Nat /\ Len(fs) \in Nat
        BY <4>2
      <4> HIDE DEF s, es
      <4>4. s.sequence - Len(es) + i = t.sequence - Len(fs) + i
        BY <4>2, <4>3, OnePlaceLater
      <4>5. QED
        BY <4>1, <4>4
    <3>5. CASE i = Len(es) + 1
      BY <1>2, <1>3, <3>2, <3>5
    <3>6. QED
      BY <1>3, <3>4, <3>5
  <2>4. QED
    BY <2>2, <2>3 DEF Continued
<1>8. Refused(fs)
  <2>1. SUFFICES ASSUME NEW i \in DOMAIN fs, NEW j \in DOMAIN fs, i < j, fs[i].to = "TIMED_OUT",
                        fs[j].to \in {"PARTIALLY_COMPLETED", "COMPLETED"}
                 PROVE  Answered(fs, i, j)
    BY DEF Refused
  <2>2. i \in DOMAIN es /\ j \in Nat /\ j <= Len(es) + 1 /\ es[i].to = "TIMED_OUT"
    BY <1>3, <2>1
  <2>3. CASE j \in DOMAIN es
    <3>1. Answered(es, i, j)
      BY <1>3, <2>1, <2>2, <2>3 DEF Told, Refused
    <3>2. QED
      BY <1>6, <2>2, <3>1
  <2>4. CASE j = Len(es) + 1
    <3>1. s.state \in {"ACKNOWLEDGED", "PARTIALLY_COMPLETED", "COMPLETED"}
      BY <1>3, <1>5, <2>1, <2>4
    <3>2. Answered(es, i, Len(es) + 1)
      BY <2>2, <3>1 DEF Told
    <3>3. QED
      BY <1>6, <2>2, <2>4, <3>2
  <2>5. QED
    BY <1>3, <2>3, <2>4
<1>9. ASSUME t.state \in {"ACKNOWLEDGED", "PARTIALLY_COMPLETED", "COMPLETED"},
             NEW i \in DOMAIN fs, fs[i].to = "TIMED_OUT"
      PROVE  Answered(fs, i, Len(fs) + 1)
  <2>1. i \in DOMAIN es
    BY <1>2, <1>3, <1>9
  <2>2. CASE to = "ACKNOWLEDGED"
    <3>1. Len(es) + 1 \in (i + 1)..((Len(fs) + 1) - 1)
      BY <1>3, <2>1
    <3>2. QED
      BY <1>3, <2>2, <3>1 DEF Answered
  <2>3. CASE to # "ACKNOWLEDGED"
    <3>1. Answered(es, i, Len(es) + 1)
      BY <1>2, <1>3, <1>5, <1>9, <2>1, <2>3 DEF Told
    <3>2. PICK k \in (i + 1)..Len(es) : es[k].to = "ACKNOWLEDGED"
      BY <1>3, <3>1 DEF Answered
    <3>3. k \in DOMAIN es /\ k \in (i + 1)..((Len(fs) + 1) - 1)
      BY <1>3, <2>1, <3>2
    <3>4. QED
      BY <1>3, <3>2, <3>3 DEF Answered
  <2>4. QED
    BY <2>2, <2>3
<1>10. Told(t, fs)
  BY <1>2, <1>7, <1>8, <1>9 DEF Told
<1>11. QED
  BY <1>10 DEF t, fs

\* An account balances without the oldest event, and without the submission.
LEMMA AccountsLess ==
  ASSUME NEW r, NEW s \in Submission \cup {None}, NEW es \in Seq(Event), NEW key, NEW d,
         Told(s, es), Accounts(r, s, es, key, d),
         NEW t \in {s, None}, NEW fs, fs = es \/ (es # <<>> /\ fs = Tail(es))
  PROVE  Accounts(r, t, fs, key, d)
<1>1. CASE fs = es
  BY <1>1 DEF Accounts
<1>2. CASE es # <<>> /\ fs = Tail(es)
  <2>1. /\ fs \in Seq(Event) /\ Len(es) \in Nat /\ Len(fs) = Len(es) - 1
        /\ DOMAIN es = 1..Len(es) /\ DOMAIN fs = 1..(Len(es) - 1) /\ 1 \in DOMAIN es
        /\ \A i \in DOMAIN fs : i + 1 \in DOMAIN es /\ fs[i] = es[i + 1] /\ i \in Nat
    BY <1>2
  <2>2. key = r
    BY <1>2 DEF Accounts
  <2>3. ASSUME t # None
        PROVE  /\ \A i \in DOMAIN fs : fs[i].sequence = t.sequence - Len(fs) + i
               /\ WorkOf(fs) <= t.completed /\ Len(fs) # t.sequence
    <3>1. t = s /\ s # None /\ s.sequence \in Nat /\ s.completed \in Nat
      BY <2>3 DEF Submission
    <3>2. \A i \in DOMAIN es : es[i].sequence = s.sequence - Len(es) + i
      BY <3>1 DEF Accounts
    <3>3. \A a, b, k \in Nat : a - b + (k + 1) = a - (b - 1) + k
      OBVIOUS
    <3>4. ASSUME NEW i \in DOMAIN fs PROVE fs[i].sequence = s.sequence - Len(fs) + i
      <4>0. i + 1 \in DOMAIN es /\ fs[i] = es[i + 1] /\ i \in Nat
        BY <2>1
      <4>1. es[i + 1].sequence = s.sequence - Len(es) + (i + 1)
        BY <3>2, <4>0
      <4>2. s.sequence - Len(es) + (i + 1) = s.sequence - Len(fs) + i
        BY <2>1, <3>1, <3>3, <4>0
      <4>3. QED
        BY <4>0, <4>1, <4>2
    <3>5. WorkOf(fs) <= s.completed
      <4>1. WorkOf(fs) \in Nat /\ WorkOf(es) \in Nat
        BY <2>1, WorkFacts
      <4>2. WorkOf(fs) <= WorkOf(es)
        BY <1>2, WorkShrinks
      <4>3. WorkOf(es) <= s.completed
        BY <3>1 DEF Accounts
      <4>4. QED
        BY <3>1, <4>1, <4>2, <4>3
    <3>6. Len(fs) # s.sequence
      <4>1. es[1].sequence > 0
        BY <2>1 DEF Told, Continued
      <4>2. es[1].sequence = s.sequence - Len(es) + 1
        BY <2>1, <3>2
      <4>3. QED
        BY <2>1, <3>1, <4>1, <4>2
    <3>7. QED
      BY <3>1, <3>4, <3>5, <3>6
  <2>4. t # None => d = t.completed /\ t.authorized = FloorWork(r.requested)
    BY DEF Accounts
  <2>5. QED
    BY <2>2, <2>3, <2>4 DEF Accounts
<1>3. QED
  BY <1>1, <1>2

\* An event that is booked with its work keeps the account balanced.
LEMMA AccountsNext ==
  ASSUME NEW r, NEW s \in Submission, s # None, NEW es \in Seq(Event), NEW d,
         Accounts(r, s, es, r, d),
         NEW work \in Nat, NEW t, t # None, NEW e \in Event, e.work = work,
         e.sequence = s.sequence + 1, t.sequence = s.sequence + 1,
         t.completed = s.completed + work, t.authorized = s.authorized
  PROVE  Accounts(r, t, Append(es, e), r, d + work)
<1> DEFINE fs == Append(es, e)
<1>1. /\ Len(es) \in Nat /\ Len(fs) = Len(es) + 1 /\ DOMAIN es = 1..Len(es)
      /\ DOMAIN fs = 1..(Len(es) + 1) /\ fs[Len(es) + 1] = e /\ \A i \in DOMAIN es : fs[i] = es[i]
  OBVIOUS
<1>2. s.sequence \in Nat /\ s.completed \in Nat
  BY DEF Submission
<1>3. WorkOf(fs) = WorkOf(es) + work /\ WorkOf(es) \in Nat
  BY WorkGrows, WorkFacts
<1>4. /\ d = s.completed /\ s.authorized = FloorWork(r.requested)
      /\ WorkOf(es) <= s.completed /\ (Len(es) = s.sequence => WorkOf(es) = s.completed)
      /\ \A i \in DOMAIN es : es[i].sequence = s.sequence - Len(es) + i
  BY DEF Accounts
<1> HIDE DEF fs
<1>5. WorkOf(fs) <= t.completed /\ (Len(fs) = t.sequence => WorkOf(fs) = t.completed)
  BY <1>1, <1>2, <1>3, <1>4
<1>6. ASSUME NEW i \in DOMAIN fs PROVE fs[i].sequence = t.sequence - Len(fs) + i
  <2>1. Len(fs) \in Nat /\ t.sequence = s.sequence + 1 /\ t.sequence \in Nat
    BY <1>1, <1>2
  <2>2. CASE i \in DOMAIN es
    <3>1. i \in Nat /\ fs[i].sequence = s.sequence - Len(es) + i
      BY <1>1, <1>4, <2>2
    <3>2. s.sequence - Len(es) + i = t.sequence - Len(fs) + i
      BY <1>1, <1>2, <2>1, <3>1, OnePlaceLater
    <3>3. QED
      BY <3>1, <3>2
  <2>3. CASE i = Len(es) + 1
    <3>1. fs[i].sequence = s.sequence + 1 /\ t.sequence = s.sequence + 1
      BY <1>1, <2>3
    <3>2. QED
      BY <1>1, <1>2, <2>3, <3>1
  <2>4. QED
    BY <1>1, <2>2, <2>3
<1>7. QED
  BY <1>4, <1>5, <1>6 DEF Accounts, fs

-----------------------------------------------------------------------------
(* The calls.                                                              *)

\* What the invariant says while the engine works.
LEMMA WorkingFacts ==
  ASSUME WorkflowInvariant
  PROVE  /\ submission \in [Requests -> Submission \cup {None}]
         /\ events \in [Requests -> Seq(Event)]
         /\ known \in [Key -> Requests \cup {None}] /\ done \in [Key -> Nat]
         /\ losses \in 0..MaxLosses /\ losses \in Nat
         /\ \A r \in Requests : r.key \in Key /\ r \in Request /\ r # None
         /\ losses = 0 =>
              /\ \A r \in Requests : /\ submission[r] # None => r \in ToSet(order)
                                     /\ Accounts(r, submission[r], events[r], known[r.key], done[r.key])
              /\ \A k \in Key :
                   /\ known[k] = None => done[k] = 0
                   /\ known[k] # None => known[k].key = k /\ done[k] <= FloorWork(known[k].requested)
<1>1. TypeOK
  BY DEF WorkflowInvariant, Typed
<1>2. losses = 0 => Booked(Held, done)
  BY DEF WorkflowInvariant
<1>3. \A r \in Requests : r.key \in Key /\ r \in Request /\ r # None
  BY WorkflowAssumption DEF Request
<1>4. losses \in 0..MaxLosses /\ losses \in Nat
  BY <1>1, WorkflowAssumption DEF TypeOK
<1>5. QED
  BY <1>1, <1>2, <1>3, <1>4, Zenon DEF TypeOK, Booked, Held

\* A transition with work that remains keeps the invariant.
LEMMA TransitionKeeps ==
  ASSUME WorkflowInvariant, backup = None, NEW r \in Requests, submission[r] # None,
         NEW to \in WorkflowState, NEW work \in Nat,
         submission[r].completed + work <= submission[r].authorized,
         NEW asOf \in Time, NEW cause \in Cause \cup {None},
         Transition(r, to, work, asOf, cause)
  PROVE  WorkflowInvariant'
<1> DEFINE s == submission[r]
           e == [sequence |-> s.sequence + 1, to |-> to, work |-> work, at |-> asOf,
                 cause |-> cause]
           t == [s EXCEPT !.state = to, !.completed = @ + work,
                          !.sequence = @ + 1, !.updated = asOf]
<1> USE DEF WorkflowInvariant
<1>0. Typed /\ Queued /\ TypeOK
  BY DEF Typed
<1>1. /\ to \in AllowedTransitions[s.state] /\ Fits(r, e) /\ Record(r, e) /\ Save(r, t)
      /\ done' = [done EXCEPT ![r.key] = @ + work] /\ UNCHANGED <<known, outside>>
  BY DEF Transition
<1>2. s \in Submission /\ s # None /\ events[r] \in Seq(Event)
  BY WorkingFacts
<1>3. asOf \in Nat /\ Time \subseteq Nat
  BY WorkflowAssumption DEF Time
<1>4. e \in Event
  BY <1>2, <1>3 DEF Event, Submission
<1>5. /\ t \in Submission /\ t # None /\ t.completed = s.completed + work
      /\ t.sequence = s.sequence + 1 /\ t.authorized = s.authorized
  <2>1. s.completed + work \in Nat /\ s.sequence + 1 \in Nat
    BY <1>2 DEF Submission
  <2>2. t \in Submission
    BY <1>2, <1>3, <2>1 DEF Submission
  <2>3. QED
    BY <1>2, <2>2, WorkflowAssumption DEF Submission
<1>6. /\ e.to = to /\ e.sequence = s.sequence + 1 /\ e.work = work
  OBVIOUS
<1> HIDE DEF e, t
<1>7. Told(t, Append(events[r], e))
  BY <1>0, <1>1, <1>4, <1>6, ToldNext DEF t
<1>8. /\ order' \in Seq(Requests) /\ Len(order') <= MaxSubmissions
      /\ submission' \in [Requests -> Submission \cup {None}]
      /\ submission'[r] \in {t, None}
      /\ \A q \in Requests : submission'[q] # None => q \in ToSet(order')
      /\ \A q \in Requests \ {r} : submission'[q] \in {submission[q], None}
  BY <1>0, <1>1, <1>5, SaveFacts
<1>9. /\ ledger' \in Seq(Requests) /\ Len(ledger') <= MaxEvents
      /\ events' \in [Requests -> Seq(Event)]
      /\ Queued'
      /\ events'[r] \in {Append(events[r], e), Tail(Append(events[r], e))}
      /\ \A q \in Requests \ {r} :
           events'[q] = events[q] \/ (events[q] # <<>> /\ events'[q] = Tail(events[q]))
  BY <1>0, <1>1, <1>4, RecordFacts
<1>10. Append(events[r], e) \in Seq(Event) /\ Append(events[r], e) # <<>>
  BY <1>2, <1>4
<1>11. r.key \in Key /\ done[r.key] \in Nat
  BY WorkingFacts
<1>12. Typed'
  <2>1. done' \in [Key -> Nat]
    BY <1>1, <1>11, WorkingFacts
  <2>2. known' \in [Key -> Requests \cup {None}] /\ losses' \in 0..MaxLosses /\ backup' = None
    BY <1>1, WorkingFacts DEF outside
  <2>3. QED
    BY <1>8, <1>9, <2>1, <2>2 DEF Typed, TypeOK
<1>13. ASSUME NEW q \in Requests PROVE Told(submission'[q], events'[q])
  <2>1. CASE q = r
    <3>1. events'[r] = Append(events[r], e) \/
            (Append(events[r], e) # <<>> /\ events'[r] = Tail(Append(events[r], e)))
      BY <1>9, <1>10
    <3>2. QED
      BY <1>5, <1>7, <1>8, <1>10, <2>1, <3>1, ToldLess
  <2>2. CASE q # r
    <3>1. Told(submission[q], events[q]) /\ submission[q] \in Submission \cup {None}
          /\ events[q] \in Seq(Event)
      BY WorkingFacts
    <3>2. submission'[q] \in {submission[q], None}
      BY <1>8, <2>2
    <3>3. events'[q] = events[q] \/ (events[q] # <<>> /\ events'[q] = Tail(events[q]))
      BY <1>9, <2>2
    <3>4. QED
      BY <3>1, <3>2, <3>3, ToldLess
  <2>3. QED
    BY <2>1, <2>2
<1>14. ASSUME losses' = 0 PROVE Booked(Held, done)'
  <2>1. losses = 0
    BY <1>1, <1>14 DEF outside
  <2>2. /\ \A q \in Requests : Accounts(q, submission[q], events[q], known[q.key], done[q.key])
        /\ \A k \in Key :
             /\ known[k] = None => done[k] = 0
             /\ known[k] # None => known[k].key = k /\ done[k] <= FloorWork(known[k].requested)
    BY <2>1, WorkingFacts
  <2>3. /\ known[r.key] = r /\ done[r.key] = s.completed
        /\ s.authorized = FloorWork(r.requested)
    BY <1>2, <2>2 DEF Accounts
  <2>4. /\ done'[r.key] = s.completed + work
        /\ \A k \in Key \ {r.key} : done'[k] = done[k]
    BY <1>1, <1>11, <2>3, WorkingFacts
  <2>5. known' = known /\ r # None
    BY <1>1, WorkingFacts
  <2>6. ASSUME NEW q \in Requests
        PROVE  Accounts(q, submission'[q], events'[q], known'[q.key], done'[q.key])
    <3>1. CASE q = r
      <4>1. Accounts(r, s, events[r], r, done[r.key])
        BY <2>2, <2>3
      <4>2. Accounts(r, t, Append(events[r], e), r, done[r.key] + work)
        BY <1>2, <1>4, <1>5, <1>6, <4>1, AccountsNext
      <4>3. events'[r] = Append(events[r], e) \/
              (Append(events[r], e) # <<>> /\ events'[r] = Tail(Append(events[r], e)))
        BY <1>9, <1>10
      <4>4. Accounts(r, submission'[r], events'[r], r, done[r.key] + work)
        <5>1. t \in Submission \cup {None} /\ submission'[r] \in {t, None}
          BY <1>5, <1>8
        <5>2. QED
          BY <1>7, <1>10, <4>2, <4>3, <5>1, AccountsLess
      <4>5. QED
        BY <2>3, <2>4, <2>5, <3>1, <4>4
    <3>2. CASE q # r
      <4>1. Told(submission[q], events[q]) /\ submission[q] \in Submission \cup {None}
            /\ events[q] \in Seq(Event)
        BY WorkingFacts
      <4>2. submission'[q] \in {submission[q], None}
        BY <1>8, <3>2
      <4>3. events'[q] = events[q] \/ (events[q] # <<>> /\ events'[q] = Tail(events[q]))
        BY <1>9, <3>2
      <4>4. Accounts(q, submission[q], events[q], known[q.key], done[q.key])
        BY <2>2
      <4>5. Accounts(q, submission'[q], events'[q], known[q.key], done[q.key])
        BY <4>1, <4>2, <4>3, <4>4, AccountsLess
      <4>6. CASE q.key = r.key
        <5>1. known[q.key] = r /\ events[q] = <<>> /\ submission[q] = None
          BY <2>3, <3>2, <4>4, <4>6 DEF Accounts
        <5>2. events'[q] = <<>> /\ submission'[q] = None
          BY <4>2, <4>3, <5>1
        <5>3. QED
          BY <5>2 DEF Accounts
      <4>7. CASE q.key # r.key
        BY <2>4, <2>5, <4>5, <4>7, WorkingFacts
      <4>8. QED
        BY <4>6, <4>7
    <3>3. QED
      BY <3>1, <3>2
  <2>7. ASSUME NEW k \in Key
        PROVE  /\ known'[k] = None => done'[k] = 0
               /\ known'[k] # None => known'[k].key = k /\ done'[k] <= FloorWork(known'[k].requested)
    <3>1. CASE k = r.key
      BY <2>3, <2>4, <2>5, <3>1
    <3>2. CASE k # r.key
      BY <2>2, <2>4, <2>5, <3>2
    <3>3. QED
      BY <3>1, <3>2
  <2>8. QED
    BY <1>8, <2>6, <2>7 DEF Booked, Held
<1>15. backup' = None
  BY <1>1 DEF outside
<1>16. QED
  BY <1>9, <1>12, <1>13, <1>14, <1>15

\* A submission that is saved without an event keeps the invariant if it agrees
\* with its events and its account.
LEMMA SaveKeeps ==
  ASSUME WorkflowInvariant, backup = None, NEW r \in Requests, NEW s \in Submission, Save(r, s),
         UNCHANGED <<events, ledger, done, outside>>, Told(s, events[r]),
         known' \in [Key -> Requests \cup {None}],
         \A k \in Key \ {r.key} : known'[k] = known[k],
         losses = 0 => /\ known'[r.key] = r /\ done[r.key] <= FloorWork(r.requested)
                       /\ Accounts(r, s, events[r], r, done[r.key])
                       /\ \A q \in Requests : q.key = r.key /\ q # r =>
                            submission[q] = None /\ events[q] = <<>>
  PROVE  WorkflowInvariant'
<1> USE DEF WorkflowInvariant
<1>1. Typed /\ Queued /\ TypeOK
  BY DEF Typed
<1>2. /\ order' \in Seq(Requests) /\ Len(order') <= MaxSubmissions
      /\ submission' \in [Requests -> Submission \cup {None}]
      /\ submission'[r] \in {s, None}
      /\ \A q \in Requests : submission'[q] # None => q \in ToSet(order')
      /\ \A q \in Requests \ {r} : submission'[q] \in {submission[q], None}
  BY <1>1, SaveFacts
<1>3. Typed'
  <2>1. backup' = None /\ done' = done /\ ledger' = ledger /\ events' = events /\ losses' = losses
    BY DEF outside
  <2>2. QED
    BY <1>1, <1>2, <2>1 DEF Typed, TypeOK
<1>4. Queued'
  BY <1>1 DEF Queued, Occurrences
<1>5. ASSUME NEW q \in Requests PROVE Told(submission'[q], events'[q])
  <2>1. events'[q] = events[q] /\ events[q] \in Seq(Event)
        /\ submission[q] \in Submission \cup {None} /\ Told(submission[q], events[q])
    BY WorkingFacts
  <2>2. CASE q = r
    BY <1>2, <2>1, <2>2, ToldLess
  <2>3. CASE q # r
    <3>1. submission'[q] \in {submission[q], None}
      BY <1>2, <2>3
    <3>2. QED
      BY <2>1, <3>1, ToldLess
  <2>4. QED
    BY <2>2, <2>3
<1>6. ASSUME losses' = 0 PROVE Booked(Held, done)'
  <2>1. losses = 0 /\ done' = done /\ events' = events
    BY <1>6 DEF outside
  <2>2. /\ \A q \in Requests : Accounts(q, submission[q], events[q], known[q.key], done[q.key])
        /\ \A k \in Key :
             /\ known[k] = None => done[k] = 0
             /\ known[k] # None => known[k].key = k /\ done[k] <= FloorWork(known[k].requested)
        /\ r.key \in Key /\ r # None
    BY <2>1, WorkingFacts
  <2>3. ASSUME NEW q \in Requests
        PROVE  Accounts(q, submission'[q], events[q], known'[q.key], done[q.key])
    <3>1. /\ events[q] \in Seq(Event) /\ submission[q] \in Submission \cup {None}
          /\ Told(submission[q], events[q]) /\ q.key \in Key
      BY WorkingFacts
    <3>2. CASE q = r
      <4>1. Accounts(r, s, events[r], r, done[r.key]) /\ known'[r.key] = r
        BY <2>1
      <4>2. Accounts(r, submission'[r], events[r], r, done[r.key])
        BY <1>2, <3>1, <3>2, <4>1, AccountsLess
      <4>3. QED
        BY <3>2, <4>1, <4>2
    <3>3. CASE q # r /\ q.key = r.key
      <4>1. submission[q] = None /\ events[q] = <<>>
        BY <2>1, <3>3
      <4>2. submission'[q] = None
        BY <1>2, <3>3, <4>1
      <4>3. QED
        BY <4>1, <4>2 DEF Accounts
    <3>4. CASE q.key # r.key
      <4>1. Accounts(q, submission[q], events[q], known[q.key], done[q.key])
        BY <2>2
      <4>2. submission'[q] \in {submission[q], None} /\ known'[q.key] = known[q.key]
        BY <1>2, <3>1, <3>4
      <4>3. QED
        BY <3>1, <4>1, <4>2, AccountsLess
    <3>5. QED
      BY <3>2, <3>3, <3>4
  <2>4. ASSUME NEW k \in Key
        PROVE  /\ known'[k] = None => done[k] = 0
               /\ known'[k] # None => known'[k].key = k /\ done[k] <= FloorWork(known'[k].requested)
    BY <2>1, <2>2
  <2>5. QED
    BY <1>2, <2>1, <2>3, <2>4 DEF Booked, Held
<1>7. backup' = None
  BY DEF outside
<1>8. QED
  BY <1>3, <1>4, <1>5, <1>6, <1>7

\* A request whose key is not known starts an account of its own.
LEMMA ProcessKeeps ==
  ASSUME WorkflowInvariant, backup = None, NEW r \in Requests, NEW asOf \in Time, Process(r, asOf)
  PROVE  WorkflowInvariant'
<1> DEFINE s == [state |-> "SUBMITTED", authorized |-> FloorWork(r.requested),
                 completed |-> 0, retries |-> 0, sequence |-> 0, updated |-> asOf,
                 timeout |-> asOf + TimeoutAfter, expires |-> r.expires]
<1>1. /\ known[r.key] = None /\ Save(r, s) /\ known' = [known EXCEPT ![r.key] = r]
      /\ UNCHANGED <<events, ledger, done, outside>>
  BY DEF Process
<1>2. r.key \in Key /\ r # None /\ r.requested \in Nat /\ r.expires \in Nat
  BY WorkingFacts DEF Request
<1>3. asOf \in Nat /\ asOf + TimeoutAfter \in Nat
  BY WorkflowAssumption DEF Time, WorkflowConfiguration
<1>4. FloorWork(r.requested) \in Nat
  BY <1>2, FloorFacts
<1>5. s \in Submission
  BY <1>2, <1>3, <1>4 DEF Submission, WorkflowState
<1>6. /\ s.state = "SUBMITTED" /\ s.completed = 0 /\ s.sequence = 0
      /\ s.authorized = FloorWork(r.requested)
  OBVIOUS
<1> HIDE DEF s
<1>7. Told(s, events[r])
  <2>1. Told(submission[r], events[r])
    BY DEF WorkflowInvariant
  <2>2. QED
    BY <1>4, <1>6, <2>1 DEF Told, Continued
<1>8. known' \in [Key -> Requests \cup {None}] /\ known'[r.key] = r
      /\ \A k \in Key \ {r.key} : known'[k] = known[k]
  BY <1>1, <1>2, WorkingFacts
<1>9. ASSUME losses = 0
      PROVE  /\ done[r.key] <= FloorWork(r.requested)
             /\ Accounts(r, s, events[r], r, done[r.key])
             /\ \A q \in Requests : q.key = r.key /\ q # r =>
                  submission[q] = None /\ events[q] = <<>>
  <2>1. /\ \A q \in Requests : Accounts(q, submission[q], events[q], known[q.key], done[q.key])
        /\ done[r.key] = 0 /\ \A q \in Requests : q # None
    BY <1>1, <1>2, <1>9, WorkingFacts
  <2>2. \A q \in Requests : q.key = r.key => submission[q] = None /\ events[q] = <<>>
    BY <1>1, <2>1 DEF Accounts
  <2>3. events[r] = <<>> /\ events[r] \in Seq(Event)
    BY <2>2, WorkingFacts
  <2>4. WorkOf(events[r]) = 0 /\ Len(events[r]) = 0 /\ DOMAIN events[r] = {}
    <3>1. WorkOf(events[r]) = 0
      BY <2>3, WorkFacts
    <3>2. Len(events[r]) = 0 /\ DOMAIN events[r] = {}
      BY <2>3
    <3>3. QED
      BY <3>1, <3>2
  <2>5. Accounts(r, s, events[r], r, done[r.key])
    BY <1>6, <2>1, <2>4 DEF Accounts
  <2>6. QED
    BY <1>4, <2>1, <2>2, <2>5
<1>10. QED
  BY <1>1, <1>5, <1>7, <1>8, <1>9, SaveKeeps

\* A retry leaves the account and the events as they are.
LEMMA RetryKeeps ==
  ASSUME WorkflowInvariant, backup = None, NEW r \in Requests, NEW asOf \in Time, Retry(r, asOf)
  PROVE  WorkflowInvariant'
<1> DEFINE s == [submission[r] EXCEPT !.state = "SUBMITTED", !.retries = @ + 1, !.updated = asOf]
<1>1. /\ submission[r] # None /\ Save(r, s) /\ UNCHANGED <<events, ledger, known, done, outside>>
  BY DEF Retry
<1>2. submission[r] \in Submission /\ r.key \in Key /\ r # None /\ r.requested \in Nat
  BY <1>1, WorkingFacts DEF Request
<1>3. asOf \in Nat
  BY WorkflowAssumption DEF Time
<1>4. s \in Submission
  <2>1. submission[r].retries + 1 \in Nat /\ "SUBMITTED" \in WorkflowState
    BY <1>2 DEF Submission, WorkflowState
  <2>2. QED
    BY <1>2, <1>3, <2>1 DEF Submission
<1>5. /\ s.state = "SUBMITTED" /\ s.completed = submission[r].completed
      /\ s.sequence = submission[r].sequence /\ s.authorized = submission[r].authorized
  BY <1>2 DEF Submission
<1>6. s # None
  BY <1>4, WorkflowAssumption
<1> HIDE DEF s
<1>7. Told(s, events[r])
  <2>1. Told(submission[r], events[r])
    BY DEF WorkflowInvariant
  <2>2. QED
    BY <1>1, <1>5, <2>1 DEF Told, Continued
<1>8. known' \in [Key -> Requests \cup {None}] /\ known' = known
  BY <1>1, WorkingFacts
<1>9. ASSUME losses = 0
      PROVE  /\ known[r.key] = r /\ done[r.key] <= FloorWork(r.requested)
             /\ Accounts(r, s, events[r], r, done[r.key])
             /\ \A q \in Requests : q.key = r.key /\ q # r =>
                  submission[q] = None /\ events[q] = <<>>
  <2>1. /\ \A q \in Requests : Accounts(q, submission[q], events[q], known[q.key], done[q.key])
        /\ \A k \in Key : known[k] # None => done[k] <= FloorWork(known[k].requested)
    BY <1>9, WorkingFacts
  <2>2. known[r.key] = r
    BY <1>1, <2>1 DEF Accounts
  <2>3. Accounts(r, s, events[r], r, done[r.key])
    BY <1>1, <1>5, <1>6, <2>1, <2>2 DEF Accounts
  <2>4. \A q \in Requests : q.key = r.key /\ q # r => submission[q] = None /\ events[q] = <<>>
    BY <2>1, <2>2 DEF Accounts
  <2>5. QED
    BY <1>2, <2>1, <2>2, <2>3, <2>4
<1>10. QED
  BY <1>1, <1>4, <1>7, <1>8, <1>9, SaveKeeps

\* complete takes no more than what remains.
LEMMA CompleteKeeps ==
  ASSUME WorkflowInvariant, backup = None, NEW r \in Requests, NEW amount \in Amount,
         NEW asOf \in Time, NEW cause \in Cause, Complete(r, amount, asOf, cause)
  PROVE  WorkflowInvariant'
<1> DEFINE s        == submission[r]
           accepted == FloorWork(Least(amount, Remaining(s)))
           to       == IF accepted = Remaining(s) THEN "COMPLETED" ELSE "PARTIALLY_COMPLETED"
<1>1. s # None /\ Transition(r, to, accepted, asOf, cause)
  BY DEF Complete
<1>2. s \in Submission /\ s.completed <= s.authorized /\ amount \in Nat
  BY <1>1, WorkingFacts, WorkflowAssumption DEF WorkflowInvariant, Told
<1>3. Remaining(s) \in Nat /\ s.completed \in Nat /\ s.authorized = s.completed + Remaining(s)
  BY <1>2 DEF Submission, Remaining
<1>4. Least(amount, Remaining(s)) \in Nat /\ Least(amount, Remaining(s)) <= Remaining(s)
  BY <1>2, <1>3 DEF Least
<1>5. accepted \in Nat /\ accepted <= Remaining(s)
  BY <1>3, <1>4, FloorFacts
<1> HIDE DEF accepted
<1>6. s.completed + accepted <= s.authorized
  BY <1>3, <1>5
<1>7. to \in WorkflowState
  BY DEF WorkflowState
<1> HIDE DEF to
<1>8. QED
  BY <1>1, <1>5, <1>6, <1>7, TransitionKeeps

\* The other calls that commit an event take no work.
LEMMA NoWorkKeeps ==
  ASSUME WorkflowInvariant, backup = None, NEW r \in Requests, NEW to \in WorkflowState,
         NEW asOf \in Time, Transition(r, to, 0, asOf, None)
  PROVE  WorkflowInvariant'
<1>1. submission[r] # None
  BY DEF Transition
<1>2. submission[r] \in Submission /\ submission[r].completed <= submission[r].authorized
  BY <1>1, WorkingFacts DEF WorkflowInvariant, Told
<1>3. submission[r].completed + 0 <= submission[r].authorized
  BY <1>2 DEF Submission
<1>4. QED
  BY <1>1, <1>3, TransitionKeeps

\* The calls of a running engine keep the invariant.
LEMMA WorkKeeps ==
  ASSUME WorkflowInvariant, backup = None, Work
  PROVE  WorkflowInvariant'
<1>1. PICK r \in Requests, asOf \in Time :
        \/ Process(r, asOf)
        \/ \E to \in WorkflowState : Answer(r, to, asOf)
        \/ \E amount \in Amount, cause \in Cause : Complete(r, amount, asOf, cause)
        \/ Expire(r, asOf)
        \/ TimeOut(r, asOf)
        \/ Retry(r, asOf)
  BY DEF Work
<1>2. CASE Process(r, asOf)
  BY <1>2, ProcessKeeps
<1>3. ASSUME NEW to \in WorkflowState, Answer(r, to, asOf) PROVE WorkflowInvariant'
  BY <1>3, NoWorkKeeps DEF Answer
<1>4. ASSUME NEW amount \in Amount, NEW cause \in Cause, Complete(r, amount, asOf, cause)
      PROVE  WorkflowInvariant'
  BY <1>4, CompleteKeeps
<1>5. CASE Expire(r, asOf)
  BY <1>5, NoWorkKeeps DEF Expire, WorkflowState
<1>6. CASE TimeOut(r, asOf)
  BY <1>6, NoWorkKeeps DEF TimeOut, WorkflowState
<1>7. CASE Retry(r, asOf)
  BY <1>7, RetryKeeps
<1>8. QED
  BY <1>1, <1>2, <1>3, <1>4, <1>5, <1>6, <1>7
-----------------------------------------------------------------------------
(* Recovery states.                                                        *)

\* An empty account is told, and balances.
LEMMA EmptyFacts ==
  ASSUME NEW r
  PROVE  Told(None, <<>>) /\ Accounts(r, None, <<>>, None, 0)
BY DEF Told, Continued, Refused, Accounts

\* An engine that holds nothing.
Nothing ==
  /\ submission = [r \in Requests |-> None] /\ order = <<>>
  /\ events = [r \in Requests |-> <<>>] /\ ledger = <<>>
  /\ known = [k \in Key |-> None] /\ done = [k \in Key |-> 0] /\ losses \in 0..MaxLosses

\* The invariant of an engine, the recovery state aside.
Balanced ==
  /\ TypeOK /\ Queued
  /\ \A r \in Requests : Told(submission[r], events[r])
  /\ Booked(Held, done)

\* It holds of an engine that holds nothing.
LEMMA NothingHeld == Nothing => Balanced
<1> SUFFICES ASSUME Nothing PROVE Balanced
  OBVIOUS
<1> USE DEF Nothing
<1>1. MaxSubmissions \in Nat /\ MaxEvents \in Nat
  BY WorkflowAssumption DEF WorkflowConfiguration
<1>2. TypeOK
  <2>1. <<>> \in Seq(Requests) /\ <<>> \in Seq(Event) /\ Len(<<>>) = 0
    OBVIOUS
  <2>2. QED
    BY <1>1, <2>1 DEF TypeOK
<1>3. Queued
  <2>1. SUFFICES ASSUME NEW r \in Requests PROVE Occurrences(<<>>, r) = Len(<<>>)
    BY DEF Queued
  <2>2. {i \in DOMAIN <<>> : <<>>[i] = r} = {}
    OBVIOUS
  <2>3. QED
    BY <2>2, FS_EmptySet DEF Occurrences
<1>4. \A r \in Requests : Told(submission[r], events[r])
  BY EmptyFacts
<1>5. \A r \in Requests : r.key \in Key
  BY WorkflowAssumption DEF Request
<1>6. Booked(Held, done)
  <2>1. \A r \in Requests : Accounts(r, submission[r], events[r], known[r.key], done[r.key])
    BY <1>5, EmptyFacts
  <2>2. QED
    BY <2>1 DEF Booked, Held
<1>7. QED
  BY <1>2, <1>3, <1>4, <1>6 DEF Balanced

\* A fresh engine keeps the invariant.
LEMMA InitKeeps == Init => WorkflowInvariant
<1>1. SUFFICES ASSUME Init PROVE WorkflowInvariant
  OBVIOUS
<1>2. Nothing
  BY <1>1, WorkflowAssumption DEF Init, Nothing
<1>3. Balanced /\ backup = None
  BY <1>1, <1>2, NothingHeld DEF Init
<1>4. QED
  BY <1>3 DEF WorkflowInvariant, Typed, Balanced

\* The recovery state is what the engine held, which holds nothing then.
LEMMA TakeBackupKeeps ==
  ASSUME WorkflowInvariant, TakeBackup
  PROVE  WorkflowInvariant'
<1>1. /\ backup' = Held /\ original' = [state |-> Held, done |-> done] /\ losses' = losses
      /\ submission' = [r \in Requests |-> None] /\ order' = <<>>
      /\ events' = [r \in Requests |-> <<>>] /\ ledger' = <<>>
      /\ known' = [k \in Key |-> None] /\ done' = [k \in Key |-> 0]
  BY DEF TakeBackup, StopAt, Held
<1>2. TypeOK /\ losses' \in 0..MaxLosses
  BY <1>1 DEF WorkflowInvariant, Typed, TypeOK
<1>3. Balanced'
  <2>1. Nothing'
    BY <1>1, <1>2 DEF Nothing
  <2>2. QED
    BY <2>1, NothingHeld, PTL
<1>4. /\ Held \in EngineState /\ Held.order = order
      /\ Held.submission = submission /\ Held.events = events
  BY <1>2 DEF Held, EngineState, TypeOK
<1>5. /\ Len(backup'.order) <= MaxSubmissions
      /\ original' \in [state : EngineState, done : [Key -> Nat]]
  BY <1>1, <1>2, <1>4 DEF TypeOK
<1>6. Remains'
  BY <1>1, <1>4 DEF Remains
<1>7. \A r \in Requests : Told(original'.state.submission[r], original'.state.events[r])
  BY <1>1, <1>4 DEF WorkflowInvariant
<1>8. losses' = 0 => backup' = original'.state /\ Booked(original'.state, original'.done)
  BY <1>1 DEF WorkflowInvariant
<1>9. QED
  BY <1>1, <1>3, <1>4, <1>5, <1>6, <1>7, <1>8 DEF WorkflowInvariant, Typed, Balanced

\* The engine that works on without the recovery state keeps the invariant.
LEMMA StartWithoutKeeps ==
  ASSUME WorkflowInvariant, StartWithout
  PROVE  WorkflowInvariant'
<1>1. backup' = None /\ UNCHANGED <<engine, losses>>
  BY DEF StartWithout
<1>2. Typed' /\ Queued'
  BY <1>1 DEF WorkflowInvariant, Typed, TypeOK, Queued, Occurrences, engine
<1>3. \A r \in Requests : Told(submission'[r], events'[r])
  BY <1>1 DEF WorkflowInvariant, engine
<1>4. Held' = Held /\ done' = done /\ losses' = losses
  BY <1>1 DEF Held, engine
<1>5. losses' = 0 => Booked(Held', done')
  BY <1>4 DEF WorkflowInvariant
<1>6. QED
  BY <1>1, <1>2, <1>3, <1>5 DEF WorkflowInvariant

\* What restore accepts of a recovery state is what the engine held of each
\* submission, or nothing, unless it was sent in anew and has taken no event.
LEMMA AcceptedFacts ==
  ASSUME WorkflowInvariant, backup # None, Acceptable(backup), NEW r \in Requests
  PROVE  LET s  == original.state.submission[r]
             es == original.state.events[r]
         IN \/ backup.submission[r] = None /\ backup.events[r] = <<>>
            \/ backup.submission[r] = s /\ backup.events[r] = es
            \/ /\ backup.submission[r] = s /\ backup.events[r] = <<>>
               /\ s # None /\ s.sequence = 0 /\ es # <<>>
<1> DEFINE s  == original.state.submission[r]
           es == original.state.events[r]
           fs == backup.events[r]
<1>1. /\ backup \in EngineState /\ original.state \in EngineState
      /\ Remains /\ Told(s, es)
  BY DEF WorkflowInvariant, Typed
<1>2. s \in Submission \cup {None} /\ es \in Seq(Event) /\ fs \in Seq(Event)
  BY <1>1 DEF EngineState
<1>3. backup.submission[r] \in {None, s} /\ (fs = es \/ Len(fs) < Len(es))
  BY <1>1 DEF Remains
<1>4. CASE backup.submission[r] = None
  BY <1>4 DEF Acceptable
<1>5. CASE backup.submission[r] # None
  <2>1. s # None /\ backup.submission[r] = s /\ Len(fs) = s.sequence
    BY <1>3, <1>5 DEF Acceptable, AddsUp
  <2>2. s.sequence \in Nat /\ Len(fs) \in Nat /\ Len(es) \in Nat
    BY <1>2, <2>1 DEF Submission
  <2>3. CASE fs = es
    BY <2>1, <2>3
  <2>4. CASE Len(fs) < Len(es)
    <3>1. 1 \in DOMAIN es /\ es # <<>>
      BY <1>2, <2>2, <2>4
    <3>2. ASSUME s.sequence > 0 PROVE FALSE
      <4>1. es[1].sequence = s.sequence - Len(es) + 1 /\ es[1].sequence > 0
        BY <1>1, <2>1, <3>1, <3>2 DEF Told, Continued
      <4>2. QED
        BY <2>1, <2>2, <2>4, <4>1
    <3>3. s.sequence = 0 /\ fs = <<>>
      BY <1>2, <2>1, <2>2, <3>2
    <3>4. QED
      BY <2>1, <3>1, <3>3
  <2>5. QED
    BY <1>3, <2>3, <2>4
<1>6. QED
  BY <1>4, <1>5

\* An accepted restore keeps the invariant.
LEMMA RestoreKeeps ==
  ASSUME WorkflowInvariant, RestoreAccepted
  PROVE  WorkflowInvariant'
<1>1. /\ backup # None /\ Acceptable(backup) /\ backup' = None /\ losses' = losses
      /\ submission' = backup.submission /\ order' = backup.order /\ events' = backup.events
      /\ ledger' \in Regrouped(backup.events) /\ known' = backup.known /\ done' = original.done
  BY DEF RestoreAccepted
<1>2. /\ backup \in EngineState /\ Len(backup.order) <= MaxSubmissions
      /\ original \in [state : EngineState, done : [Key -> Nat]] /\ losses \in 0..MaxLosses
  BY <1>1 DEF WorkflowInvariant, Typed, TypeOK
<1>3. ledger' \in Seq(Requests) /\ Len(ledger') <= MaxEvents
  <2>1. MaxEvents \in Nat
    BY WorkflowAssumption DEF WorkflowConfiguration
  <2>2. ledger' \in BoundedSeq(Requests, MaxEvents)
    BY <1>1 DEF Regrouped
  <2>3. PICK n \in 0..MaxEvents : ledger' \in [1..n -> Requests]
    BY <2>1, <2>2 DEF BoundedSeq, SeqOf
  <2>4. ledger' \in Seq(Requests) /\ Len(ledger') = n
    BY <2>1, <2>3
  <2>5. QED
    BY <2>1, <2>3, <2>4
<1>4. Typed'
  BY <1>1, <1>2, <1>3 DEF Typed, TypeOK, EngineState
<1>5. Queued'
  BY <1>1 DEF Queued, Regrouped, Occurrences
<1>6. ASSUME NEW r \in Requests PROVE Told(submission'[r], events'[r])
  <2> DEFINE s  == original.state.submission[r]
             es == original.state.events[r]
  <2>1. Told(s, es)
    BY <1>1 DEF WorkflowInvariant
  <2>2. CASE submission'[r] = None /\ events'[r] = <<>>
    BY <2>2, EmptyFacts
  <2>3. CASE submission'[r] = s /\ events'[r] = es
    BY <2>1, <2>3
  <2>4. CASE submission'[r] = s /\ events'[r] = <<>>
    <3>1. Told(s, <<>>)
      BY <2>1 DEF Told, Continued, Refused
    <3>2. QED
      BY <2>4, <3>1
  <2>5. QED
    BY <1>1, <2>2, <2>3, <2>4, AcceptedFacts
<1>7. ASSUME losses' = 0 PROVE Booked(Held', done')
  <2>1. backup = original.state /\ Booked(original.state, original.done)
    BY <1>1, <1>7 DEF WorkflowInvariant
  <2>2. Held' = backup
    BY <1>1, <1>2 DEF Held, EngineState
  <2>3. QED
    BY <1>1, <2>1, <2>2
<1>8. QED
  BY <1>1, <1>4, <1>5, <1>6, <1>7 DEF WorkflowInvariant

\* A sequence without one of its elements.
LEMMA RemoveFacts ==
  ASSUME NEW S, NEW es \in Seq(S), NEW i \in DOMAIN es
  PROVE  RemoveAt(es, i) \in Seq(S) /\ Len(RemoveAt(es, i)) = Len(es) - 1
<1>1. i \in 1..Len(es) /\ Len(es) \in Nat
  OBVIOUS
<1>2. SubSeq(es, 1, i - 1) \in Seq(S) /\ Len(SubSeq(es, 1, i - 1)) = i - 1
  BY <1>1
<1>3. SubSeq(es, i + 1, Len(es)) \in Seq(S) /\ Len(SubSeq(es, i + 1, Len(es))) = Len(es) - i
  BY <1>1
<1> DEFINE before == SubSeq(es, 1, i - 1)
           after  == SubSeq(es, i + 1, Len(es))
<1>4. RemoveAt(es, i) = before \o after
  BY DEF RemoveAt
<1> HIDE DEF before, after
<1>5. before \in Seq(S) /\ after \in Seq(S)
  BY <1>2, <1>3 DEF before, after
<1>6. before \o after \in Seq(S) /\ Len(before \o after) = Len(before) + Len(after)
  BY <1>5
<1>7. Len(before) + Len(after) = Len(es) - 1
  <2>1. \A a, b \in Nat : (b - 1) + (a - b) = a - 1
    OBVIOUS
  <2>2. QED
    BY <1>1, <1>2, <1>3, <2>1 DEF before, after
<1>8. QED
  BY <1>4, <1>6, <1>7

\* What a recovery state loses leaves of each submission what it was, or less.
LEMMA LoseRecordKeeps ==
  ASSUME WorkflowInvariant, LoseRecord
  PROVE  WorkflowInvariant'
<1>1. /\ backup # None /\ losses < MaxLosses /\ losses' = losses + 1
      /\ UNCHANGED <<engine, original>>
  BY DEF LoseRecord
<1>2. /\ backup \in EngineState /\ Len(backup.order) <= MaxSubmissions
      /\ original \in [state : EngineState, done : [Key -> Nat]]
      /\ losses \in 0..MaxLosses /\ TypeOK /\ Remains
  BY <1>1 DEF WorkflowInvariant, Typed, TypeOK
<1>3. losses' # 0 /\ losses' \in 0..MaxLosses
  BY <1>1, <1>2, WorkflowAssumption
<1>4. TypeOK' /\ Queued' /\ \A r \in Requests : Told(submission'[r], events'[r])
  BY <1>1, <1>3 DEF WorkflowInvariant, Typed, TypeOK, Queued, Occurrences, engine
<1> DEFINE Less(b) ==
             /\ b \in EngineState /\ Len(b.order) <= MaxSubmissions
             /\ \A r \in Requests :
                  /\ b.submission[r] \in {None, backup.submission[r]}
                  /\ b.events[r] = backup.events[r] \/ Len(b.events[r]) < Len(backup.events[r])
<1>5. ASSUME NEW r \in Requests, NEW i \in DOMAIN backup.events[r],
             backup' = [backup EXCEPT !.events[r] = RemoveAt(@, i)]
      PROVE  Less(backup')
  <2> DEFINE fs == RemoveAt(backup.events[r], i)
  <2>1. backup.events[r] \in Seq(Event)
    BY <1>2 DEF EngineState
  <2>2. fs \in Seq(Event) /\ Len(fs) < Len(backup.events[r])
    <3>1. fs \in Seq(Event) /\ Len(fs) = Len(backup.events[r]) - 1
      BY <2>1, RemoveFacts
    <3> HIDE DEF fs
    <3>2. QED
      BY <2>1, <3>1
  <2> HIDE DEF fs
  <2>3. /\ backup'.submission = backup.submission /\ backup'.order = backup.order
        /\ backup'.events = [backup.events EXCEPT ![r] = fs]
        /\ backup'.known = backup.known
    BY <1>2, <1>5 DEF EngineState, fs
  <2>4. backup'.events \in [Requests -> Seq(Event)]
    BY <1>2, <2>2, <2>3 DEF EngineState
  <2>5. backup' \in EngineState
    BY <1>2, <1>5, <2>2 DEF EngineState, fs
  <2>6. QED
    BY <1>2, <2>2, <2>3, <2>5 DEF EngineState
<1>6. ASSUME NEW i \in DOMAIN backup.order,
             backup' = [backup EXCEPT !.order = RemoveAt(@, i),
                                      !.submission[backup.order[i]] = None]
      PROVE  Less(backup')
  <2> DEFINE rest == RemoveAt(backup.order, i)
             r    == backup.order[i]
  <2>1. backup.order \in Seq(Requests) /\ r \in Requests
    BY <1>2 DEF EngineState
  <2>2. rest \in Seq(Requests) /\ Len(rest) = Len(backup.order) - 1
    BY <2>1, RemoveFacts
  <2> HIDE DEF rest
  <2>3. /\ backup'.submission = [backup.submission EXCEPT ![r] = None]
        /\ backup'.order = rest /\ backup'.events = backup.events
        /\ backup'.known = backup.known
    BY <1>2, <1>6 DEF EngineState, rest
  <2>4. Len(rest) <= MaxSubmissions
    BY <1>2, <2>1, <2>2, WorkflowAssumption DEF WorkflowConfiguration
  <2>5. backup' \in EngineState
    BY <1>2, <1>6, <2>1, <2>2 DEF EngineState, rest
  <2>6. QED
    BY <1>2, <2>1, <2>3, <2>4, <2>5 DEF EngineState
<1>7. ASSUME NEW k \in Key, backup' = [backup EXCEPT !.known[k] = None]
      PROVE  Less(backup')
  BY <1>2, <1>7 DEF EngineState
<1>8. Less(backup')
  BY <1>1, <1>5, <1>6, <1>7 DEF LoseRecord
<1>9. Remains'
  <2>1. SUFFICES ASSUME NEW r \in Requests
                 PROVE  LET es == original.state.events[r]
                        IN /\ backup'.submission[r] \in {None, original.state.submission[r]}
                           /\ backup'.events[r] = es \/ Len(backup'.events[r]) < Len(es)
    BY <1>1 DEF Remains
  <2>2. /\ backup.submission[r] \in {None, original.state.submission[r]}
        /\ \/ backup.events[r] = original.state.events[r]
           \/ Len(backup.events[r]) < Len(original.state.events[r])
    BY <1>2 DEF Remains
  <2>3. /\ backup.events[r] \in Seq(Event) /\ original.state.events[r] \in Seq(Event)
        /\ backup'.events[r] \in Seq(Event)
    BY <1>2, <1>8 DEF EngineState
  <2>4. /\ Len(backup.events[r]) \in Nat /\ Len(original.state.events[r]) \in Nat
        /\ Len(backup'.events[r]) \in Nat
    BY <2>3
  <2>5. /\ backup'.submission[r] \in {None, backup.submission[r]}
        /\ \/ backup'.events[r] = backup.events[r]
           \/ Len(backup'.events[r]) < Len(backup.events[r])
    BY <1>8
  <2>6. \A x, y, z \in Nat : x < y /\ y < z => x < z
    OBVIOUS
  <2>7. QED
    BY <2>2, <2>4, <2>5, <2>6
<1>10. \A r \in Requests : Told(original'.state.submission[r], original'.state.events[r])
  BY <1>1 DEF WorkflowInvariant
<1>11. QED
  BY <1>1, <1>2, <1>3, <1>4, <1>8, <1>9, <1>10 DEF WorkflowInvariant, Typed
-----------------------------------------------------------------------------
(* The theorems.                                                           *)

\* Every step keeps the invariant.
LEMMA NextKeeps == WorkflowInvariant /\ [Next]_vars => WorkflowInvariant'
<1>1. SUFFICES ASSUME WorkflowInvariant, [Next]_vars PROVE WorkflowInvariant'
  OBVIOUS
<1>2. CASE backup = None /\ Work
  BY <1>1, <1>2, WorkKeeps
<1>3. CASE TakeBackup
  BY <1>1, <1>3, TakeBackupKeeps
<1>4. CASE RestoreAccepted
  BY <1>1, <1>4, RestoreKeeps
<1>5. CASE StartWithout
  BY <1>1, <1>5, StartWithoutKeeps
<1>6. CASE LoseRecord
  BY <1>1, <1>6, LoseRecordKeeps
<1>7. CASE UNCHANGED vars
  <2>1. UNCHANGED <<submission, order, events, ledger, known, done, backup, original, losses>>
    BY <1>7 DEF vars, engine, outside
  <2>2. Typed' /\ Queued' /\ Remains' = Remains /\ Held' = Held
    BY <1>1, <2>1 DEF WorkflowInvariant, Typed, TypeOK, Queued, Occurrences, Remains, Held
  <2>3. QED
    BY <1>1, <2>1, <2>2 DEF WorkflowInvariant
<1>8. QED
  BY <1>1, <1>2, <1>3, <1>4, <1>5, <1>6, <1>7 DEF Next

\* The variables hold values of their types, submissions and events account for
\* each other, and so does what a recovery state keeps of them.
THEOREM WorkflowInvariantHolds == Spec => []WorkflowInvariant
<1>1. QED
  BY InitKeeps, NextKeeps, PTL DEF Spec

\* "process", "_transition" and "restore" of workflow.py: for every request, key
\* and bound, a submission has done no more than was authorized, its events are
\* its last ones, and they account for its work unless some were evicted.
THEOREM AccountsBalance == Spec => []Accounted
<1>1. ASSUME WorkflowInvariant PROVE Accounted
  <2>1. SUFFICES ASSUME losses = 0, NEW r \in Requests, submission[r] # None
                 PROVE  LET s  == submission[r]
                            es == events[r]
                        IN /\ r \in ToSet(order)
                           /\ s.completed <= s.authorized
                           /\ \A i \in DOMAIN es : es[i].sequence = s.sequence - Len(es) + i
                           /\ WorkOf(es) <= s.completed
                           /\ Len(es) = s.sequence => WorkOf(es) = s.completed
    BY DEF Accounted
  <2>2. /\ r \in ToSet(order)
        /\ Accounts(r, submission[r], events[r], known[r.key], done[r.key])
    BY <1>1, <2>1, WorkingFacts
  <2>3. Told(submission[r], events[r])
    BY <1>1 DEF WorkflowInvariant
  <2>4. QED
    BY <2>1, <2>2, <2>3 DEF Accounts, Told
<1>2. QED
  BY <1>1, WorkflowInvariantHolds, PTL

\* "Duplicate requests cannot increase work", and no late answer is taken: the
\* idempotency index and the transitions of workflow.py see to it, whatever is
\* evicted, retried and restored.
THEOREM WorkedOnce == Spec => []AnswersOnce
<1>1. ASSUME WorkflowInvariant PROVE AnswersOnce
  <2>1. WorkOncePerKey
    <3>1. SUFFICES ASSUME losses = 0, NEW k \in Key, done[k] > 0
                   PROVE  \E r \in Requests : r.key = k /\ done[k] <= FloorWork(r.requested)
      BY DEF WorkOncePerKey
    <3>2. /\ known[k] # None /\ known[k] \in Requests
          /\ known[k].key = k /\ done[k] <= FloorWork(known[k].requested)
      BY <1>1, <3>1, WorkingFacts
    <3>3. QED
      BY <3>2
  <2>2. \A r \in Requests : Refused(events[r])
    BY <1>1 DEF WorkflowInvariant, Told
  <2>3. LateAnswersRefused
    BY <2>2 DEF LateAnswersRefused, Refused, Answered
  <2>4. QED
    BY <2>1, <2>3 DEF AnswersOnce
<1>2. QED
  BY <1>1, WorkflowInvariantHolds, PTL

\* "Restarts preserve authorization and completion totals": restore checks the
\* sequence and the number of the events, so that a state which lost some of a
\* submission's events, and not all of it, is refused.
THEOREM TotalsPreserved == Spec => RestorePreservesTotals
<1>1. ASSUME WorkflowInvariant, RestoreAccepted, NEW r \in Requests,
             \/ original.state.submission[r] = None
             \/ Len(original.state.events[r]) = original.state.submission[r].sequence
      PROVE  \/ /\ submission'[r] = original.state.submission[r]
                /\ events'[r] = original.state.events[r]
             \/ submission'[r] = None /\ events'[r] = <<>>
  <2>1. /\ backup # None /\ Acceptable(backup)
        /\ submission'[r] = backup.submission[r] /\ events'[r] = backup.events[r]
    BY <1>1 DEF RestoreAccepted
  <2>2. original.state.events[r] \in Seq(Event)
    BY <1>1, <2>1 DEF WorkflowInvariant, Typed, EngineState
  <2>3. Len(original.state.events[r]) = 0 => original.state.events[r] = <<>>
    BY <2>2
  <2>4. QED
    BY <1>1, <2>1, <2>3, AcceptedFacts
<1>2. WorkflowInvariant =>
        [RestoreAccepted =>
           \A r \in Requests :
             LET s  == original.state.submission[r]
                 es == original.state.events[r]
             IN (s = None \/ Len(es) = s.sequence) =>
                  \/ submission'[r] = s /\ events'[r] = es
                  \/ submission'[r] = None /\ events'[r] = <<>>]_vars
  BY <1>1
<1>3. QED
  BY <1>2, WorkflowInvariantHolds, PTL DEF RestorePreservesTotals
=============================================================================
