------------------------------- MODULE Store -------------------------------
(***************************************************************************)
(* Python's OrderedDict as the engines use it, for entries that are        *)
(* records with a field "id": a sequence in the order of insertion; its    *)
(* sum; and what they keep, for the proofs about those engines.            *)
(***************************************************************************)
EXTENDS Integers, Sequences, SequencesExt,
        FiniteSetTheorems, SequenceTheorems, WellFoundedInduction, TLAPS

\* The entries with an identity (none or one).
Holding(store, id) == {i \in DOMAIN store : store[i].id = id}

Held(store, id) == Holding(store, id) # {}

Entry(store, id) == store[CHOOSE i \in DOMAIN store : store[i].id = id]

\* store[entry.id] = entry: an entry that is replaced keeps its place.
Put(store, entry) ==
  IF Held(store, entry.id)
  THEN [i \in DOMAIN store |-> IF store[i].id = entry.id THEN entry ELSE store[i]]
  ELSE Append(store, entry)

\* store.setdefault(entry.id, entry)
PutNew(store, entry) == IF Held(store, entry.id) THEN store ELSE Append(store, entry)

\* pop(id, None)
Without(store, id) ==
  IF Held(store, id) THEN RemoveAt(store, CHOOSE i \in Holding(store, id) : TRUE) ELSE store

\* popitem(last=False) while there are more than limit entries.
Evicted(store, limit) ==
  IF Len(store) <= limit THEN store
  ELSE [i \in 1..limit |-> store[Len(store) - limit + i]]

\* sum(amounts[x] for x in members)
SumOver(amounts, members) ==
  LET Of[S \in SUBSET members] ==
        IF S = {} THEN 0 ELSE LET x == CHOOSE y \in S : TRUE IN amounts[x] + Of[S \ {x}]
  IN Of[members]

-----------------------------------------------------------------------------
(* What is used of them again and again.                                   *)

\* The order of the natural numbers, as a set of pairs.
Smaller == {pair \in Nat \X Nat : pair[1] < pair[2]}

\* Any set of natural numbers has a least member in this order.
LEMMA SmallerWellFounded == IsWellFoundedOn(Smaller, Nat)
BY NatLessThanWellFounded DEF OpToRel, Smaller

\* Induction over the natural numbers, for a set.
LEMMA InductiveSet ==
  ASSUME NEW P, 0 \in P, \A n \in Nat : n \in P => n + 1 \in P
  PROVE  Nat \subseteq P
<1>1. SUFFICES ASSUME Nat \ P # {} PROVE FALSE
  OBVIOUS
<1>2. PICK n \in Nat \ P : \A m \in Nat \ P : ~(<<m, n>> \in Smaller)
  BY <1>1, SmallerWellFounded, WFMin
<1>3. n # 0 /\ n - 1 \in Nat /\ n - 1 \in P => FALSE
  BY <1>2
<1>4. n # 0 /\ n - 1 \in Nat /\ n - 1 < n
  BY <1>2
<1>5. <<n - 1, n>> \in Smaller
  <2>1. <<n - 1, n>> \in Nat \X Nat
    BY <1>2, <1>4
  <2>2. QED
    BY <1>4, <2>1 DEF Smaller
<1>6. QED
  BY <1>2, <1>3, <1>4, <1>5

\* f gives what n steps lead to from a first member of S.
Iterates(f, S, first, step, N) ==
  f \in [0..N -> S] /\ f[0] = first /\ \A n \in 1..N : f[n] = step[f[n - 1]]

\* Such a function is there.
LEMMA IterationFacts ==
  ASSUME NEW S, NEW first \in S, NEW step \in [S -> S], NEW N \in Nat
  PROVE  \E f : Iterates(f, S, first, step, N)
<1> DEFINE Is(f, m) == f[0] = first /\ \A n \in 1..m : f[n] = step[f[n - 1]]
           P == {m \in Nat : \E f \in [0..m -> S] : Is(f, m)}
<1>1. 0 \in P
  <2>1. [n \in 0..0 |-> first] \in [0..0 -> S] /\ Is([n \in 0..0 |-> first], 0)
    OBVIOUS
  <2>2. QED
    BY <2>1
<1>2. ASSUME NEW m \in Nat, m \in P PROVE m + 1 \in P
  <2> HIDE DEF Is
  <2>1. PICK f \in [0..m -> S] : Is(f, m)
    BY <1>2
  <2> USE DEF Is
  <2> DEFINE g == [n \in 0..(m + 1) |-> IF n <= m THEN f[n] ELSE step[f[m]]]
  <2>2. f[m] \in S /\ step[f[m]] \in S
    BY <2>1
  <2>3. g \in [0..(m + 1) -> S]
    BY <2>1, <2>2
  <2>4. g[0] = first /\ g[m + 1] = step[f[m]] /\ \A n \in 0..m : g[n] = f[n]
    BY <2>1, <2>2
  <2> HIDE DEF g
  <2>5. Is(g, m + 1)
    <3>1. ASSUME NEW n \in 1..(m + 1) PROVE g[n] = step[g[n - 1]]
      <4>1. CASE n <= m
        BY <2>1, <2>4, <4>1
      <4>2. CASE n = m + 1
        BY <2>4, <4>2
      <4>3. QED
        BY <4>1, <4>2
    <3>2. QED
      BY <2>4, <3>1
  <2>6. QED
    BY <2>3, <2>5
<1>3. Nat \subseteq P
  <2> HIDE DEF P
  <2> QED
    BY <1>1, <1>2, InductiveSet
<1>4. \E f \in [0..N -> S] : Is(f, N)
  <2> HIDE DEF Is
  <2> QED
    BY <1>3
<1>5. QED
  BY <1>4 DEF Iterates

\* f starts with first and makes the steps up to N, which differ.
Stepwise(f, S, first, N, step) ==
  /\ f \in [0..N -> S]
  /\ f[0] = first
  /\ \A n \in 1..N : f[n] = step[<<f[n - 1], n>>]

\* Such a function exists too.
LEMMA StepwiseFacts ==
  ASSUME NEW S, NEW first \in S, NEW N \in Nat, NEW step \in [S \X (1..N) -> S]
  PROVE  \E f : Stepwise(f, S, first, N, step)
<1> DEFINE Is(f, m) == f[0] = first /\ \A n \in 1..m : f[n] = step[<<f[n - 1], n>>]
           P == {m \in Nat : m <= N => \E f \in [0..m -> S] : Is(f, m)}
<1>1. 0 \in P
  <2>1. [n \in 0..0 |-> first] \in [0..0 -> S] /\ Is([n \in 0..0 |-> first], 0)
    OBVIOUS
  <2>2. QED
    BY <2>1
<1>2. ASSUME NEW m \in Nat, m \in P PROVE m + 1 \in P
  <2> HIDE DEF Is
  <2>1. SUFFICES ASSUME m + 1 <= N PROVE \E f \in [0..(m + 1) -> S] : Is(f, m + 1)
    OBVIOUS
  <2>2. PICK f \in [0..m -> S] : Is(f, m)
    BY <1>2, <2>1
  <2> USE DEF Is
  <2> DEFINE next == step[<<f[m], m + 1>>]
             g == [n \in 0..(m + 1) |-> IF n <= m THEN f[n] ELSE next]
  <2>3. f[m] \in S /\ next \in S
    <3>1. f[m] \in S /\ m + 1 \in 1..N
      BY <2>1, <2>2
    <3>2. <<f[m], m + 1>> \in S \X (1..N)
      BY <3>1
    <3>3. QED
      BY <3>1, <3>2
  <2> HIDE DEF next
  <2>4. g \in [0..(m + 1) -> S]
    BY <2>2, <2>3
  <2>5. g[0] = first /\ g[m + 1] = next /\ \A n \in 0..m : g[n] = f[n]
    BY <2>2, <2>3
  <2> HIDE DEF g
  <2>6. Is(g, m + 1)
    <3>1. ASSUME NEW n \in 1..(m + 1) PROVE g[n] = step[<<g[n - 1], n>>]
      <4>1. CASE n <= m
        BY <2>2, <2>5, <4>1
      <4>2. CASE n = m + 1
        BY <2>5, <4>2 DEF next
      <4>3. QED
        BY <4>1, <4>2
    <3>2. QED
      BY <2>5, <3>1
  <2>7. QED
    BY <2>4, <2>6
<1>3. Nat \subseteq P
  <2> HIDE DEF P
  <2> QED
    BY <1>1, <1>2, InductiveSet
<1>4. \E f \in [0..N -> S] : Is(f, N)
  <2> HIDE DEF Is
  <2> QED
    BY <1>3
<1>5. QED
  BY <1>4 DEF Stepwise

\* What the stores give back.
LEMMA EntryFacts ==
  ASSUME NEW S, NEW store \in Seq(S), NEW id, Held(store, id)
  PROVE  Entry(store, id) \in S /\ Entry(store, id).id = id
<1>1. PICK i \in DOMAIN store : store[i].id = id
  BY DEF Held, Holding
<1> DEFINE c == CHOOSE j \in DOMAIN store : store[j].id = id
<1>2. c \in DOMAIN store /\ store[c].id = id
  BY <1>1
<1>3. Entry(store, id) = store[c]
  BY DEF Entry
<1> HIDE DEF c
<1>4. QED
  BY <1>2, <1>3

\* Put replaces the entry of an identity that is held, and appends another.
LEMMA PutFacts ==
  ASSUME NEW S, NEW store \in Seq(S), NEW entry \in S
  PROVE  /\ Put(store, entry) \in Seq(S)
         /\ Held(store, entry.id) => Len(Put(store, entry)) = Len(store)
         /\ ~Held(store, entry.id) => Put(store, entry) = Append(store, entry)
<1>1. CASE Held(store, entry.id)
  <2> DEFINE after == [i \in DOMAIN store |-> IF store[i].id = entry.id THEN entry ELSE store[i]]
  <2>1. DOMAIN store = 1..Len(store) /\ Len(store) \in Nat
    OBVIOUS
  <2>2. after \in [1..Len(store) -> S]
    BY <2>1
  <2>3. Put(store, entry) = after
    BY <1>1 DEF Put
  <2> HIDE DEF after
  <2>4. after \in Seq(S) /\ Len(after) = Len(store)
    BY <2>1, <2>2
  <2>5. QED
    BY <1>1, <2>3, <2>4
<1>2. CASE ~Held(store, entry.id)
  BY <1>2 DEF Put
<1>3. QED
  BY <1>1, <1>2

\* A store that has been put an entry holds nothing else that is new.
Placed(S, store, entry) ==
  /\ Put(store, entry) \in Seq(S)
  /\ \A i \in 1..Len(Put(store, entry)) :
       \/ Put(store, entry)[i] = entry
       \/ i \in 1..Len(store) /\ Put(store, entry)[i] = store[i]

\* Put brings in nothing but its entry.
LEMMA PlacedFacts ==
  ASSUME NEW S, NEW store \in Seq(S), NEW entry \in S
  PROVE  Placed(S, store, entry)
<1>1. /\ Put(store, entry) \in Seq(S) /\ Len(store) \in Nat
      /\ Held(store, entry.id) => Len(Put(store, entry)) = Len(store)
  BY PutFacts
<1>2. CASE Held(store, entry.id)
  BY <1>1, <1>2 DEF Put, Placed
<1>3. CASE ~Held(store, entry.id)
  <2>1. Put(store, entry) = Append(store, entry)
    BY <1>3 DEF Put
  <2>2. QED
    BY <1>1, <2>1 DEF Placed
<1>4. QED
  BY <1>2, <1>3

\* Eviction leaves no more than the limit, and nothing out while there is room.
LEMMA EvictedFacts ==
  ASSUME NEW S, NEW store \in Seq(S), NEW limit \in Nat
  PROVE  /\ Evicted(store, limit) \in Seq(S)
         /\ Len(Evicted(store, limit)) <= limit
         /\ Len(store) <= limit => Evicted(store, limit) = store
<1>1. Len(store) \in Nat /\ \A i \in 1..Len(store) : store[i] \in S
  OBVIOUS
<1>2. CASE Len(store) <= limit
  BY <1>1, <1>2 DEF Evicted
<1>3. CASE Len(store) > limit
  <2> DEFINE after == [i \in 1..limit |-> store[Len(store) - limit + i]]
  <2>1. \A i \in 1..limit : Len(store) - limit + i \in 1..Len(store)
    BY <1>1, <1>3
  <2>2. after \in [1..limit -> S]
    BY <1>1, <2>1
  <2>3. Evicted(store, limit) = after
    BY <1>1, <1>3 DEF Evicted
  <2> HIDE DEF after
  <2>4. after \in Seq(S) /\ Len(after) = limit
    BY <2>2
  <2>5. QED
    BY <1>1, <1>3, <2>3, <2>4
<1>4. QED
  BY <1>1, <1>2, <1>3

\* A set of positions is finite, with at most as many members as positions.
LEMMA PositionsFinite ==
  ASSUME NEW n \in Nat, NEW S, S \subseteq 1..n
  PROVE  IsFiniteSet(S) /\ Cardinality(S) \in Nat
<1>1. IsFiniteSet(1..n)
  <2>1. 1 \in Int /\ n \in Int
    OBVIOUS
  <2>2. QED
    BY <2>1, FS_Interval
<1>2. IsFiniteSet(S)
  BY <1>1, FS_Subset
<1>3. QED
  BY <1>2, FS_CardinalityType

\* A set of natural numbers has a least one.
LEMMA LeastOf ==
  ASSUME NEW S \in SUBSET Nat, S # {}
  PROVE  Min(S) \in S /\ \A m \in S : Min(S) <= m
<1>1. PICK n \in S : \A m \in S : ~(<<m, n>> \in Smaller)
  BY SmallerWellFounded, WFMin
<1>2. \A m \in S : n <= m
  <2>1. SUFFICES ASSUME NEW m \in S, m < n PROVE FALSE
    BY <1>1
  <2>2. <<m, n>> \in Nat \X Nat
    OBVIOUS
  <2>3. <<m, n>> \in Smaller
    BY <2>1, <2>2 DEF Smaller
  <2>4. QED
    BY <1>1, <2>3
<1>3. QED
  BY <1>1, <1>2 DEF Min

\* A set of numbers that is bounded has a greatest one.
LEMMA GreatestOf ==
  ASSUME NEW n \in Nat, NEW S \in SUBSET (0..n), S # {}
  PROVE  Max(S) \in S /\ \A k \in S : k <= Max(S)
<1> DEFINE T == {m \in Nat : \A k \in S : k <= m}
<1>1. T # {} /\ T \in SUBSET Nat
  OBVIOUS
<1>2. PICK m \in T : \A l \in T : m <= l
  <2> HIDE DEF T
  <2>1. QED
    BY <1>1, LeastOf
<1>3. m \in S
  <2> SUFFICES ASSUME m \notin S PROVE FALSE
    OBVIOUS
  <2>1. PICK k \in S : TRUE
    OBVIOUS
  <2>2. m > 0 /\ \A j \in S : j <= m - 1
    BY <1>2, <2>1
  <2>3. m - 1 \in T
    BY <1>2, <2>2
  <2>4. QED
    BY <1>2, <2>3
<1>4. \E x \in S : \A k \in S : x >= k
  BY <1>2, <1>3
<1>5. Max(S) \in S /\ \A k \in S : Max(S) >= k
  BY <1>4 DEF Max
<1>6. QED
  BY <1>5

\* Removing an element leaves the others in their order.
LEMMA RemovedFacts ==
  ASSUME NEW S, NEW s \in Seq(S), NEW i \in 1..Len(s)
  PROVE  /\ RemoveAt(s, i) \in Seq(S)
         /\ Len(RemoveAt(s, i)) = Len(s) - 1
         /\ \A j \in 1..(Len(s) - 1) : RemoveAt(s, i)[j] = IF j < i THEN s[j] ELSE s[j + 1]
<1> DEFINE front == SubSeq(s, 1, i - 1)
           back == SubSeq(s, i + 1, Len(s))
<1>1. Len(s) \in Nat /\ i \in Nat /\ 1 <= i /\ i <= Len(s) /\ \A j \in 1..Len(s) : s[j] \in S
  OBVIOUS
<1>2. /\ front \in Seq(S) /\ Len(front) = i - 1
      /\ \A j \in 1..(i - 1) : front[j] = s[j]
  <2>1. /\ 1 \in Int /\ i - 1 \in Int
        /\ \A j \in 1..(i - 1) : s[j] \in S
    BY <1>1
  <2>2. /\ front \in Seq(S) /\ Len(front) = (IF 1 <= i - 1 THEN (i - 1) - 1 + 1 ELSE 0)
        /\ \A j \in 1..((i - 1) - 1 + 1) : front[j] = s[1 + j - 1]
    <3> HIDE <1>1
    <3> QED
      BY <2>1, SubSeqProperties
  <2> HIDE DEF front
  <2>3. Len(front) = i - 1
    BY <1>1, <2>2
  <2>4. ASSUME NEW j \in 1..(i - 1) PROVE front[j] = s[j]
    <3>1. j \in 1..((i - 1) - 1 + 1) /\ 1 + j - 1 = j
      BY <1>1
    <3>2. QED
      BY <2>2, <3>1
  <2>5. QED
    BY <2>2, <2>3, <2>4
<1>3. /\ back \in Seq(S) /\ Len(back) = Len(s) - i
      /\ \A j \in 1..(Len(s) - i) : back[j] = s[j + i]
  <2>1. /\ i + 1 \in Int /\ Len(s) \in Int
        /\ \A j \in (i + 1)..Len(s) : s[j] \in S
    BY <1>1
  <2>2. /\ back \in Seq(S) /\ Len(back) = (IF i + 1 <= Len(s) THEN Len(s) - (i + 1) + 1 ELSE 0)
        /\ \A j \in 1..(Len(s) - (i + 1) + 1) : back[j] = s[(i + 1) + j - 1]
    BY <2>1, SubSeqProperties
  <2> HIDE DEF back
  <2>3. QED
    BY <1>1, <2>2
<1>4. RemoveAt(s, i) = front \o back
  BY DEF RemoveAt
<1> HIDE DEF front, back
<1>5. /\ RemoveAt(s, i) \in Seq(S) /\ Len(RemoveAt(s, i)) = Len(front) + Len(back)
      /\ \A j \in 1..(Len(front) + Len(back)) :
           RemoveAt(s, i)[j] = IF j <= Len(front) THEN front[j] ELSE back[j - Len(front)]
  <2>1. front \in Seq(S) /\ back \in Seq(S)
    BY <1>2, <1>3
  <2>2. /\ front \o back \in Seq(S) /\ Len(front \o back) = Len(front) + Len(back)
        /\ \A j \in 1..(Len(front) + Len(back)) :
             (front \o back)[j] = IF j <= Len(front) THEN front[j] ELSE back[j - Len(front)]
    BY <2>1, ConcatProperties
  <2>3. QED
    BY <1>4, <2>2
<1>6. ASSUME NEW j \in 1..(Len(s) - 1)
      PROVE  RemoveAt(s, i)[j] = IF j < i THEN s[j] ELSE s[j + 1]
  <2>1. j \in 1..(Len(front) + Len(back)) /\ (j <= Len(front) <=> j < i)
    BY <1>1, <1>2, <1>3
  <2>2. CASE j < i
    BY <1>1, <1>2, <1>5, <2>1, <2>2
  <2>3. CASE j >= i
    <3>1. j - Len(front) \in 1..(Len(s) - i) /\ (j - Len(front)) + i = j + 1 /\ ~(j <= Len(front))
      BY <1>1, <1>2, <2>3
    <3>2. RemoveAt(s, i)[j] = back[j - Len(front)]
      BY <1>5, <2>1, <3>1
    <3>3. back[j - Len(front)] = s[(j - Len(front)) + i]
      BY <1>3, <3>1
    <3>4. QED
      BY <1>1, <2>3, <3>1, <3>2, <3>3
  <2>4. QED
    BY <1>1, <2>2, <2>3
<1>7. QED
  BY <1>1, <1>2, <1>3, <1>5, <1>6

\* What is left without an entry was there before.
LEMMA WithoutFacts ==
  ASSUME NEW S, NEW store \in Seq(S), NEW id
  PROVE  Without(store, id) \in Seq(S)
<1>1. CASE Held(store, id)
  <2> DEFINE i == CHOOSE j \in Holding(store, id) : TRUE
  <2>1. i \in 1..Len(store)
    BY <1>1 DEF Held, Holding
  <2>2. Without(store, id) = RemoveAt(store, i)
    BY <1>1 DEF Without
  <2> HIDE DEF i
  <2>3. QED
    BY <2>1, <2>2, RemovedFacts
<1>2. CASE ~Held(store, id)
  BY <1>2 DEF Without
<1>3. QED
  BY <1>1, <1>2

\* An entry that is put is the only one of its identity, and nothing else is lost.
LEMMA PutApart ==
  ASSUME NEW S, NEW store \in Seq(S), NEW entry
  PROVE  /\ Put(store, entry) \in Seq({s \in S : s.id # entry.id} \cup {entry})
         /\ Held(Put(store, entry), entry.id)
         /\ \A id : Held(store, id) => Held(Put(store, entry), id)
<1> DEFINE T == {s \in S : s.id # entry.id} \cup {entry}
           after == [i \in DOMAIN store |-> IF store[i].id = entry.id THEN entry ELSE store[i]]
<1>1. DOMAIN store = 1..Len(store) /\ Len(store) \in Nat /\ \A i \in DOMAIN store : store[i] \in S
  OBVIOUS
<1>2. CASE Held(store, entry.id)
  <2>1. Put(store, entry) = after
    BY <1>2 DEF Put
  <2>2. after \in [1..Len(store) -> T]
    BY <1>1
  <2>3. \A i \in DOMAIN store : i \in DOMAIN after /\ after[i].id = store[i].id
    OBVIOUS
  <2> HIDE DEF after, T
  <2>4. after \in Seq(T)
    BY <1>1, <2>2
  <2>5. \A id : Held(store, id) => Held(after, id)
    BY <2>3 DEF Held, Holding
  <2>6. QED
    BY <1>2, <2>1, <2>4, <2>5 DEF T
<1>3. CASE ~Held(store, entry.id)
  <2>1. Put(store, entry) = Append(store, entry)
    BY <1>3 DEF Put
  <2>2. \A i \in 1..Len(store) : store[i] \in T
    BY <1>1, <1>3 DEF Held, Holding
  <2>3. store \in Seq(T) /\ entry \in T
    <3> HIDE DEF T
    <3>1. store \in Seq(T)
      BY <1>1, <2>2
    <3>2. QED
      BY <3>1 DEF T
  <2> HIDE DEF T
  <2> DEFINE more == Append(store, entry)
  <2>4. /\ more \in Seq(T) /\ DOMAIN more = 1..(Len(store) + 1)
        /\ more[Len(store) + 1] = entry /\ \A i \in DOMAIN store : more[i] = store[i]
    BY <1>1, <2>3
  <2> HIDE DEF more
  <2>5. Held(more, entry.id)
    BY <1>1, <2>4 DEF Held, Holding
  <2>6. \A id : Held(store, id) => Held(more, id)
    BY <1>1, <2>4 DEF Held, Holding
  <2>7. QED
    BY <2>1, <2>4, <2>5, <2>6 DEF T, more
<1>4. QED
  BY <1>2, <1>3

-----------------------------------------------------------------------------
(* Sums: SumOver adds up its members, whichever is picked first.           *)

\* A member of a set that is not empty.
Picked(S) == CHOOSE y \in S : TRUE

\* g gives the sums over the subsets of S.
IsSum(f, S, g) == g = [T \in SUBSET S |-> IF T = {} THEN 0 ELSE f[Picked(T)] + g[T \ {Picked(T)}]]

\* What was picked is a member.
LEMMA PickedFacts ==
  ASSUME NEW T, IsFiniteSet(T), T # {}
  PROVE  Picked(T) \in T
BY DEF Picked

\* A set without one of its members.
LEMMA OneLess ==
  ASSUME NEW T, IsFiniteSet(T), NEW x \in T
  PROVE  /\ IsFiniteSet(T \ {x}) /\ Cardinality(T) \in Nat \ {0}
         /\ Cardinality(T \ {x}) = Cardinality(T) - 1
<1>1. IsFiniteSet(T \ {x}) /\ Cardinality(T \ {x}) = Cardinality(T) - 1
  BY FS_RemoveElement
<1>2. Cardinality(T) \in Nat /\ Cardinality(T) # 0
  BY FS_CardinalityType, FS_EmptySet
<1>3. QED
  BY <1>1, <1>2

\* Such a function is there.
LEMMA SumsExist ==
  ASSUME NEW f, NEW S, IsFiniteSet(S)
  PROVE  \E g : IsSum(f, S, g)
<1> DEFINE G(n) == {T \in SUBSET S : Cardinality(T) <= n}
           Value(g, T) == IF T = {} THEN 0 ELSE f[Picked(T)] + g[T \ {Picked(T)}]
           Is(g, n) == g = [T \in G(n) |-> g[T]] /\ \A T \in G(n) : g[T] = Value(g, T)
           P == {n \in Nat : \E g : Is(g, n)}
<1>1. \A T \in SUBSET S : IsFiniteSet(T) /\ Cardinality(T) \in Nat /\ (T # {} => Picked(T) \in T)
  BY FS_Subset, FS_CardinalityType, PickedFacts
<1>2. \A T \in SUBSET S : Cardinality(T) = 0 <=> T = {}
  BY <1>1, FS_EmptySet
<1>3. \A n \in Nat : \A T \in SUBSET S :
        T # {} /\ Cardinality(T) <= n + 1 => T \ {Picked(T)} \in G(n)
  BY <1>1, OneLess
<1>4. 0 \in P
  <2> DEFINE g == [T \in G(0) |-> 0]
  <2>1. \A T \in G(0) : T = {} /\ g[T] = 0
    BY <1>1, <1>2
  <2>2. g = [T \in G(0) |-> g[T]]
    OBVIOUS
  <2> HIDE DEF g
  <2>3. Is(g, 0)
    <3>1. \A T \in G(0) : g[T] = Value(g, T)
      BY <2>1
    <3> HIDE DEF Value, G
    <3> QED
      BY <2>2, <3>1
  <2>4. QED
    BY <2>3
<1>5. ASSUME NEW n \in Nat, n \in P PROVE n + 1 \in P
  <2>1. PICK g : Is(g, n)
    BY <1>5
  <2> DEFINE h == [T \in G(n + 1) |-> IF T \in G(n) THEN g[T] ELSE Value(g, T)]
  <2>2. h = [T \in G(n + 1) |-> h[T]]
    OBVIOUS
  <2>3. G(n) \subseteq G(n + 1)
    BY <1>1
  <2>4. \A T \in G(n) : h[T] = g[T]
    BY <2>3
  <2>5. \A T \in G(n + 1) : T \notin G(n) => h[T] = Value(g, T)
    OBVIOUS
  <2>6. \A T \in G(n) : g[T] = Value(g, T)
    BY <2>1
  <2> HIDE DEF h
  <2>7. ASSUME NEW T \in G(n + 1) PROVE h[T] = Value(h, T)
    <3>1. h[T] = Value(g, T)
      BY <2>4, <2>5, <2>6
    <3>2. T # {} => h[T \ {Picked(T)}] = g[T \ {Picked(T)}]
      BY <1>3, <2>4
    <3>3. QED
      BY <3>1, <3>2
  <2>8. Is(h, n + 1)
    <3> HIDE DEF Value, G
    <3> QED
      BY <2>2, <2>7
  <2>9. QED
    <3> HIDE DEF Is
    <3> QED
      BY <2>8
<1>6. Nat \subseteq P
  <2> HIDE DEF P
  <2> QED
    BY <1>4, <1>5, InductiveSet
<1> DEFINE N == Cardinality(S)
<1>7. N \in Nat /\ G(N) = SUBSET S
  <2>1. \A T \in SUBSET S : Cardinality(T) <= N
    BY FS_Subset
  <2>2. QED
    BY <1>1, <2>1
<1>8. PICK g : Is(g, N)
  <2> HIDE DEF Is, G
  <2> QED
    BY <1>6, <1>7
<1>9. g = [T \in SUBSET S |-> g[T]] /\ \A T \in SUBSET S : g[T] = Value(g, T)
  BY <1>7, <1>8
<1>10. IsSum(f, S, g)
  BY <1>9 DEF IsSum
<1>11. QED
  BY <1>10

\* The amounts of the members are natural numbers.
Amounts(f, S) == \A x \in S : f[x] \in Nat

\* Whatever is picked first, g gives natural sums.
Adds(f, S, g) ==
  g[{}] = 0 /\ \A T \in SUBSET S : g[T] \in Nat /\ \A x \in T : g[T] = f[x] + g[T \ {x}]

\* The sum is that of the function, whatever is picked first.
LEMMA AddsFacts ==
  ASSUME NEW f, NEW S, IsFiniteSet(S), NEW g, IsSum(f, S, g), Amounts(f, S)
  PROVE  Adds(f, S, g)
<1> DEFINE Good(T) == g[T] \in Nat /\ \A x \in T : g[T] = f[x] + g[T \ {x}]
           P == {n \in Nat : \A T \in SUBSET S : Cardinality(T) <= n => Good(T)}
<1>1. \A T \in SUBSET S : g[T] = IF T = {} THEN 0 ELSE f[Picked(T)] + g[T \ {Picked(T)}]
  BY DEF IsSum
<1>2. \A T \in SUBSET S : IsFiniteSet(T) /\ Cardinality(T) \in Nat /\ (T # {} => Picked(T) \in T)
  BY FS_Subset, FS_CardinalityType, PickedFacts
<1>3. \A T \in SUBSET S : Cardinality(T) = 0 <=> T = {}
  BY <1>2, FS_EmptySet
<1>4. 0 \in P
  <2>1. \A T \in SUBSET S : Cardinality(T) <= 0 => T = {}
    BY <1>2, <1>3
  <2>2. g[{}] = 0
    <3>1. {} \in SUBSET S
      OBVIOUS
    <3>2. QED
      BY <1>1, <3>1
  <2>3. Good({})
    BY <2>2
  <2>4. QED
    <3> HIDE DEF Good
    <3> QED
      BY <2>1, <2>3
<1> HIDE DEF Good
<1>5. ASSUME NEW n \in Nat, n \in P PROVE n + 1 \in P
  <2> SUFFICES ASSUME NEW T \in SUBSET S, Cardinality(T) <= n + 1 PROVE Good(T)
    OBVIOUS
  <2>1. \A U \in SUBSET S : Cardinality(U) <= n => Good(U)
    BY <1>5
  <2>2. CASE T = {}
    <3>1. g[{}] = 0
      BY <1>1, <2>2
    <3>2. QED
      BY <2>2, <3>1 DEF Good
  <2>3. CASE T # {}
    <3> DEFINE y == Picked(T)
               V == T \ {y}
    <3>1. y \in T /\ g[T] = f[y] + g[V] /\ V \in SUBSET S /\ Cardinality(V) <= n
      BY <1>1, <1>2, <2>3, OneLess
    <3>2. Good(V)
      BY <2>1, <3>1
    <3> HIDE DEF y, V
    <3>3. g[T] \in Nat
      <4>1. f[y] \in Nat /\ g[V] \in Nat
        BY <3>1, <3>2 DEF Good, Amounts
      <4>2. QED
        BY <3>1, <4>1
    <3>4. ASSUME NEW x \in T PROVE g[T] = f[x] + g[T \ {x}]
      <4>1. CASE x = y
        BY <3>1, <4>1 DEF V
      <4>2. CASE x # y
        <5> DEFINE W == T \ {x}
        <5>1. x \in V /\ y \in W /\ W \in SUBSET S /\ Cardinality(W) <= n
          BY <1>2, <3>1, <4>2, OneLess DEF V
        <5>2. Good(W)
          BY <2>1, <5>1
        <5>3. V \ {x} = W \ {y}
          BY DEF V
        <5>4. g[V] = f[x] + g[V \ {x}]
          BY <3>2, <5>1 DEF Good
        <5>5. g[W] = f[y] + g[W \ {y}]
          <6> HIDE DEF W
          <6> QED
            BY <5>1, <5>2 DEF Good
        <5>6. Good(V \ {x})
          <6>1. V \ {x} \in SUBSET S /\ Cardinality(V \ {x}) <= n
            <7>1. IsFiniteSet(V) /\ V \ {x} \in SUBSET S
              BY <1>2, <3>1
            <7>2. Cardinality(V) \in Nat /\ Cardinality(V \ {x}) = Cardinality(V) - 1
              BY <5>1, <7>1, OneLess
            <7>3. QED
              BY <3>1, <7>1, <7>2
          <6>2. QED
            BY <2>1, <6>1
        <5>7. f[x] \in Nat /\ f[y] \in Nat /\ g[V \ {x}] \in Nat
          BY <3>1, <5>1, <5>6 DEF Good, Amounts
        <5> DEFINE a == g[V \ {x}]
        <5> HIDE DEF a
        <5>8. g[V] = f[x] + a /\ g[W] = f[y] + a /\ a \in Nat
          BY <5>3, <5>4, <5>5, <5>7 DEF a
        <5> HIDE DEF W
        <5>9. g[T] = f[x] + g[W]
          BY <3>1, <5>7, <5>8
        <5>10. QED
          BY <5>9 DEF W
      <4>3. QED
        BY <4>1, <4>2
    <3>5. QED
      BY <3>3, <3>4 DEF Good
  <2>4. QED
    BY <2>2, <2>3
<1>6. Nat \subseteq P
  <2> HIDE DEF P
  <2> QED
    BY <1>4, <1>5, InductiveSet
<1>7. \A T \in SUBSET S : Good(T)
  BY <1>2, <1>6
<1>8. g[{}] = 0
  <2>1. {} \in SUBSET S
    OBVIOUS
  <2>2. QED
    BY <1>1, <2>1
<1>9. QED
  BY <1>7, <1>8 DEF Adds, Good

\* SumOver is such a sum.
LEMMA SumOverFacts ==
  ASSUME NEW f, NEW S, IsFiniteSet(S)
  PROVE  \E g : IsSum(f, S, g) /\ SumOver(f, S) = g[S]
<1> DEFINE g == CHOOSE h : IsSum(f, S, h)
<1>1. IsSum(f, S, g)
  BY SumsExist
<1>2. SumOver(f, S) = g[S]
  BY Zenon DEF SumOver, IsSum, Picked
<1> HIDE DEF g
<1>3. QED
  BY <1>1, <1>2

\* Less is summed over fewer members.
LEMMA SumLess ==
  ASSUME NEW S, IsFiniteSet(S), NEW T, T \subseteq S, NEW f, NEW h,
         Amounts(f, S), Amounts(h, T), \A x \in T : h[x] <= f[x]
  PROVE  /\ SumOver(f, S) \in Nat /\ SumOver(h, T) \in Nat
         /\ SumOver(h, T) <= SumOver(f, S)
<1>1. IsFiniteSet(T)
  BY FS_Subset
<1>2. PICK g : IsSum(f, S, g) /\ SumOver(f, S) = g[S]
  BY SumOverFacts
<1>3. PICK k : IsSum(h, T, k) /\ SumOver(h, T) = k[T]
  BY <1>1, SumOverFacts
<1>4. /\ g[{}] = 0
      /\ \A U \in SUBSET S : g[U] \in Nat /\ \A x \in U : g[U] = f[x] + g[U \ {x}]
  <2>1. Adds(f, S, g)
    BY <1>2, AddsFacts
  <2>2. QED
    BY <2>1 DEF Adds
<1>5. /\ k[{}] = 0
      /\ \A U \in SUBSET T : k[U] \in Nat /\ \A x \in U : k[U] = h[x] + k[U \ {x}]
  <2>1. Adds(h, T, k)
    BY <1>1, <1>3, AddsFacts
  <2>2. QED
    BY <2>1 DEF Adds
<1> DEFINE P == {n \in Nat : \A U \in SUBSET S : Cardinality(U) <= n => k[U \cap T] <= g[U]}
<1>6. \A U \in SUBSET S : IsFiniteSet(U) /\ Cardinality(U) \in Nat /\ (Cardinality(U) = 0 <=> U = {})
  BY FS_Subset, FS_CardinalityType, FS_EmptySet
<1>7. 0 \in P
  <2>1. \A U \in SUBSET S : Cardinality(U) <= 0 => U = {} /\ U \cap T = {}
    BY <1>6
  <2>2. k[{}] <= g[{}]
    BY <1>4, <1>5
  <2>3. \A U \in SUBSET S : Cardinality(U) <= 0 => k[U \cap T] <= g[U]
    BY <2>1, <2>2
  <2>4. QED
    BY <2>3
<1>8. ASSUME NEW n \in Nat, n \in P PROVE n + 1 \in P
  <2> SUFFICES ASSUME NEW U \in SUBSET S, Cardinality(U) <= n + 1 PROVE k[U \cap T] <= g[U]
    OBVIOUS
  <2>1. CASE U = {}
    <3>1. U \cap T = {} /\ k[{}] <= g[{}]
      BY <1>4, <1>5, <2>1
    <3>2. QED
      BY <2>1, <3>1
  <2>2. CASE U # {}
    <3>1. PICK x \in U : TRUE
      BY <2>2
    <3> DEFINE V == U \ {x}
    <3>2. V \in SUBSET S /\ Cardinality(V) <= n
      BY <1>6, OneLess
    <3>3. k[V \cap T] <= g[V] /\ g[U] = f[x] + g[V] /\ g[V] \in Nat /\ f[x] \in Nat
      <4>1. k[V \cap T] <= g[V]
        <5> HIDE DEF V
        <5> QED
          BY <1>8, <3>2
      <4>2. g[U] = f[x] + g[V]
        BY <1>4
      <4>3. g[V] \in Nat
        BY <1>4, <3>2
      <4>4. QED
        BY <4>1, <4>2, <4>3 DEF Amounts
    <3>4. V \cap T \in SUBSET T /\ U \cap T \in SUBSET T
      OBVIOUS
    <3>5. k[V \cap T] \in Nat
      BY <1>5, <3>4
    <3>6. CASE x \in T
      <4>1. x \in U \cap T /\ (U \cap T) \ {x} = V \cap T
        BY <3>6
      <4>2. k[U \cap T] = h[x] + k[V \cap T]
        BY <1>5, <3>4, <4>1
      <4>3. h[x] \in Nat /\ h[x] <= f[x]
        BY <3>6 DEF Amounts
      <4> HIDE DEF V
      <4>4. QED
        BY <3>3, <3>5, <4>2, <4>3
    <3>7. CASE x \notin T
      <4>1. U \cap T = V \cap T
        BY <3>7
      <4>2. k[U \cap T] = k[V \cap T]
        BY <4>1
      <4> HIDE DEF V
      <4>3. QED
        BY <3>3, <3>5, <4>2
    <3>8. QED
      BY <3>6, <3>7
  <2>3. QED
    BY <2>1, <2>2
<1>9. Nat \subseteq P
  <2> HIDE DEF P
  <2> QED
    BY <1>7, <1>8, InductiveSet
<1>10. S \cap T = T /\ S \in SUBSET S /\ T \in SUBSET T
  OBVIOUS
<1>11. k[T] <= g[S]
  <2>1. Cardinality(S) \in P
    BY <1>6, <1>9, <1>10
  <2>2. Cardinality(S) <= Cardinality(S)
    BY <1>6, <1>10
  <2>3. k[S \cap T] <= g[S]
    BY <1>10, <2>1, <2>2
  <2>4. QED
    BY <1>10, <2>3
<1>12. k[T] \in Nat /\ g[S] \in Nat
  BY <1>4, <1>5, <1>10
<1>13. QED
  BY <1>2, <1>3, <1>11, <1>12

\* The sum with one member more.
LEMMA SumWith ==
  ASSUME NEW S, IsFiniteSet(S), NEW x, x \notin S, NEW f, NEW h,
         Amounts(f, S \cup {x}), \A y \in S : h[y] = f[y]
  PROVE  SumOver(f, S \cup {x}) = f[x] + SumOver(h, S) /\ SumOver(h, S) \in Nat
<1> DEFINE R == S \cup {x}
<1>1. IsFiniteSet(R)
  BY FS_AddElement
<1>2. PICK g : IsSum(f, R, g) /\ SumOver(f, R) = g[R]
  BY <1>1, SumOverFacts
<1>3. /\ g[{}] = 0
      /\ \A U \in SUBSET R : g[U] \in Nat /\ \A y \in U : g[U] = f[y] + g[U \ {y}]
  <2>1. Adds(f, R, g)
    BY <1>1, <1>2, AddsFacts
  <2>2. QED
    BY <2>1 DEF Adds
<1>4. IsSum(h, S, [U \in SUBSET S |-> g[U]])
  <2> DEFINE k == [U \in SUBSET S |-> g[U]]
  <2>1. \A U \in SUBSET S : k[U] = g[U] /\ U \in SUBSET R /\ (U # {} => Picked(U) \in U)
    BY DEF Picked
  <2>2. k = [U \in SUBSET S |-> k[U]]
    OBVIOUS
  <2> HIDE DEF k
  <2>3. ASSUME NEW U \in SUBSET S PROVE k[U] = IF U = {} THEN 0 ELSE h[Picked(U)] + k[U \ {Picked(U)}]
    <3>1. CASE U = {}
      BY <1>3, <2>1, <3>1
    <3>2. CASE U # {}
      <4>1. Picked(U) \in U /\ Picked(U) \in S /\ U \ {Picked(U)} \in SUBSET S
        BY <2>1, <3>2
      <4>2. k[U] = g[U] /\ k[U \ {Picked(U)}] = g[U \ {Picked(U)}]
        BY <2>1, <4>1
      <4>3. g[U] = f[Picked(U)] + g[U \ {Picked(U)}]
        BY <1>3, <2>1, <4>1
      <4>4. h[Picked(U)] = f[Picked(U)]
        BY <4>1
      <4>5. QED
        BY <3>2, <4>2, <4>3, <4>4
    <3>3. QED
      BY <3>1, <3>2
  <2>4. IsSum(h, S, k)
    BY <2>2, <2>3 DEF IsSum
  <2>5. QED
    BY <2>4 DEF k
<1>5. PICK k : IsSum(h, S, k) /\ SumOver(h, S) = k[S]
  BY SumOverFacts
<1>6. /\ k[{}] = 0
      /\ \A U \in SUBSET S : k[U] \in Nat /\ \A y \in U : k[U] = h[y] + k[U \ {y}]
  <2>1. Amounts(h, S)
    BY DEF Amounts
  <2>2. Adds(h, S, k)
    BY <1>5, <2>1, AddsFacts
  <2>3. QED
    BY <2>2 DEF Adds
<1> DEFINE P == {n \in Nat : \A U \in SUBSET S : Cardinality(U) <= n => k[U] = g[U]}
<1>7. \A U \in SUBSET S : IsFiniteSet(U) /\ Cardinality(U) \in Nat /\ (Cardinality(U) = 0 <=> U = {})
  BY FS_Subset, FS_CardinalityType, FS_EmptySet
<1>8. 0 \in P
  <2>1. \A U \in SUBSET S : Cardinality(U) <= 0 => U = {}
    BY <1>7
  <2>2. k[{}] = g[{}]
    BY <1>3, <1>6
  <2>3. QED
    BY <2>1, <2>2
<1>9. ASSUME NEW n \in Nat, n \in P PROVE n + 1 \in P
  <2> SUFFICES ASSUME NEW U \in SUBSET S, Cardinality(U) <= n + 1 PROVE k[U] = g[U]
    OBVIOUS
  <2>1. CASE U = {}
    <3>1. k[{}] = g[{}]
      BY <1>3, <1>6
    <3>2. QED
      BY <2>1, <3>1
  <2>2. CASE U # {}
    <3>1. PICK y \in U : TRUE
      BY <2>2
    <3>2. U \ {y} \in SUBSET S /\ Cardinality(U \ {y}) <= n /\ U \in SUBSET R /\ y \in S
      BY <1>7, OneLess
    <3>3. k[U \ {y}] = g[U \ {y}]
      BY <1>9, <3>2
    <3>4. k[U] = h[y] + k[U \ {y}] /\ g[U] = f[y] + g[U \ {y}]
      BY <1>3, <1>6, <3>2
    <3>5. QED
      BY <3>2, <3>3, <3>4
  <2>3. QED
    BY <2>1, <2>2
<1>10. Nat \subseteq P
  <2> HIDE DEF P
  <2> QED
    BY <1>8, <1>9, InductiveSet
<1>11. k[S] = g[S]
  <2>1. S \in SUBSET S /\ Cardinality(S) \in P /\ Cardinality(S) <= Cardinality(S)
    BY <1>7, <1>10
  <2>2. QED
    BY <2>1
<1>12. R \ {x} = S /\ R \in SUBSET R /\ x \in R
  OBVIOUS
<1>13. g[R] = f[x] + g[S]
  BY <1>3, <1>12
<1>14. QED
  BY <1>2, <1>5, <1>6, <1>11, <1>13

\* The sum over nothing.
LEMMA SumOfNothing == \A f : SumOver(f, {}) = 0
<1> TAKE f
<1>1. IsFiniteSet({})
  BY FS_EmptySet
<1>2. PICK g : IsSum(f, {}, g) /\ SumOver(f, {}) = g[{}]
  BY <1>1, SumOverFacts
<1>3. Adds(f, {}, g)
  <2>1. Amounts(f, {})
    BY DEF Amounts
  <2>2. QED
    BY <1>1, <1>2, <2>1, AddsFacts
<1>4. QED
  BY <1>2, <1>3 DEF Adds

\* g weighs the subsets of U by f: a part weighs no more than the whole, and
\* a member adds what f says.
Weighs(f, U, g) ==
  /\ \A A \in SUBSET U : g[A] \in Nat
  /\ \A A \in SUBSET U : \A B \in SUBSET A : g[B] <= g[A]
  /\ \A A \in SUBSET U : \A x \in A : g[A] = f[x] + g[A \ {x}]
  /\ \A A \in SUBSET U : \A x \in U : g[A \cup {x}] <= f[x] + g[A]

\* The sums over the subsets weigh them.
LEMMA WeighsFacts ==
  ASSUME NEW U, IsFiniteSet(U), NEW f, Amounts(f, U), NEW g,
         \A A \in SUBSET U : g[A] = SumOver([v \in A |-> f[v]], A)
  PROVE  Weighs(f, U, g)
<1> DEFINE h(A) == [v \in A |-> f[v]]
<1>1. ASSUME NEW A \in SUBSET U
      PROVE  /\ IsFiniteSet(A) /\ Amounts(h(A), A) /\ g[A] = SumOver(h(A), A)
             /\ \A v \in A : h(A)[v] = f[v]
  BY FS_Subset DEF Amounts
<1>2. ASSUME NEW A \in SUBSET U, NEW B \in SUBSET A
      PROVE  g[A] \in Nat /\ g[B] <= g[A]
  <2>1. IsFiniteSet(A) /\ Amounts(h(A), A) /\ g[A] = SumOver(h(A), A)
    BY <1>1
  <2>2. B \in SUBSET U /\ Amounts(h(B), B) /\ g[B] = SumOver(h(B), B)
    BY <1>1
  <2>3. \A v \in B : h(B)[v] <= h(A)[v]
    BY DEF Amounts
  <2> HIDE DEF h
  <2>4. SumOver(h(A), A) \in Nat /\ SumOver(h(B), B) <= SumOver(h(A), A)
    BY <2>1, <2>2, <2>3, SumLess
  <2>5. QED
    BY <2>1, <2>2, <2>4
<1>3. ASSUME NEW A \in SUBSET U, NEW x \in A PROVE g[A] = f[x] + g[A \ {x}]
  <2> DEFINE B == A \ {x}
  <2>1. B \in SUBSET U /\ x \notin B /\ A = B \cup {x}
    OBVIOUS
  <2>2. Amounts(h(A), A) /\ g[A] = SumOver(h(A), A) /\ h(A)[x] = f[x]
    BY <1>1
  <2>3. IsFiniteSet(B) /\ g[B] = SumOver(h(B), B)
    BY <1>1, <2>1
  <2>4. \A v \in B : h(B)[v] = h(A)[v]
    OBVIOUS
  <2> DEFINE k == h(A)
           l == h(B)
  <2> HIDE DEF k, l, B
  <2>5. SumOver(k, B \cup {x}) = k[x] + SumOver(l, B)
    <3>1. Amounts(k, B \cup {x}) /\ \A v \in B : k[v] = l[v]
      BY <2>1, <2>2, <2>4 DEF k, l
    <3>2. IsFiniteSet(B) /\ x \notin B
      BY <2>1, <2>3
    <3>3. QED
      BY <3>1, <3>2, SumWith
  <2>6. SumOver(h(A), A) = h(A)[x] + SumOver(h(B), B)
    BY <2>1, <2>5 DEF k, l
  <2>7. QED
    BY <2>2, <2>3, <2>6 DEF B
<1>4. ASSUME NEW A \in SUBSET U, NEW x \in U PROVE g[A \cup {x}] <= f[x] + g[A]
  <2> DEFINE C == A \cup {x}
  <2>1. C \in SUBSET U /\ x \in C /\ C \ {x} \in SUBSET A /\ C \ {x} \in SUBSET U
    OBVIOUS
  <2> HIDE DEF C
  <2>2. g[C] = f[x] + g[C \ {x}]
    BY <1>3, <2>1
  <2>3. g[C \ {x}] <= g[A] /\ g[A] \in Nat /\ g[C \ {x}] \in Nat
    BY <1>2, <2>1
  <2>4. f[x] \in Nat
    BY DEF Amounts
  <2>5. QED
    BY <2>2, <2>3, <2>4 DEF C
<1>5. QED
  BY <1>2, <1>3, <1>4 DEF Weighs

=============================================================================
