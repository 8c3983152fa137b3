--------------------------- MODULE Scheduler_proofs ---------------------------
(***************************************************************************)
(* Proofs about Scheduler, for every finite set of edges and every set of  *)
(* graphs: the bookkeeping, the order, and what a run's verdict means;     *)
(* about WantWalk, which takes Scheduler's wants a step at a time; and     *)
(* about DyndepPass, which runs Scheduler twice.                           *)
(***************************************************************************)
EXTENDS WantWalk, DyndepPass, FiniteSetTheorems, SequenceTheorems, TLAPS

-----------------------------------------------------------------------------
(* Sequences that hold each element of a set once, as the ready queue does. *)

(* s lists the elements of S, each once. *)
Lists(s, S) ==
    /\ s \in Seq(S)
    /\ \A x \in S : \E i \in 1..Len(s) : s[i] = x
    /\ \A i, j \in 1..Len(s) : s[i] = s[j] => i = j

(* A member of SetToSeqs(S), the order a hash set is walked in, lists S. *)
LEMMA SetToSeqsLists ==
    ASSUME NEW S, IsFiniteSet(S), NEW s \in SetToSeqs(S)
    PROVE  Lists(s, S)
<1> DEFINE n == Cardinality(S)
<1>1. n \in Nat
  BY FS_CardinalityType
<1>2. /\ s \in [1..n -> S]
      /\ \A i, j \in 1..n : i # j => s[i] # s[j]
  BY DEF SetToSeqs
<1>3. s \in Seq(S) /\ Len(s) = n
  BY <1>1, <1>2
<1>4. IsFiniteSet(1..n) /\ Cardinality(1..n) = n
  BY <1>1, FS_Interval
<1>5. s \in Injection(1..n, S)
  BY <1>2 DEF Injection, IsInjective
<1>6. s \in Surjection(1..n, S)
  BY <1>4, <1>5, FS_Injection
<1>7. \A x \in S : \E i \in 1..n : s[i] = x
  BY <1>6 DEF Surjection
<1> QED
  BY <1>2, <1>3, <1>7 DEF Lists

(* The empty queue. *)
LEMMA ListsEmpty == Lists(<<>>, {})
  BY DEF Lists

(* Two listings of disjoint sets, one after the other. *)
LEMMA ListsConcat ==
    ASSUME NEW S, NEW T, S \cap T = {}, NEW q, NEW s, Lists(q, S), Lists(s, T)
    PROVE  Lists(q \o s, S \cup T)
<1> DEFINE u == q \o s
<1>1. /\ q \in Seq(S \cup T) /\ s \in Seq(S \cup T)
      /\ Len(q) \in Nat /\ Len(s) \in Nat
      /\ \A i \in 1..Len(q) : q[i] \in S
      /\ \A i \in 1..Len(s) : s[i] \in T
  BY DEF Lists
<1>2. /\ u \in Seq(S \cup T)
      /\ Len(u) = Len(q) + Len(s)
      /\ \A i \in 1..Len(u) : u[i] = IF i <= Len(q) THEN q[i] ELSE s[i - Len(q)]
  BY <1>1
<1>3. \A x \in S \cup T : \E i \in 1..Len(u) : u[i] = x
  <2> SUFFICES ASSUME NEW x \in S \cup T PROVE \E i \in 1..Len(u) : u[i] = x
    OBVIOUS
  <2>1. CASE x \in S
    <3>1. PICK i \in 1..Len(q) : q[i] = x
      BY <2>1 DEF Lists
    <3> QED
      BY <1>1, <1>2, <3>1
  <2>2. CASE x \in T
    <3>1. PICK i \in 1..Len(s) : s[i] = x
      BY <2>2 DEF Lists
    <3>2. Len(q) + i \in 1..Len(u) /\ u[Len(q) + i] = x
      BY <1>1, <1>2, <3>1
    <3> QED
      BY <3>2
  <2> QED
    BY <2>1, <2>2
<1>4. \A i, j \in 1..Len(u) : u[i] = u[j] => i = j
  <2> SUFFICES ASSUME NEW i \in 1..Len(u), NEW j \in 1..Len(u), u[i] = u[j]
               PROVE  i = j
    OBVIOUS
  <2>1. CASE i <= Len(q) /\ j <= Len(q)
    BY <1>1, <1>2, <2>1 DEF Lists
  <2>2. CASE i > Len(q) /\ j > Len(q)
    <3>1. /\ i - Len(q) \in 1..Len(s) /\ j - Len(q) \in 1..Len(s)
          /\ s[i - Len(q)] = s[j - Len(q)]
      BY <1>1, <1>2, <2>2
    <3>2. i - Len(q) = j - Len(q)
      BY <3>1 DEF Lists
    <3> QED
      BY <1>1, <1>2, <3>2
  <2>3. CASE i <= Len(q) /\ j > Len(q)
    BY <1>1, <1>2, <2>3
  <2>4. CASE i > Len(q) /\ j <= Len(q)
    BY <1>1, <1>2, <2>4
  <2> QED
    BY <1>1, <1>2, <2>1, <2>2, <2>3, <2>4
<1> QED
  BY <1>2, <1>3, <1>4 DEF Lists

(* A queue of one. *)
LEMMA ListsOne ==
    ASSUME NEW x
    PROVE  Lists(<<x>>, {x})
<1>1. /\ <<x>> \in Seq({x}) /\ Len(<<x>>) = 1 /\ <<x>>[1] = x
  OBVIOUS
<1> QED
  BY <1>1 DEF Lists

(* Taking the head off. *)
LEMMA ListsTail ==
    ASSUME NEW S, NEW q, Lists(q, S), q # <<>>
    PROVE  Head(q) \in S /\ Lists(Tail(q), S \ {Head(q)})
<1> DEFINE t == Tail(q)
<1>1. /\ q \in Seq(S) /\ Len(q) \in Nat /\ Len(q) >= 1
      /\ Head(q) = q[1] /\ q[1] \in S
  BY DEF Lists
<1>2. /\ t \in Seq(S) /\ Len(t) = Len(q) - 1
      /\ \A i \in 1..Len(t) : t[i] = q[i + 1]
  BY <1>1
<1> HIDE DEF t
<1>3. \A i, j \in 1..Len(q) : q[i] = q[j] => i = j
  BY DEF Lists
<1>4. \A i \in 1..Len(t) : t[i] # q[1]
  <2> SUFFICES ASSUME NEW i \in 1..Len(t) PROVE t[i] # q[1]
    OBVIOUS
  <2>1. i + 1 \in 1..Len(q) /\ 1 \in 1..Len(q) /\ i + 1 # 1
    BY <1>1, <1>2
  <2> QED
    BY <1>2, <1>3, <2>1
<1>5. t \in Seq(S \ {q[1]})
  <2>1. \A i \in 1..Len(t) : t[i] \in S \ {q[1]}
    BY <1>1, <1>2, <1>4
  <2>2. Len(t) \in Nat /\ t \in [1..Len(t) -> S]
    BY <1>1, <1>2
  <2>3. t \in [1..Len(t) -> S \ {q[1]}]
    BY <2>1, <2>2
  <2> QED
    BY <2>2, <2>3
<1>6. \A x \in S \ {q[1]} : \E i \in 1..Len(t) : t[i] = x
  <2> SUFFICES ASSUME NEW x \in S, x # q[1] PROVE \E i \in 1..Len(t) : t[i] = x
    OBVIOUS
  <2>1. PICK i \in 1..Len(q) : q[i] = x
    BY DEF Lists
  <2>2. i - 1 \in 1..Len(t) /\ t[i - 1] = x
    BY <1>1, <1>2, <2>1
  <2> QED
    BY <2>2
<1>7. \A i, j \in 1..Len(t) : t[i] = t[j] => i = j
  <2> SUFFICES ASSUME NEW i \in 1..Len(t), NEW j \in 1..Len(t), t[i] = t[j]
               PROVE  i = j
    OBVIOUS
  <2>1. i + 1 \in 1..Len(q) /\ j + 1 \in 1..Len(q) /\ q[i + 1] = q[j + 1]
    BY <1>1, <1>2
  <2>2. i + 1 = j + 1
    BY <1>3, <2>1
  <2> QED
    BY <1>1, <1>2, <2>2
<1> QED
  BY <1>1, <1>5, <1>6, <1>7 DEF Lists, t

(* A listing is as long as its set is large. *)
LEMMA ListsSize ==
    ASSUME NEW S, NEW s, Lists(s, S)
    PROVE  /\ ToSet(s) = S
           /\ IsFiniteSet(S)
           /\ Len(s) = Cardinality(S)
<1>1. /\ s \in Seq(S) /\ Len(s) \in Nat /\ DOMAIN s = 1..Len(s)
      /\ s \in [1..Len(s) -> S]
  BY DEF Lists
<1>2. ToSet(s) = S
  BY <1>1 DEF Lists, ToSet
<1>3. s \in Bijection(1..Len(s), S)
  BY <1>1 DEF Lists, Bijection, Injection, Surjection, IsInjective
<1>4. IsFiniteSet(1..Len(s)) /\ Cardinality(1..Len(s)) = Len(s)
  BY <1>1, FS_Interval
<1>5. ExistsBijection(1..Len(s), S)
  BY <1>3 DEF ExistsBijection
<1>6. IsFiniteSet(S) /\ Cardinality(S) = Len(s)
  BY <1>4, <1>5, FS_Bijection
<1> QED
  BY <1>2, <1>6

-----------------------------------------------------------------------------
(* The bookkeeping, in the form that is inductive.                         *)

OwedIn(st)  == {b \in Build : st[b] \notin {"Unneeded", "Done"}}
ReadyIn(st) == {b \in Build : st[b] = "Ready"}
ReadySet    == ReadyIn(state)

PendingExact == pending = Cardinality(Owed)

QueueExact == Lists(ready, ReadySet)

OutExact ==
    /\ IsFiniteSet(results)
    /\ running = Cardinality(threads) + Cardinality(results)
    /\ \A r, q \in results : r.bid = q.bid => r = q
    /\ \A b \in threads : state[b] = "Running"
    /\ \A r \in results : state[r.bid] = "Running" /\ r.bid \notin threads

BInv == TypeOK /\ PendingExact /\ QueueExact /\ OutExact

(* A walk stays among the unneeded edges. *)
LEMMA NewlyWantedUnneeded ==
    ASSUME NEW ord, NEW files
    PROVE  NewlyWanted(ord, files) \subseteq Unneeded
  BY DEF NewlyWanted, Reach, Unneeded

(* What marking the edges C of a walk does to the three copies. *)
LEMMA Marking ==
    ASSUME TypeOK, PendingExact, QueueExact, NEW ord, NEW C \in SUBSET Unneeded,
           NEW s \in SetToSeqs(MarkedReady(ord, C))
    PROVE  /\ MarkedState(ord, C) \in [Build -> BuildState]
           /\ \A b \in Build \ C : MarkedState(ord, C)[b] = state[b]
           /\ \A b \in C : MarkedState(ord, C)[b] = 
                             IF RecheckReady(ord, b) THEN "Ready" ELSE "Want"
           /\ PendingWith(C) \in Nat
           /\ PendingWith(C) = Cardinality(OwedIn(MarkedState(ord, C)))
           /\ ready \o s \in Seq(Build)
           /\ Lists(ready \o s, ReadyIn(MarkedState(ord, C)))
<1> DEFINE st == MarkedState(ord, C)
           R  == MarkedReady(ord, C)
<1>1. /\ state \in [Build -> BuildState] /\ pending \in Nat
      /\ C \subseteq Build /\ R \subseteq C
      /\ \A b \in C : state[b] = "Unneeded"
  BY DEF TypeOK, Unneeded, MarkedReady
<1>2. /\ \A b \in Build \ C : st[b] = state[b]
      /\ \A b \in R : st[b] = "Ready"
      /\ \A b \in C \ R : st[b] = "Want"
      /\ st \in [Build -> BuildState]
  BY <1>1 DEF MarkedState, BuildState
<1>3. \A b \in C : st[b] = IF RecheckReady(ord, b) THEN "Ready" ELSE "Want"
  BY <1>2 DEF MarkedReady
<1>4. IsFiniteSet(C) /\ IsFiniteSet(R) /\ IsFiniteSet(Owed)
  BY <1>1, BuildAssumption, FS_Subset DEF Owed
<1>5. OwedIn(st) = Owed \cup C
  BY <1>1, <1>2 DEF Owed, OwedIn
<1>6. Owed \cap C = {}
  BY <1>1 DEF Owed
<1>7. Cardinality(Owed \cup C) = Cardinality(Owed) + Cardinality(C)
      /\ Cardinality(C) \in Nat
  <2>1. Cardinality(Owed) \in Nat /\ Cardinality(C) \in Nat
    BY <1>4, FS_CardinalityType
  <2>2. Cardinality(Owed \cup C)
            = Cardinality(Owed) + Cardinality(C) - Cardinality(Owed \cap C)
    BY <1>4, FS_Union
  <2>3. Cardinality(Owed \cap C) = 0
    BY <1>6, FS_EmptySet
  <2> QED
    BY <2>1, <2>2, <2>3
<1>8. PendingWith(C) \in Nat /\ PendingWith(C) = Cardinality(Owed \cup C)
  BY <1>1, <1>7 DEF PendingWith, PendingExact
<1>9. Lists(s, R)
  BY <1>4, SetToSeqsLists
<1>10. ReadyIn(st) = ReadySet \cup R
  BY <1>1, <1>2 DEF ReadySet, ReadyIn
<1>11. ReadySet \cap R = {}
  BY <1>1 DEF ReadySet, ReadyIn
<1>12. Lists(ready \o s, ReadySet \cup R)
  BY <1>9, <1>11, ListsConcat DEF QueueExact
<1>13. ready \o s \in Seq(Build)
  <2>1. ready \in Seq(Build) /\ s \in Seq(Build)
    BY <1>1, <1>9, SeqMonotonic DEF TypeOK, Lists
  <2> QED
    BY <2>1
<1> QED
  BY <1>2, <1>3, <1>5, <1>8, <1>10, <1>12, <1>13

(* The initial states. *)
LEMMA BookkeepingFresh == Fresh /\ todo \in Seq(File) => BInv
<1> SUFFICES ASSUME Fresh, todo \in Seq(File) PROVE BInv
  OBVIOUS
<1>1. graph \in Graph
  BY GraphsAssumption DEF Fresh
<1>2. TypeOK
  BY <1>1 DEF Fresh, TypeOK, Graph, BuildState
<1>3. Owed = {} /\ ReadySet = {}
  BY DEF Fresh, Owed, ReadySet, ReadyIn
<1>4. PendingExact
  BY <1>3, FS_EmptySet DEF Fresh, PendingExact
<1>5. QueueExact
  BY <1>3, ListsEmpty DEF Fresh, QueueExact
<1>6. OutExact
  BY FS_EmptySet DEF Fresh, OutExact
<1> QED
  BY <1>2, <1>4, <1>5, <1>6 DEF BInv

(* The targets are files. *)
LEMMA InitFresh == Init => Fresh /\ todo \in Seq(File)
  BY GraphsAssumption DEF Init, Fresh, Graph

LEMMA BookkeepingInit == Init => BInv
  BY InitFresh, BookkeepingFresh

(* Starting the head of the queue, whether its task then lives or not. *)
LEMMA Starting ==
    ASSUME TypeOK, PendingExact, QueueExact, ready # <<>>,
           state' = [state EXCEPT ![Head(ready)] = "Running"],
           ready' = Tail(ready), pending' = pending
    PROVE  /\ Head(ready) \in Build /\ state[Head(ready)] = "Ready"
           /\ state' \in [Build -> BuildState]
           /\ ready' \in Seq(Build)
           /\ PendingExact' /\ QueueExact'
<1> DEFINE h == Head(ready)
<1>1. h \in ReadySet /\ Lists(ready', ReadySet \ {h})
  BY ListsTail DEF QueueExact
<1>2. h \in Build /\ state[h] = "Ready" /\ state \in [Build -> BuildState]
  BY <1>1 DEF ReadySet, ReadyIn, TypeOK
<1>3. state' \in [Build -> BuildState]
  BY <1>2 DEF BuildState
<1>4. ready' \in Seq(Build)
  BY DEF TypeOK
<1>5. ReadySet' = ReadySet \ {h}
  BY <1>2 DEF ReadySet, ReadyIn
<1>6. Owed' = Owed
  BY <1>2 DEF Owed
<1> QED
  BY <1>1, <1>2, <1>3, <1>4, <1>5, <1>6 DEF PendingExact, QueueExact

(* A task thread that turns into its result. *)
LEMMA Answering ==
    ASSUME TypeOK, OutExact, NEW b \in threads, NEW a \in Result, a.bid = b,
           threads' = threads \ {b}, results' = results \cup {a},
           running' = running, state' = state
    PROVE  OutExact' /\ threads' \subseteq Build /\ results' \subseteq Result
<1>1. threads \subseteq Build /\ results \subseteq Result
  BY DEF TypeOK
<1>2. IsFiniteSet(threads) /\ IsFiniteSet(results)
  BY <1>1, BuildAssumption, FS_Subset DEF OutExact
<1>3. a \notin results
  BY DEF OutExact
<1>4. /\ IsFiniteSet(results')
      /\ Cardinality(results') = Cardinality(results) + 1
  BY <1>2, <1>3, FS_AddElement
<1>5. Cardinality(threads') = Cardinality(threads) - 1
  BY <1>2, FS_RemoveElement
<1>6. Cardinality(threads) \in Nat /\ Cardinality(results) \in Nat
  BY <1>2, FS_CardinalityType
<1>7. running' = Cardinality(threads') + Cardinality(results')
  BY <1>4, <1>5, <1>6 DEF OutExact
<1>8. \A r, q \in results' : r.bid = q.bid => r = q
  BY DEF OutExact
<1>9. /\ \A c \in threads' : state'[c] = "Running"
      /\ \A r \in results' : state'[r.bid] = "Running" /\ r.bid \notin threads'
  BY DEF OutExact
<1> QED
  BY <1>1, <1>4, <1>7, <1>8, <1>9 DEF OutExact

(* A result taken from the channel. *)
LEMMA Taking ==
    ASSUME TypeOK, OutExact, NEW r \in results, Receive(r)
    PROVE  /\ r \in Result /\ r.bid \in Build /\ r.fids \subseteq File
           /\ state[r.bid] = "Running" /\ r.bid \notin threads
           /\ \A q \in results' : q.bid # r.bid
           /\ IsFiniteSet(results') /\ results' \subseteq Result
           /\ running' \in Nat
           /\ running' = Cardinality(threads') + Cardinality(results')
<1>1. results \subseteq Result /\ threads \subseteq Build /\ running \in Nat
  BY DEF TypeOK
<1>2. r \in Result /\ r.bid \in Build /\ r.fids \subseteq File
  BY <1>1 DEF Result
<1>3. results' = results \ {r} /\ running' = running - 1 /\ threads' = threads /\ running > 0
  BY DEF Receive
<1>4. IsFiniteSet(results') /\ Cardinality(results') = Cardinality(results) - 1
  BY <1>3, FS_RemoveElement DEF OutExact
<1>5. Cardinality(threads) \in Nat /\ Cardinality(results) \in Nat
  BY <1>1, BuildAssumption, FS_Subset, FS_CardinalityType DEF OutExact
<1>6. running' \in Nat /\ running' = Cardinality(threads') + Cardinality(results')
  BY <1>1, <1>3, <1>4, <1>5 DEF OutExact
<1> QED
  BY <1>1, <1>2, <1>3, <1>4, <1>6 DEF OutExact

(* A step that takes r and leaves the other edges out there where they are. *)
LEMMA StillOut ==
    ASSUME TypeOK, OutExact, NEW r \in results, Receive(r),
           \A b \in Build : b # r.bid /\ state[b] = "Running" => state'[b] = "Running"
    PROVE  OutExact'
<1>1. /\ \A q \in results' : q.bid # r.bid /\ q.bid \in Build
      /\ IsFiniteSet(results')
      /\ running' = Cardinality(threads') + Cardinality(results')
      /\ r.bid \notin threads
  BY Taking DEF Result
<1>2. results' = results \ {r} /\ threads' = threads /\ threads \subseteq Build
  BY DEF Receive, TypeOK
<1>3. \A q, p \in results' : q.bid = p.bid => q = p
  BY <1>2 DEF OutExact
<1>4. \A b \in threads' : state'[b] = "Running"
  BY <1>1, <1>2 DEF OutExact
<1>5. \A q \in results' : state'[q.bid] = "Running" /\ q.bid \notin threads'
  BY <1>1, <1>2 DEF OutExact
<1> QED
  BY <1>1, <1>3, <1>4, <1>5 DEF OutExact

(* What a walk marks, as the step that takes it needs it. *)
LEMMA WalkTaken ==
    ASSUME BInv, NEW ord, NEW C \in SUBSET Unneeded,
           state' = MarkedState(ord, C), pending' = PendingWith(C),
           \E s \in SetToSeqs(MarkedReady(ord, C)) : ready' = ready \o s
    PROVE  /\ state' \in [Build -> BuildState] /\ pending' \in Nat
           /\ ready' \in Seq(Build)
           /\ PendingExact' /\ QueueExact'
           /\ \A b \in Build \ C : state'[b] = state[b]
           /\ \A b \in C : state'[b] = IF RecheckReady(ord, b) THEN "Ready" ELSE "Want"
           /\ \A b \in Build : state[b] # "Unneeded" => state'[b] = state[b]
<1>1. PICK s \in SetToSeqs(MarkedReady(ord, C)) : ready' = ready \o s
  OBVIOUS
<1>0. TypeOK /\ PendingExact /\ QueueExact
  BY DEF BInv
<1>2. /\ MarkedState(ord, C) \in [Build -> BuildState]
      /\ \A b \in Build \ C : MarkedState(ord, C)[b] = state[b]
      /\ \A b \in C : MarkedState(ord, C)[b] =
                        IF RecheckReady(ord, b) THEN "Ready" ELSE "Want"
      /\ PendingWith(C) \in Nat
      /\ PendingWith(C) = Cardinality(OwedIn(MarkedState(ord, C)))
      /\ ready \o s \in Seq(Build)
      /\ Lists(ready \o s, ReadyIn(MarkedState(ord, C)))
  BY <1>0, Marking
<1>3. Owed' = OwedIn(MarkedState(ord, C))
  BY DEF Owed, OwedIn
<1>4. ReadySet' = ReadyIn(MarkedState(ord, C))
  BY DEF ReadySet, ReadyIn
<1>5. \A b \in Build : state[b] # "Unneeded" => state'[b] = state[b]
  BY <1>2 DEF Unneeded
<1> QED
  BY <1>1, <1>2, <1>3, <1>4, <1>5 DEF PendingExact, QueueExact

(* Wanting a target counts and queues exactly the edges it marks. *)
LEMMA BookkeepingWant == BInv /\ WantTarget => BInv'
<1> SUFFICES ASSUME BInv, WantTarget PROVE BInv'
  OBVIOUS
<1> DEFINE C == NewlyWanted(ordering, {Head(todo)})
<1>1. C \in SUBSET Unneeded
  BY NewlyWantedUnneeded
<1>2. /\ state' = MarkedState(ordering, C) /\ pending' = PendingWith(C)
      /\ \E s \in SetToSeqs(MarkedReady(ordering, C)) : ready' = ready \o s
  BY DEF WantTarget
<1> HIDE DEF C
<1>3. /\ state' \in [Build -> BuildState] /\ pending' \in Nat
      /\ ready' \in Seq(Build)
      /\ PendingExact' /\ QueueExact'
      /\ \A b \in Build : state[b] # "Unneeded" => state'[b] = state[b]
  BY <1>1, <1>2, WalkTaken
<1>4. todo' \in Seq(File)
  BY DEF WantTarget, BInv, TypeOK
<1>5. TypeOK'
  BY <1>3, <1>4 DEF BInv, TypeOK, WantTarget
<1>6. OutExact'
  <2>1. results \subseteq Result /\ threads \subseteq Build
    BY DEF BInv, TypeOK
  <2>2. \A r \in results : r.bid \in Build
    BY <2>1 DEF Result
  <2> QED
    BY <1>3, <2>1, <2>2 DEF BInv, OutExact, WantTarget
<1> QED
  BY <1>3, <1>5, <1>6 DEF BInv

(* Only the phase moves, and a run that stopped on a failure stays so. *)
Still ==
    /\ UNCHANGED <<graph, keepGoing, ordering, state, pending, ready, noDefer,
                   threads, results, running, failed, emitted, todo>>
    /\ phase' \in {"want", "run", "ok", "failed", "abort"}
    /\ phase' \in {"want", "run", "ok"} => phase \in {"want", "run", "ok"}

LEMMA StillSteps ==
    BInv /\ (WantTargetRefused \/ BeginRun \/ EndRun \/ UNCHANGED vars) => Still
  BY DEF BInv, TypeOK, WantTargetRefused, BeginRun, EndRun, vars, Still

(* The steps that move none of the copies. *)
LEMMA BookkeepingStill == BInv /\ Still => BInv'
<1> SUFFICES ASSUME BInv, Still PROVE BInv'
  OBVIOUS
<1>2. TypeOK'
  BY DEF BInv, TypeOK, Still
<1>3. PendingExact' /\ QueueExact' /\ OutExact'
  BY DEF BInv, PendingExact, Owed, QueueExact, ReadySet, ReadyIn, OutExact, Still
<1> QED
  BY <1>2, <1>3 DEF BInv

(* The head of the queue goes to a thread, or answers at once. *)
LEMMA BookkeepingStart == BInv /\ (StartEdge \/ StartFails) => BInv'
<1> SUFFICES ASSUME BInv, StartEdge \/ StartFails PROVE BInv'
  OBVIOUS
<1> DEFINE h == Head(ready)
<1>1. /\ ready # <<>> /\ state' = [state EXCEPT ![h] = "Running"]
      /\ ready' = Tail(ready) /\ pending' = pending
  BY DEF StartEdge, StartFails
<1>2. /\ h \in Build /\ state[h] = "Ready"
      /\ state' \in [Build -> BuildState]
      /\ ready' \in Seq(Build)
      /\ PendingExact' /\ QueueExact'
  BY <1>1, Starting DEF BInv
<1> HIDE DEF h
<1>3. state \in [Build -> BuildState] /\ threads \subseteq Build /\ results \subseteq Result
  BY DEF BInv, TypeOK
<1>4. \A b \in Build : state[b] = "Running" => state'[b] = "Running"
  BY <1>1, <1>3
<1>5. state'[h] = "Running"
  BY <1>1, <1>2, <1>3
<1>6. h \notin threads /\ \A r \in results : r.bid # h /\ r.bid \in Build
  BY <1>2, <1>3 DEF BInv, OutExact, Result
<1>7. CASE StartFails
  <2>1. TypeOK'
    BY <1>2, <1>7 DEF BInv, TypeOK, StartFails
  <2>2. OutExact'
    BY <1>3, <1>4, <1>6, <1>7 DEF BInv, OutExact, StartFails
  <2> QED
    BY <1>2, <2>1, <2>2 DEF BInv
<1>8. CASE StartEdge /\ h \in graph.phony
  <2> DEFINE a == Answer(h, "ok", {})
  <2>1. /\ results' = results \cup {a} /\ threads' = threads /\ running' = running + 1
    BY <1>8 DEF StartEdge, h
  <2>2. a \in Result /\ a.bid = h
    BY <1>2 DEF Answer, Result
  <2> HIDE DEF a
  <2>3. a \notin results
    BY <1>6, <2>2
  <2>4. IsFiniteSet(results') /\ Cardinality(results') = Cardinality(results) + 1
    BY <2>1, <2>3, FS_AddElement DEF BInv, OutExact
  <2>5. Cardinality(threads) \in Nat /\ Cardinality(results) \in Nat
    BY <1>3, BuildAssumption, FS_Subset, FS_CardinalityType DEF BInv, OutExact
  <2>6. running' \in Nat /\ running' = Cardinality(threads') + Cardinality(results')
    BY <2>1, <2>4, <2>5 DEF BInv, OutExact
  <2>7. TypeOK'
    <3>1. /\ graph' = graph /\ keepGoing' = keepGoing /\ ordering' = ordering
          /\ noDefer' = noDefer /\ failed' = failed /\ emitted' = emitted
          /\ todo' = todo /\ phase' = phase
      BY <1>8 DEF StartEdge
    <3> QED
      BY <1>1, <1>2, <2>1, <2>2, <2>6, <3>1 DEF BInv, TypeOK
  <2>8. OutExact'
    BY <1>3, <1>4, <1>5, <1>6, <2>1, <2>2, <2>4, <2>6 DEF BInv, OutExact
  <2> QED
    BY <1>2, <2>7, <2>8 DEF BInv
<1>9. CASE StartEdge /\ h \notin graph.phony
  <2>1. /\ threads' = threads \cup {h} /\ results' = results /\ running' = running + 1
    BY <1>9 DEF StartEdge, h
  <2>2. IsFiniteSet(threads) /\ Cardinality(threads') = Cardinality(threads) + 1
    BY <1>3, <1>6, <2>1, BuildAssumption, FS_Subset, FS_AddElement
  <2>3. Cardinality(threads) \in Nat /\ Cardinality(results) \in Nat
    BY <2>2, FS_CardinalityType DEF BInv, OutExact
  <2>4. running' \in Nat /\ running' = Cardinality(threads') + Cardinality(results')
    BY <2>1, <2>2, <2>3 DEF BInv, OutExact
  <2>5. TypeOK'
    <3>1. /\ graph' = graph /\ keepGoing' = keepGoing /\ ordering' = ordering
          /\ noDefer' = noDefer /\ failed' = failed /\ emitted' = emitted
          /\ todo' = todo /\ phase' = phase
      BY <1>9 DEF StartEdge
    <3> QED
      BY <1>1, <1>2, <2>1, <2>4, <3>1 DEF BInv, TypeOK
  <2>6. OutExact'
    BY <1>3, <1>4, <1>5, <1>6, <2>1, <2>4 DEF BInv, OutExact
  <2> QED
    BY <1>2, <2>5, <2>6 DEF BInv
<1> QED
  BY <1>7, <1>8, <1>9

(* A thread ends, and its edge is in one result instead. *)
LEMMA BookkeepingTask ==
    ASSUME BInv, NEW b \in Build, Task(b)
    PROVE  BInv'
<1>1. graph \in Graph
  BY DEF BInv, TypeOK
<1>2. PICK a \in Result :
          /\ a.bid = b /\ b \in threads
          /\ threads' = threads \ {b} /\ results' = results \cup {a}
          /\ UNCHANGED <<graph, keepGoing, ordering, state, pending, ready, noDefer,
                         running, failed, todo, phase>>
          /\ emitted' \in {emitted, emitted \cup {b}}
  <2>1. CASE TaskEmits(b)
    <3>1. Answer(b, "ok", {}) \in Result /\ Answer(b, "ok", {}).bid = b
      BY DEF Answer, Result
    <3> QED
      BY <2>1, <3>1 DEF TaskEmits
  <2>2. CASE TaskFails(b)
    <3>1. Answer(b, "failed", {}) \in Result /\ Answer(b, "failed", {}).bid = b
      BY DEF Answer, Result
    <3> QED
      BY <2>2, <3>1 DEF TaskFails
  <2>3. ASSUME NEW F \in graph.miss[b], TaskDefers(b, F) 
        PROVE  \E a \in Result :
                  /\ a.bid = b /\ b \in threads
                  /\ threads' = threads \ {b} /\ results' = results \cup {a}
                  /\ UNCHANGED <<graph, keepGoing, ordering, state, pending, ready, noDefer,
                                 running, failed, todo, phase>>
                  /\ emitted' \in {emitted, emitted \cup {b}}
    <3>1. F \subseteq File
      BY <1>1, <2>3 DEF Graph
    <3>2. Answer(b, "deferred", F) \in Result /\ Answer(b, "deferred", F).bid = b
      BY <3>1 DEF Answer, Result
    <3> QED
      BY <2>3, <3>2 DEF TaskDefers, WrittenOnDeferral
  <2> QED
    BY <2>1, <2>2, <2>3 DEF Task
<1>3. OutExact' /\ threads' \subseteq Build /\ results' \subseteq Result
  BY <1>2, Answering DEF BInv
<1>4. TypeOK'
  BY <1>2, <1>3 DEF BInv, TypeOK
<1>5. PendingExact' /\ QueueExact'
  BY <1>2 DEF BInv, PendingExact, Owed, QueueExact, ReadySet, ReadyIn
<1> QED
  BY <1>3, <1>4, <1>5 DEF BInv

(* What every handler leaves alone, and the parts of TypeOK that follow. *)
LEMMA TakingTypes ==
    ASSUME BInv, NEW r \in results, Receive(r),
           ordering' \in [Build -> SUBSET File], state' \in [Build -> BuildState],
           pending' \in Nat, ready' \in Seq(Build), noDefer' \subseteq Build,
           failed' \in Nat, phase' \in {"want", "run", "ok", "failed", "abort"}
    PROVE  TypeOK'
<1>1. TypeOK /\ OutExact
  BY DEF BInv
<1>2. results' \subseteq Result /\ running' \in Nat
  BY <1>1, Taking
<1> QED
  BY <1>1, <1>2 DEF TypeOK, Receive

(* A finished edge is paid for, and each dependent it frees is queued      *)
(* once.                                                                   *)
LEMMA BookkeepingDone ==
    ASSUME BInv, NEW r \in results, HandleDone(r)
    PROVE  BInv'
<1> DEFINE D == NowReady(r.bid)
<1>0. TypeOK /\ OutExact /\ Receive(r)
  BY DEF BInv, HandleDone
<1>1. r.bid \in Build /\ state[r.bid] = "Running"
  BY <1>0, Taking
<1>2. D \subseteq Build /\ \A b \in D : state[b] = "Want"
  BY DEF NowReady
<1>3. state \in [Build -> BuildState] /\ pending \in Nat
  BY <1>0 DEF TypeOK
<1>4. state' = [b \in Build |-> CASE b \in D   -> "Ready"
                                  [] b = r.bid -> "Done"
                                  [] OTHER     -> state[b]]
  BY DEF HandleDone
<1>5. PICK s \in SetToSeqs(D) : ready' = ready \o s
  BY DEF HandleDone
<1> HIDE DEF D
<1>6. /\ state' \in [Build -> BuildState]
      /\ \A b \in D : state'[b] = "Ready"
      /\ state'[r.bid] = "Done"
      /\ \A b \in Build : b \notin D /\ b # r.bid => state'[b] = state[b]
  BY <1>1, <1>2, <1>3, <1>4 DEF BuildState
<1>7. PendingExact' /\ pending' \in Nat
  <2>1. Owed' = Owed \ {r.bid} /\ r.bid \in Owed
    BY <1>1, <1>2, <1>3, <1>6 DEF Owed
  <2>2. IsFiniteSet(Owed) /\ Cardinality(Owed) \in Nat /\ Cardinality(Owed') \in Nat
    BY <2>1, BuildAssumption, FS_Subset, FS_CardinalityType DEF Owed
  <2>3. Cardinality(Owed') = Cardinality(Owed) - 1
    BY <2>1, <2>2, FS_RemoveElement
  <2>4. pending' = pending - 1
    BY DEF HandleDone
  <2> QED
    BY <1>3, <2>2, <2>3, <2>4 DEF BInv, PendingExact
<1>8. QueueExact' /\ ready' \in Seq(Build)
  <2>1. IsFiniteSet(D)
    BY <1>2, BuildAssumption, FS_Subset
  <2>2. Lists(s, D)
    BY <2>1, SetToSeqsLists
  <2>3. ReadySet \cap D = {}
    BY <1>2 DEF ReadySet, ReadyIn
  <2>4. Lists(ready', ReadySet \cup D)
    BY <1>5, <2>2, <2>3, ListsConcat DEF BInv, QueueExact
  <2>5. ReadySet' = ReadySet \cup D
    BY <1>1, <1>2, <1>6 DEF ReadySet, ReadyIn
  <2>6. ReadySet \cup D \subseteq Build
    BY <1>2 DEF ReadySet, ReadyIn
  <2>7. ready' \in Seq(Build)
    BY <2>4, <2>6, SeqMonotonic DEF Lists
  <2> QED
    BY <2>4, <2>5, <2>7 DEF QueueExact
<1>9. OutExact'
  BY <1>0, <1>2, <1>6, StillOut
<1>10. TypeOK'
  BY <1>0, <1>6, <1>7, <1>8, TakingTypes DEF HandleDone, TypeOK
<1> QED
  BY <1>7, <1>8, <1>9, <1>10 DEF BInv

(* An edge given up on: it stays Running, off every queue. *)
LEMMA BookkeepingGivenUp ==
    ASSUME BInv, NEW r \in results, HandleFailure(r) \/ DeferralRefused(r)
    PROVE  BInv'
<1>1. /\ Receive(r)
      /\ UNCHANGED <<ordering, state, pending, ready, noDefer>>
      /\ failed' \in {failed, failed + 1}
      /\ phase' \in {"run", "abort"}
  BY DEF HandleFailure, DeferralRefused, DeferralFails
<1>2. TypeOK /\ OutExact /\ PendingExact /\ QueueExact
  BY DEF BInv
<1>3. OutExact'
  BY <1>1, <1>2, StillOut
<1>4. TypeOK'
  <2>1. /\ ordering' \in [Build -> SUBSET File] /\ state' \in [Build -> BuildState]
        /\ pending' \in Nat /\ ready' \in Seq(Build) /\ noDefer' \subseteq Build
        /\ failed' \in Nat /\ phase' \in {"want", "run", "ok", "failed", "abort"}
    BY <1>1, <1>2 DEF TypeOK
  <2> QED
    BY <1>1, <2>1, TakingTypes
<1>5. PendingExact' /\ QueueExact'
  BY <1>1, <1>2 DEF PendingExact, Owed, QueueExact, ReadySet, ReadyIn
<1> QED
  BY <1>3, <1>4, <1>5 DEF BInv

(* An edge queued again as it is. *)
LEMMA BookkeepingAddsNothing ==
    ASSUME BInv, NEW r \in results, DeferralAddsNothing(r)
    PROVE  BInv'
<1>1. /\ TypeOK /\ OutExact /\ PendingExact /\ QueueExact /\ Receive(r)
      /\ state' = [state EXCEPT ![r.bid] = "Ready"]
      /\ ready' = Append(ready, r.bid)
      /\ UNCHANGED <<ordering, pending, failed, phase>>
      /\ noDefer' = noDefer \cup {r.bid}
  BY DEF BInv, DeferralAddsNothing, Suppress
<1>2. r.bid \in Build /\ state[r.bid] = "Running" /\ state \in [Build -> BuildState]
  BY <1>1, Taking DEF TypeOK
<1>3. /\ state' \in [Build -> BuildState] /\ state'[r.bid] = "Ready"
      /\ \A b \in Build : b # r.bid => state'[b] = state[b]
  BY <1>1, <1>2 DEF BuildState
<1>4. OutExact'
  BY <1>1, <1>3, StillOut
<1>5. ready \in Seq(Build) /\ ready' = ready \o <<r.bid>>
  BY <1>1, <1>2 DEF TypeOK
<1>6. QueueExact' /\ ready' \in Seq(Build)
  <2>1. ReadySet' = ReadySet \cup {r.bid} /\ ReadySet \cap {r.bid} = {}
    BY <1>2, <1>3 DEF ReadySet, ReadyIn
  <2>2. Lists(<<r.bid>>, {r.bid})
    BY ListsOne
  <2>3. Lists(ready', ReadySet')
    BY <1>1, <1>5, <2>1, <2>2, ListsConcat DEF QueueExact
  <2> QED
    BY <1>2, <1>5, <2>3 DEF QueueExact
<1>7. PendingExact'
  <2>1. Owed' = Owed
    BY <1>2, <1>3 DEF Owed
  <2> QED
    BY <1>1, <2>1 DEF PendingExact
<1>8. TypeOK'
  <2>1. /\ ordering' \in [Build -> SUBSET File]
        /\ pending' \in Nat /\ noDefer' \subseteq Build
        /\ failed' \in Nat /\ phase' \in {"want", "run", "ok", "failed", "abort"}
    BY <1>1, <1>2 DEF TypeOK
  <2> QED
    BY <1>1, <1>3, <1>6, <2>1, TakingTypes
<1> QED
  BY <1>4, <1>6, <1>7, <1>8 DEF BInv

(* A deferral edits one edge's inputs. *)
LEMMA EditTypes ==
    ASSUME BInv, NEW r \in results, Receive(r),
           ordering' = WithImplicitInputs(r.bid, NewIds(r))
    PROVE  /\ ordering' \in [Build -> SUBSET File]
           /\ \A b \in Build : b # r.bid => ordering'[b] = ordering[b]
           /\ ordering[r.bid] \subseteq ordering'[r.bid]
           /\ ordering'[r.bid] \subseteq ordering[r.bid] \cup NewIds(r)
<1>1. TypeOK /\ OutExact
  BY DEF BInv
<1>2. r.bid \in Build /\ NewIds(r) \subseteq File /\ ordering \in [Build -> SUBSET File]
  BY <1>1, Taking DEF TypeOK, NewIds
<1> QED
  BY <1>2 DEF WithImplicitInputs

(* A deferral queues the edge again behind the producers it wants. *)
LEMMA BookkeepingRequeued ==
    ASSUME BInv, NEW r \in results, DeferralRequeued(r)
    PROVE  BInv'
<1> DEFINE C    == NewlyWanted(ordering', NewIds(r))
           st   == MarkedState(ordering', C)
           free == RecheckReady(ordering', r.bid)
           last == IF free THEN <<r.bid>> ELSE <<>>
<1>1. /\ TypeOK /\ OutExact /\ PendingExact /\ QueueExact /\ Receive(r)
      /\ ordering' = WithImplicitInputs(r.bid, NewIds(r))
      /\ state' = [st EXCEPT ![r.bid] = IF free THEN "Ready" ELSE "Want"]
      /\ pending' = PendingWith(C)
      /\ UNCHANGED <<noDefer, failed, phase>>
  BY DEF BInv, DeferralRequeued
<1>2. PICK s \in SetToSeqs(MarkedReady(ordering', C)) : ready' = ready \o s \o last
  BY DEF DeferralRequeued
<1>3. r.bid \in Build /\ state[r.bid] = "Running" /\ state \in [Build -> BuildState]
  BY <1>1, Taking DEF TypeOK
<1>4. C \in SUBSET Unneeded
  BY NewlyWantedUnneeded
<1>5. r.bid \notin C
  BY <1>3, <1>4 DEF Unneeded
<1> HIDE DEF C, free
<1>6. /\ st \in [Build -> BuildState]
      /\ \A b \in Build \ C : st[b] = state[b]
      /\ PendingWith(C) \in Nat
      /\ PendingWith(C) = Cardinality(OwedIn(st))
      /\ ready \o s \in Seq(Build)
      /\ Lists(ready \o s, ReadyIn(st))
  BY <1>1, <1>4, Marking
<1> HIDE DEF st
<1>7. st[r.bid] = "Running"
  BY <1>3, <1>5, <1>6
<1>8. /\ state' \in [Build -> BuildState]
      /\ state'[r.bid] = IF free THEN "Ready" ELSE "Want"
      /\ \A b \in Build : b # r.bid => state'[b] = st[b]
  BY <1>1, <1>3, <1>6 DEF BuildState
<1>9. PendingExact' /\ pending' \in Nat
  <2>1. Owed' = OwedIn(st)
    BY <1>3, <1>7, <1>8 DEF Owed, OwedIn
  <2> QED
    BY <1>1, <1>6, <2>1 DEF PendingExact
<1>10. QueueExact' /\ ready' \in Seq(Build)
  <2>1. CASE free
    <3>1. Lists(last, {r.bid}) /\ last \in Seq(Build)
      BY <1>3, <2>1, ListsOne
    <3>2. ReadySet' = ReadyIn(st) \cup {r.bid} /\ ReadyIn(st) \cap {r.bid} = {}
      BY <1>3, <1>7, <1>8, <2>1 DEF ReadySet, ReadyIn
    <3> HIDE DEF last
    <3>3. Lists((ready \o s) \o last, ReadyIn(st) \cup {r.bid})
      BY <1>6, <3>1, <3>2, ListsConcat
    <3>4. (ready \o s) \o last \in Seq(Build)
      BY <1>6, <3>1, ConcatProperties
    <3> QED
      BY <1>2, <3>2, <3>3, <3>4 DEF QueueExact
  <2>2. CASE ~free
    <3>1. last = <<>>
      BY <2>2
    <3>2. ready' = ready \o s
      BY <1>2, <1>6, <3>1, ConcatEmptySeq
    <3>3. ReadySet' = ReadyIn(st)
      BY <1>3, <1>7, <1>8, <2>2 DEF ReadySet, ReadyIn
    <3> QED
      BY <1>6, <3>2, <3>3 DEF QueueExact
  <2> QED
    BY <2>1, <2>2
<1>11. OutExact'
  <2>1. \A b \in Build : b # r.bid /\ state[b] = "Running" => state'[b] = "Running"
    BY <1>4, <1>6, <1>8 DEF Unneeded
  <2> QED
    BY <1>1, <2>1, StillOut
<1>12. TypeOK'
  <2>1. /\ ordering' \in [Build -> SUBSET File] /\ noDefer' \subseteq Build
        /\ failed' \in Nat /\ phase' \in {"want", "run", "ok", "failed", "abort"}
    BY <1>1, EditTypes DEF TypeOK
  <2> QED
    BY <1>1, <1>8, <1>9, <1>10, <2>1, TakingTypes
<1> QED
  BY <1>9, <1>10, <1>11, <1>12 DEF BInv

(* A walk broken off by a cycle has counted and queued what it marked. *)
LEMMA BookkeepingWantFails ==
    ASSUME BInv, NEW r \in results, DeferralWantFails(r)
    PROVE  BInv'
<1>1. /\ TypeOK /\ OutExact /\ PendingExact /\ QueueExact /\ Receive(r)
      /\ ordering' = WithImplicitInputs(r.bid, NewIds(r))
      /\ failed' = failed + 1 /\ phase' \in {"run", "abort"}
      /\ UNCHANGED noDefer
  BY DEF BInv, DeferralWantFails, DeferralFails
<1>2. PICK C \in PartlyWalked(ordering', NewlyWanted(ordering', NewIds(r))) :
        /\ state' = MarkedState(ordering', C)
        /\ \E s \in SetToSeqs(MarkedReady(ordering', C)) : ready' = ready \o s
        /\ pending' = PendingWith(C)
  BY DEF DeferralWantFails
<1>3. C \in SUBSET Unneeded
  BY NewlyWantedUnneeded DEF PartlyWalked
<1>4. /\ state' \in [Build -> BuildState] /\ pending' \in Nat
      /\ ready' \in Seq(Build)
      /\ PendingExact' /\ QueueExact'
      /\ \A b \in Build : state[b] # "Unneeded" => state'[b] = state[b]
  BY <1>2, <1>3, WalkTaken
<1>5. OutExact'
  BY <1>1, <1>4, StillOut
<1>6. TypeOK'
  <2>1. /\ ordering' \in [Build -> SUBSET File] /\ noDefer' \subseteq Build
        /\ failed' \in Nat /\ phase' \in {"want", "run", "ok", "failed", "abort"}
    BY <1>1, EditTypes DEF TypeOK
  <2> QED
    BY <1>1, <1>4, <2>1, TakingTypes
<1> QED
  BY <1>4, <1>5, <1>6 DEF BInv

(* Every step keeps the books. *)
LEMMA BookkeepingStep == BInv /\ [Next]_vars => BInv'
<1> SUFFICES ASSUME BInv, [Next]_vars PROVE BInv'
  OBVIOUS
<1>1. CASE WantTarget
  BY <1>1, BookkeepingWant
<1>2. CASE WantTargetRefused \/ BeginRun \/ EndRun \/ UNCHANGED vars
  BY <1>2, StillSteps, BookkeepingStill
<1>3. CASE StartEdge \/ StartFails
  BY <1>3, BookkeepingStart
<1>4. ASSUME NEW b \in Build, Task(b) PROVE BInv'
  BY <1>4, BookkeepingTask
<1>5. ASSUME NEW r \in results, Handle(r) PROVE BInv'
  BY <1>5, BookkeepingDone, BookkeepingGivenUp, BookkeepingAddsNothing,
     BookkeepingRequeued, BookkeepingWantFails DEF Handle
<1> QED
  BY <1>1, <1>2, <1>3, <1>4, <1>5 DEF Next, Main, Stopped

(* The books balance in every reachable state. *)
LEMMA BookkeepingAlways == Spec => []BInv
<1>1. Init => BInv
  BY BookkeepingInit
<1>2. BInv /\ [Next]_vars => BInv'
  BY BookkeepingStep
<1> QED
  BY <1>1, <1>2, PTL DEF Spec

(* The variables keep their types through every step, so no handler ever   *)
(* takes total_pending or the running count below zero.                    *)
THEOREM TypeCorrect == Spec => []TypeOK
<1>1. BInv => TypeOK
  BY DEF BInv
<1> QED
  BY <1>1, BookkeepingAlways, PTL

(* The inductive form says all that Bookkeeping does. *)
LEMMA BooksFromInv == BInv => Bookkeeping
<1> SUFFICES ASSUME BInv PROVE Bookkeeping
  OBVIOUS
<1>1. /\ threads \subseteq Build /\ results \subseteq Result
      /\ \A r \in results : r.bid \in Build
  BY DEF BInv, TypeOK, Result
<1>2. /\ ToSet(ready) = ReadySet /\ Len(ready) = Cardinality(ReadySet)
  BY ListsSize DEF BInv, QueueExact
<1>3. Cardinality(Answered) = Cardinality(results)
  <2> DEFINE g == [r \in results |-> r.bid]
  <2>1. g \in Surjection(results, Answered)
    BY DEF Surjection, Answered
  <2>2. g \in Injection(results, Answered)
    BY DEF Injection, IsInjective, Answered, BInv, OutExact
  <2>3. IsFiniteSet(results)
    BY DEF BInv, OutExact
  <2> QED
    BY <2>1, <2>2, <2>3, FS_Surjection
<1>4. /\ threads \cap Answered = {}
      /\ \A b \in threads \cup Answered : state[b] = "Running"
  BY DEF BInv, OutExact, Answered
<1> QED
  BY <1>2, <1>3, <1>4
     DEF Bookkeeping, BInv, PendingExact, OutExact, ReadySet, ReadyIn

(* The redundant copies are exact: total_pending, the ready queue, the     *)
(* running count and the two ends of the channel, over any number of       *)
(* deferrals and requeues.                                                 *)
THEOREM BooksBalance == Spec => []Bookkeeping
  BY BooksFromInv, BookkeepingAlways, PTL

-----------------------------------------------------------------------------
(* Reachability and cycles.                                                *)

(* Reach is a closed set of edges that holds its start. *)
LEMMA ReachHolds ==
    ASSUME NEW dep, NEW S \in SUBSET Build, \A b \in Build : dep[b] \subseteq Build
    PROVE  /\ S \subseteq Reach(S, dep)
           /\ Reach(S, dep) \subseteq Build
           /\ \A b \in Reach(S, dep) : dep[b] \subseteq Reach(S, dep)
<1>1. S \subseteq Reach(S, dep) /\ Reach(S, dep) \subseteq Build
  BY DEF Reach
<1>2. ASSUME NEW b \in Reach(S, dep), NEW d \in dep[b]
      PROVE  d \in Reach(S, dep)
  <2>1. d \in Build
    BY <1>1, <1>2
  <2>2. ASSUME NEW C \in SUBSET Build, S \subseteq C, \A c \in C : dep[c] \subseteq C
        PROVE  d \in C
    <3>1. b \in C
      BY <1>2, <2>2 DEF Reach
    <3> QED
      BY <1>2, <2>2, <3>1
  <2> QED
    BY <2>1, <2>2 DEF Reach
<1> QED
  BY <1>1, <1>2

(* A part of an acyclic set is acyclic, and so it stays with fewer         *)
(* dependencies.                                                           *)
LEMMA AcyclicPart ==
    ASSUME NEW S, NEW T \in SUBSET S, NEW dep, NEW dep2,
           \A b \in T : dep2[b] = dep[b], Acyclic(S, dep)
    PROVE  Acyclic(T, dep2)
  BY DEF Acyclic, Knots

(* Edges nobody in S waits on can join without closing a cycle. *)
LEMMA AcyclicJoin ==
    ASSUME NEW S, NEW C, NEW dep, Acyclic(S, dep), Acyclic(C, dep),
           \A b \in S : dep[b] \cap C = {}
    PROVE  Acyclic(S \cup C, dep)
<1> SUFFICES ASSUME NEW T \in Knots(S \cup C, dep) PROVE FALSE
  BY DEF Acyclic
<1>1. T \subseteq S \cup C /\ T # {} /\ \A b \in T : dep[b] \cap T # {}
  BY DEF Knots
<1>2. CASE T \cap S = {}
  <2>1. T \in Knots(C, dep)
    BY <1>1, <1>2 DEF Knots
  <2> QED
    BY <2>1 DEF Acyclic
<1>3. CASE T \cap S # {}
  <2>1. \A b \in T \cap S : dep[b] \cap (T \cap S) # {}
    BY <1>1
  <2>2. T \cap S \in Knots(S, dep)
    BY <1>3, <2>1 DEF Knots
  <2> QED
    BY <2>2 DEF Acyclic
<1> QED
  BY <1>2, <1>3

(* Edge c may be made to wait on P when nothing P reaches is c. *)
LEMMA AcyclicEdit ==
    ASSUME NEW S, NEW dep, NEW dep2, NEW c, NEW P, NEW R,
           Acyclic(S, dep),
           \A b \in S : b # c => dep2[b] = dep[b],
           dep2[c] \subseteq dep[c] \cup P,
           P \subseteq R, c \notin R, \A b \in R : dep[b] \subseteq R
    PROVE  Acyclic(S, dep2)
<1> SUFFICES ASSUME NEW T \in Knots(S, dep2) PROVE FALSE
  BY DEF Acyclic
<1>1. T \subseteq S /\ T # {} /\ \A b \in T : dep2[b] \cap T # {}
  BY DEF Knots
<1>2. CASE T \cap R = {}
  <2>1. \A b \in T : dep[b] \cap T # {}
    BY <1>1, <1>2
  <2>2. T \in Knots(S, dep)
    BY <1>1, <2>1 DEF Knots
  <2> QED
    BY <2>2 DEF Acyclic
<1>3. CASE T \cap R # {}
  <2>1. \A b \in T \cap R : dep[b] \cap (T \cap R) # {}
    BY <1>1
  <2>2. T \cap R \in Knots(S, dep)
    BY <1>1, <1>3, <2>1 DEF Knots
  <2> QED
    BY <2>2 DEF Acyclic
<1> QED
  BY <1>2, <1>3

(* The producers of files are edges, and a walk is closed downwards. *)
LEMMA DepsAreEdges ==
    ASSUME graph \in Graph, NEW ord \in [Build -> SUBSET File]
    PROVE  /\ \A files \in SUBSET File : Producers(files) \subseteq Build
           /\ \A b \in Build : OrderDeps(ord)[b] = Producers(ord[b])
           /\ \A b \in Build : OrderDeps(ord)[b] \subseteq Build
           /\ \A b \in Build : OrderDeps(ord)[b] \subseteq WalkDeps(ord)[b]
           /\ \A b \in Build : WalkDeps(ord)[b] \subseteq Build
  BY DEF Graph, Producers, OrderDeps, WalkDeps

(* A walk marks the unneeded producers it starts from, and no edge without *)
(* the unneeded edges that one waits on.                                   *)
LEMMA WalkClosed ==
    ASSUME graph \in Graph, NEW ord \in [Build -> SUBSET File], NEW files \in SUBSET File
    PROVE  /\ Producers(files) \cap Unneeded \subseteq NewlyWanted(ord, files)
           /\ \A b \in NewlyWanted(ord, files) :
                 OrderDeps(ord)[b] \cap Unneeded \subseteq NewlyWanted(ord, files)
<1> DEFINE dep == [b \in Build |-> WalkDeps(ord)[b] \cap Unneeded]
           S   == Producers(files) \cap Unneeded
<1>1. S \in SUBSET Build /\ \A b \in Build : dep[b] \subseteq Build
  BY DEF Unneeded
<1>2. NewlyWanted(ord, files) = Reach(S, dep)
  BY DEF NewlyWanted
<1>3. \A b \in Build : OrderDeps(ord)[b] \cap Unneeded \subseteq dep[b]
  BY DepsAreEdges
<1> HIDE DEF dep, S
<1>4. /\ S \subseteq Reach(S, dep) /\ Reach(S, dep) \subseteq Build
      /\ \A b \in Reach(S, dep) : dep[b] \subseteq Reach(S, dep)
  BY <1>1, ReachHolds
<1> QED
  BY <1>2, <1>3, <1>4 DEF S

-----------------------------------------------------------------------------
(* The order and the absence of stalls, in the form that is inductive: the *)
(* wanted edges that can still run hold no cycle and wait on wanted edges  *)
(* only, and nothing is stuck while no failure is on record.               *)

NoKnots == Acyclic(Wanted \ Stuck, OrderDeps(ordering))

Closed == \A b \in Wanted \ Stuck : OrderDeps(ordering)[b] \subseteq Wanted

NoneStuck == phase \in {"want", "run", "ok"} /\ failed = 0 => Stuck = {}

OInv == BInv /\ OrderRespected /\ NoKnots /\ Closed /\ NoneStuck

(* Nothing is wanted at first. *)
LEMMA OrderFresh == Fresh /\ todo \in Seq(File) => OInv
<1> SUFFICES ASSUME Fresh, todo \in Seq(File) PROVE OInv
  OBVIOUS
<1>1. BInv
  BY BookkeepingFresh
<1>2. Wanted = {} /\ Stuck = {}
  BY DEF Fresh, Wanted, Unneeded, Stuck
<1>3. OrderRespected
  BY DEF Fresh, OrderRespected
<1>4. NoKnots /\ Closed /\ NoneStuck
  BY <1>2 DEF NoKnots, Closed, NoneStuck, Acyclic, Knots
<1> QED
  BY <1>1, <1>3, <1>4 DEF OInv

(* A step that moves edges between Ready and Running only. *)
QuietMove(b) == \/ state'[b] = state[b]
                \/ state[b] \in {"Ready", "Running"} /\ state'[b] \in {"Ready", "Running"}

(* Such a step keeps the order, the closure and the absence of cycles. *)
LEMMA QuietOrder ==
    ASSUME OInv, graph' = graph, ordering' = ordering, Stuck \subseteq Stuck',
           \A b \in Build : QuietMove(b)
    PROVE  OrderRespected' /\ NoKnots' /\ Closed'
<1>1. Wanted' = Wanted
  BY DEF Wanted, Unneeded, QuietMove
<1>2. \A b \in Build : state'[b] = "Done" <=> state[b] = "Done"
  BY DEF QuietMove
<1>3. graph \in Graph /\ ordering \in [Build -> SUBSET File]
  BY DEF OInv, BInv, TypeOK
<1>4. \A b \in Build : Producers(ordering[b]) \subseteq Build
  BY <1>3, DepsAreEdges
<1>5. \A b \in Build : RecheckReady(ordering, b)' <=> RecheckReady(ordering, b)
  BY <1>2, <1>4 DEF RecheckReady, Producers
<1>6. OrderRespected'
  BY <1>5 DEF OInv, OrderRespected, QuietMove
<1>7. OrderDeps(ordering)' = OrderDeps(ordering)
  BY DEF OrderDeps, Producers
<1>8. Wanted' \ Stuck' \in SUBSET (Wanted \ Stuck)
  BY <1>1
<1>9. NoKnots' /\ Closed'
  BY <1>1, <1>7, <1>8, AcyclicPart DEF OInv, NoKnots, Closed
<1> QED
  BY <1>6, <1>9

(* A step that wants the edges C of a walk, along an order edited at E. *)
WalkMove(C, E) ==
    /\ \A b \in Build \ E : ordering'[b] = ordering[b]
    /\ \A b \in Build \ (C \cup E) : state'[b] = state[b]
    /\ \A b \in C : state'[b] = IF RecheckReady(ordering', b) THEN "Ready" ELSE "Want"
    /\ \A b \in E : /\ state[b] \notin {"Unneeded", "Done"}
                    /\ state'[b] \notin {"Unneeded", "Done"}
    /\ Acyclic(C, OrderDeps(ordering'))
    /\ \A b \in C : OrderDeps(ordering')[b] \cap Unneeded \subseteq C

(* OrderRespected after the step, but for the edges of E. *)
OrderedBut(E) ==
    \A b \in Build \ E :
        /\ b \notin Stuck' /\ state'[b] \in {"Ready", "Running", "Done"}
              => RecheckReady(ordering', b)
        /\ state'[b] = "Want" => ~RecheckReady(ordering', b)

(* A step that finishes no edge reads every edge's readiness as before it. *)
LEMMA RecheckSame ==
    ASSUME graph \in Graph, graph' = graph, ordering' \in [Build -> SUBSET File],
           \A b \in Build : state'[b] = "Done" <=> state[b] = "Done"
    PROVE  \A b \in Build : RecheckReady(ordering, b)' <=> RecheckReady(ordering', b)
<1>1. \A b \in Build : Producers(ordering'[b]) \subseteq Build
  BY DepsAreEdges
<1> QED
  BY <1>1 DEF RecheckReady, Producers

(* A walk over the edited order keeps them too, but for the edges of E. *)
LEMMA WalkOrder ==
    ASSUME OInv, graph' = graph, Stuck \subseteq Stuck',
           NEW C \in SUBSET Unneeded, NEW E \in SUBSET Wanted,
           ordering' \in [Build -> SUBSET File], WalkMove(C, E)
    PROVE  /\ \A b \in Build : state'[b] = "Done" <=> state[b] = "Done"
           /\ OrderedBut(E)
           /\ Wanted' = Wanted \cup C
           /\ Acyclic((Wanted \cup C) \ Stuck, OrderDeps(ordering))
           /\ \A b \in (Wanted \cup C) \ (Stuck \cup E) :
                 OrderDeps(ordering')[b] \subseteq Wanted \cup C
<1> USE DEF WalkMove
<1>1. graph \in Graph /\ ordering \in [Build -> SUBSET File]
  BY DEF OInv, BInv, TypeOK
<1>2. /\ C \subseteq Build /\ \A b \in C : state[b] = "Unneeded"
      /\ E \subseteq Build /\ E \cap C = {}
  BY DEF Unneeded, Wanted
<1>3. \A b \in Build : state'[b] = "Done" <=> state[b] = "Done"
  BY <1>2
<1>4. \A b \in Build \ E : RecheckReady(ordering', b) <=> RecheckReady(ordering, b)
  BY DEF RecheckReady
<1>5. ASSUME NEW b \in Build \ E
      PROVE  /\ b \notin Stuck' /\ state'[b] \in {"Ready", "Running", "Done"}
                   => RecheckReady(ordering', b)
             /\ state'[b] = "Want" => ~RecheckReady(ordering', b)
  <2>1. CASE b \in C
    BY <2>1
  <2>2. CASE b \notin C
    <3>1. state'[b] = state[b] /\ (b \notin Stuck' => b \notin Stuck)
      BY <1>5, <2>2
    <3>2. /\ b \notin Stuck /\ state[b] \in {"Ready", "Running", "Done"}
                => RecheckReady(ordering, b)
          /\ state[b] = "Want" => ~RecheckReady(ordering, b)
      BY <1>5 DEF OInv, OrderRespected
    <3> QED
      BY <1>4, <1>5, <3>1, <3>2
  <2> QED
    BY <2>1, <2>2
<1>6. Wanted' = Wanted \cup C
  BY <1>2 DEF Wanted, Unneeded
<1>7. \A b \in Build \ E : OrderDeps(ordering')[b] = OrderDeps(ordering)[b]
  BY DEF OrderDeps
<1>8. Acyclic((Wanted \cup C) \ Stuck, OrderDeps(ordering))
  <2>1. C \cap Stuck = {}
    BY <1>2 DEF Stuck
  <2>2. Acyclic(C, OrderDeps(ordering))
    BY <1>2, <1>7, AcyclicPart
  <2>3. \A b \in Wanted \ Stuck : OrderDeps(ordering)[b] \cap C = {}
    BY DEF OInv, Closed, Wanted, Unneeded
  <2>4. Acyclic(Wanted \ Stuck, OrderDeps(ordering))
    BY DEF OInv, NoKnots
  <2>5. Acyclic((Wanted \ Stuck) \cup C, OrderDeps(ordering))
    BY <2>2, <2>3, <2>4, AcyclicJoin
  <2>6. (Wanted \ Stuck) \cup C = (Wanted \cup C) \ Stuck
    BY <2>1
  <2> QED
    BY <2>5, <2>6
<1>9. ASSUME NEW b \in (Wanted \cup C) \ (Stuck \cup E)
       PROVE  OrderDeps(ordering')[b] \subseteq Wanted \cup C
  <2>1. b \in Build
    BY <1>2 DEF Wanted
  <2>2. OrderDeps(ordering')[b] \subseteq Build
    BY <1>1, <2>1, DepsAreEdges
  <2>3. CASE b \in C
    BY <2>2, <2>3 DEF Wanted
  <2>4. CASE b \notin C
    BY <1>7, <1>9, <2>1, <2>4 DEF OInv, Closed
  <2> QED
    BY <2>3, <2>4
<1> QED
  BY <1>3, <1>5, <1>6, <1>8, <1>9 DEF OrderedBut

(* A target is walked: the marked edges are closed and acyclic. *)
LEMMA OrderWant == OInv /\ WantTarget => OInv'
<1> SUFFICES ASSUME OInv, WantTarget PROVE OInv'
  OBVIOUS
<1> DEFINE C == NewlyWanted(ordering, {Head(todo)})
<1>1. BInv /\ BInv' /\ graph \in Graph /\ ordering \in [Build -> SUBSET File]
  BY BookkeepingWant DEF OInv, BInv, TypeOK
<1>2. /\ graph' = graph /\ ordering' = ordering /\ threads' = threads
      /\ results' = results /\ failed' = failed /\ phase' = phase /\ phase = "want"
      /\ Acyclic(C, OrderDeps(ordering))
      /\ state' = MarkedState(ordering, C) /\ pending' = PendingWith(C)
      /\ \E s \in SetToSeqs(MarkedReady(ordering, C)) : ready' = ready \o s
  BY DEF WantTarget
<1>3. {Head(todo)} \in SUBSET File
  BY DEF WantTarget, OInv, BInv, TypeOK
<1>4. C \in SUBSET Unneeded
  BY NewlyWantedUnneeded
<1>5. \A b \in C : OrderDeps(ordering)[b] \cap Unneeded \subseteq C
  BY <1>1, <1>3, WalkClosed
<1> HIDE DEF C
<1>6. /\ \A b \in Build \ C : state'[b] = state[b]
      /\ \A b \in C : state'[b] = IF RecheckReady(ordering, b) THEN "Ready" ELSE "Want"
  BY <1>1, <1>2, <1>4, WalkTaken
<1>7. Stuck' = Stuck
  BY <1>2, <1>4, <1>6 DEF Stuck, Answered, Unneeded
<1>8. /\ OrderedBut({})
      /\ \A b \in Build : state'[b] = "Done" <=> state[b] = "Done"
      /\ Wanted' = Wanted \cup C
      /\ Acyclic((Wanted \cup C) \ Stuck, OrderDeps(ordering))
      /\ \A b \in (Wanted \cup C) \ Stuck :
            OrderDeps(ordering')[b] \subseteq Wanted \cup C
  <2> DEFINE E == {}
  <2>1. WalkMove(C, E)
    BY <1>2, <1>5, <1>6 DEF WalkMove
  <2>2. ordering' \in [Build -> SUBSET File] /\ E \in SUBSET Wanted /\ Stuck \subseteq Stuck'
    BY <1>1, <1>2, <1>7
  <2> HIDE DEF E
  <2>3. /\ \A b \in Build : state'[b] = "Done" <=> state[b] = "Done"
        /\ OrderedBut(E)
        /\ Wanted' = Wanted \cup C
        /\ Acyclic((Wanted \cup C) \ Stuck, OrderDeps(ordering))
        /\ \A b \in (Wanted \cup C) \ (Stuck \cup E) :
              OrderDeps(ordering')[b] \subseteq Wanted \cup C
    BY <1>2, <1>4, <2>1, <2>2, WalkOrder
  <2> QED
    BY <2>3 DEF E
<1>9. OrderDeps(ordering)' = OrderDeps(ordering)
  BY <1>2 DEF OrderDeps, Producers
<1>10. OrderRespected'
  <2>1. \A b \in Build : RecheckReady(ordering, b)' <=> RecheckReady(ordering', b)
    BY <1>1, <1>2, <1>8, RecheckSame
  <2> QED
    BY <1>8, <2>1 DEF OrderRespected, OrderedBut
<1>11. NoKnots' /\ Closed'
  BY <1>2, <1>7, <1>8, <1>9 DEF NoKnots, Closed
<1>12. NoneStuck'
  BY <1>2, <1>7 DEF OInv, NoneStuck
<1> QED
  BY <1>1, <1>10, <1>11, <1>12 DEF OInv

(* The steps that move no edge. *)
LEMMA OrderStill == OInv /\ Still => OInv'
<1> SUFFICES ASSUME OInv, Still PROVE OInv'
  OBVIOUS
<1>1. BInv'
  BY BookkeepingStill DEF OInv
<1>2. /\ graph' = graph /\ ordering' = ordering /\ state' = state
      /\ threads' = threads /\ results' = results /\ failed' = failed
  BY DEF Still
<1>3. Stuck' = Stuck
  BY <1>2 DEF Stuck, Answered
<1>4. OrderRespected' /\ NoKnots' /\ Closed'
  <2>1. \A c \in Build : QuietMove(c)
    BY <1>2 DEF QuietMove
  <2> QED
    BY <1>2, <1>3, <2>1, QuietOrder
<1>5. phase' \in {"want", "run", "ok"} => phase \in {"want", "run", "ok"}
  BY DEF Still
<1>6. NoneStuck'
  BY <1>2, <1>3, <1>5 DEF OInv, NoneStuck
<1> QED
  BY <1>1, <1>4, <1>6 DEF OInv

(* An edge starts, or its start fails and the run aborts. *)
LEMMA OrderStart == OInv /\ (StartEdge \/ StartFails) => OInv'
<1> SUFFICES ASSUME OInv, StartEdge \/ StartFails PROVE OInv'
  OBVIOUS
<1> DEFINE h == Head(ready)
<1>1. BInv /\ BInv'
  BY BookkeepingStart DEF OInv
<1>2. /\ graph' = graph /\ ordering' = ordering /\ failed' = failed
      /\ ready # <<>> /\ state' = [state EXCEPT ![h] = "Running"]
      /\ ready' = Tail(ready) /\ pending' = pending
  BY DEF StartEdge, StartFails
<1>3. h \in Build /\ state[h] = "Ready" /\ state \in [Build -> BuildState]
  BY <1>1, <1>2, Starting DEF BInv, TypeOK
<1>4. \A b \in Build : b # h => state'[b] = state[b]
  BY <1>2, <1>3
<1>5. state'[h] = "Running"
  BY <1>2, <1>3
<1>6. \A b \in Build : QuietMove(b)
  BY <1>3, <1>4, <1>5 DEF QuietMove
<1>7. CASE StartEdge
  <2>1. threads' \cup Answered' = threads \cup Answered \cup {h} /\ phase' = phase
    <3>1. CASE h \in graph.phony
      <4>1. /\ threads' = threads /\ phase' = phase
            /\ results' = results \cup {Answer(h, "ok", {})}
        BY <1>7, <3>1 DEF StartEdge
      <4>2. Answered' = Answered \cup {Answer(h, "ok", {}).bid}
        BY <4>1 DEF Answered
      <4>3. Answered' = Answered \cup {h}
        BY <4>2 DEF Answer
      <4> QED
        BY <4>1, <4>3
    <3>2. CASE h \notin graph.phony
      <4>1. /\ threads' = threads \cup {h} /\ phase' = phase /\ results' = results
        BY <1>7, <3>2 DEF StartEdge
      <4>2. Answered' = Answered
        BY <4>1 DEF Answered
      <4> QED
        BY <4>1, <4>2
    <3> QED
      BY <3>1, <3>2
  <2>2. Stuck' = Stuck
    BY <1>3, <1>4, <1>5, <2>1 DEF Stuck
  <2>3. OrderRespected' /\ NoKnots' /\ Closed'
    BY <1>2, <1>6, <2>2, QuietOrder
  <2>4. NoneStuck'
    BY <1>2, <2>1, <2>2 DEF OInv, NoneStuck
  <2> QED
    BY <1>1, <2>3, <2>4 DEF OInv
<1>8. CASE StartFails
  <2>1. threads' = threads /\ results' = results /\ phase' = "abort"
    BY <1>8 DEF StartFails
  <2>2. Stuck \subseteq Stuck'
    BY <1>3, <1>4, <1>5, <2>1 DEF Stuck, Answered
  <2>3. OrderRespected' /\ NoKnots' /\ Closed'
    BY <1>2, <1>6, <2>2, QuietOrder
  <2>4. NoneStuck'
    BY <2>1 DEF NoneStuck
  <2> QED
    BY <1>1, <2>3, <2>4 DEF OInv
<1> QED
  BY <1>7, <1>8

(* A thread ends: its edge is answered for, and not stuck. *)
LEMMA OrderTask ==
    ASSUME OInv, NEW b \in Build, Task(b)
    PROVE  OInv'
<1>1. BInv'
  BY BookkeepingTask DEF OInv
<1>2. /\ graph' = graph /\ ordering' = ordering /\ state' = state
      /\ failed' = failed /\ phase' = phase
      /\ \E a : a.bid = b /\ threads' = threads \ {b} /\ results' = results \cup {a}
  BY DEF Task, TaskEmits, TaskFails, TaskDefers, Answer
<1>3. Stuck' \subseteq Stuck /\ Stuck \subseteq Stuck'
  <2>1. b \in threads
    BY DEF Task, TaskEmits, TaskFails, TaskDefers
  <2> QED
    BY <1>2, <2>1 DEF Stuck, Answered
<1>4. OrderRespected' /\ NoKnots' /\ Closed'
  <2>1. \A c \in Build : QuietMove(c)
    BY <1>2 DEF QuietMove
  <2> QED
    BY <1>2, <1>3, <2>1, QuietOrder
<1>5. NoneStuck'
  BY <1>2, <1>3 DEF OInv, NoneStuck
<1> QED
  BY <1>1, <1>4, <1>5 DEF OInv

(* A result taken away: its edge is the only one nobody answers for now. *)
LEMMA AnsweredLess ==
    ASSUME BInv, NEW r \in results, Receive(r)
    PROVE  /\ r.bid \in Build /\ state[r.bid] = "Running"
           /\ r.bid \in Answered /\ r.bid \notin Stuck /\ r.bid \in Wanted
           /\ Answered' = Answered \ {r.bid} /\ threads' = threads
           /\ r.bid \notin threads /\ graph' = graph
<1>1. TypeOK /\ OutExact
  BY DEF BInv
<1>2. /\ r.bid \in Build /\ state[r.bid] = "Running" /\ r.bid \notin threads
      /\ \A q \in results' : q.bid # r.bid
  BY <1>1, Taking
<1>3. results' = results \ {r} /\ threads' = threads /\ graph' = graph
  BY DEF Receive
<1>4. r.bid \in Answered
  BY DEF Answered
<1>5. Answered' = Answered \ {r.bid}
  BY <1>1, <1>2, <1>3 DEF Answered, OutExact
<1> QED
  BY <1>2, <1>3, <1>4, <1>5 DEF Stuck, Wanted, Unneeded

(* An edge is freed only by the last producer it waits on. *)
LEMMA OrderDone ==
    ASSUME OInv, NEW r \in results, HandleDone(r)
    PROVE  OInv'
<1> DEFINE D == NowReady(r.bid)
<1>1. BInv /\ BInv' /\ Receive(r) /\ graph \in Graph /\ ordering \in [Build -> SUBSET File]
  BY BookkeepingDone DEF OInv, BInv, TypeOK, HandleDone
<1>2. /\ r.bid \in Build /\ state[r.bid] = "Running" /\ r.bid \notin Stuck
      /\ Answered' = Answered \ {r.bid} /\ threads' = threads /\ r.bid \notin threads
      /\ graph' = graph
  BY <1>1, AnsweredLess
<1>3. /\ ordering' = ordering /\ failed' = failed /\ phase' = phase
      /\ state' = [b \in Build |-> CASE b \in D   -> "Ready"
                                     [] b = r.bid -> "Done"
                                     [] OTHER     -> state[b]]
  BY DEF HandleDone
<1>4. /\ \A b \in D : b \in Build /\ state[b] = "Want"
      /\ \A b \in D : \A p \in Producers(ordering[b]) \ {r.bid} : state[p] = "Done"
      /\ \A b \in Build : 
            /\ state[b] = "Want" /\ r.bid \in WalkDeps(ordering)[b]
            /\ \A p \in Producers(ordering[b]) \ {r.bid} : state[p] = "Done"
            => b \in D
  BY DEF NowReady
<1> HIDE DEF D
<1>5. /\ \A b \in D : state'[b] = "Ready"
      /\ state'[r.bid] = "Done"
      /\ \A b \in Build : b \notin D /\ b # r.bid => state'[b] = state[b]
  BY <1>2, <1>3, <1>4
<1>6. Stuck' = Stuck
  BY <1>2, <1>4, <1>5 DEF Stuck
<1>7. Wanted' = Wanted
  BY <1>2, <1>4, <1>5 DEF Wanted, Unneeded
<1>8. \A b \in Build : state'[b] = "Done" <=> state[b] = "Done" \/ b = r.bid
  BY <1>2, <1>4, <1>5
<1>9. \A b \in Build : Producers(ordering[b]) \subseteq Build
  BY <1>1, DepsAreEdges
<1>10. \A b \in Build : RecheckReady(ordering, b)' 
                          <=> \A p \in Producers(ordering[b]) \ {r.bid} : state[p] = "Done"
  BY <1>2, <1>3, <1>8, <1>9 DEF RecheckReady, Producers
<1>11. OrderRespected'
  <2>1. ASSUME NEW b \in Build \ Stuck', state'[b] \in {"Ready", "Running", "Done"}
        PROVE  RecheckReady(ordering, b)'
    <3>1. CASE b \in D
      BY <1>4, <1>10, <3>1
    <3>2. CASE b \notin D
      <4>1. b \notin Stuck /\ state[b] \in {"Ready", "Running", "Done"}
        BY <1>2, <1>5, <1>6, <2>1, <3>2
      <4>2. RecheckReady(ordering, b)
        BY <2>1, <4>1 DEF OInv, OrderRespected
      <4> QED
        BY <1>10, <2>1, <4>2 DEF RecheckReady
    <3> QED
      BY <3>1, <3>2
  <2>2. ASSUME NEW b \in Build, state'[b] = "Want"
        PROVE  ~RecheckReady(ordering, b)'
    <3>1. b \notin D /\ b # r.bid /\ state[b] = "Want"
      BY <1>5, <2>2
    <3>2. ~RecheckReady(ordering, b)
      BY <3>1 DEF OInv, OrderRespected
    <3>3. CASE r.bid \in Producers(ordering[b])
      <4>1. r.bid \in WalkDeps(ordering)[b]
        BY <1>1, <3>3, DepsAreEdges
      <4> QED
        BY <1>4, <1>10, <3>1, <4>1
    <3>4. CASE r.bid \notin Producers(ordering[b])
      BY <1>10, <3>2, <3>4 DEF RecheckReady
    <3> QED
      BY <3>3, <3>4
  <2> QED
    BY <2>1, <2>2 DEF OrderRespected
<1>12. OrderDeps(ordering)' = OrderDeps(ordering)
  BY <1>2, <1>3 DEF OrderDeps, Producers
<1>13. NoKnots' /\ Closed'
  BY <1>6, <1>7, <1>12 DEF OInv, NoKnots, Closed
<1>14. NoneStuck'
  BY <1>3, <1>6 DEF OInv, NoneStuck
<1> QED
  BY <1>1, <1>11, <1>13, <1>14 DEF OInv

(* An edge given up on is stuck, and a failure is on record. *)
LEMMA OrderGivenUp ==
    ASSUME OInv, NEW r \in results, HandleFailure(r) \/ DeferralRefused(r)
    PROVE  OInv'
<1>1. BInv /\ BInv' /\ Receive(r) /\ failed \in Nat
  BY BookkeepingGivenUp DEF OInv, BInv, TypeOK, HandleFailure, DeferralRefused
<1>2. ordering' = ordering /\ state' = state /\ (phase' = "abort" \/ failed' = failed + 1)
  BY DEF HandleFailure, DeferralRefused, DeferralFails
<1>3. graph' = graph /\ threads' = threads /\ Answered' \subseteq Answered
  BY <1>1, AnsweredLess
<1>4. Stuck \subseteq Stuck'
  BY <1>2, <1>3 DEF Stuck
<1>5. \A b \in Build : QuietMove(b)
  BY <1>2 DEF QuietMove
<1>6. OrderRespected' /\ NoKnots' /\ Closed'
  BY <1>2, <1>3, <1>4, <1>5, QuietOrder
<1>7. NoneStuck'
  BY <1>1, <1>2 DEF NoneStuck
<1> QED
  BY <1>1, <1>6, <1>7 DEF OInv

(* An edge queued again as it is has its producers built. *)
LEMMA OrderAddsNothing ==
    ASSUME OInv, NEW r \in results, DeferralAddsNothing(r)
    PROVE  OInv'
<1>1. BInv /\ BInv' /\ Receive(r) /\ state \in [Build -> BuildState]
  BY BookkeepingAddsNothing DEF OInv, BInv, TypeOK, DeferralAddsNothing
<1>2. /\ ordering' = ordering /\ failed' = failed /\ phase' = phase
      /\ state' = [state EXCEPT ![r.bid] = "Ready"]
  BY DEF DeferralAddsNothing
<1>3. /\ r.bid \in Build /\ state[r.bid] = "Running" /\ r.bid \notin Stuck
      /\ Answered' = Answered \ {r.bid} /\ threads' = threads /\ graph' = graph
  BY <1>1, AnsweredLess
<1>4. /\ state'[r.bid] = "Ready"
      /\ \A b \in Build : b # r.bid => state'[b] = state[b]
  BY <1>1, <1>2, <1>3
<1>5. Stuck' = Stuck
  BY <1>3, <1>4 DEF Stuck
<1>6. \A b \in Build : QuietMove(b)
  BY <1>3, <1>4 DEF QuietMove
<1>7. OrderRespected' /\ NoKnots' /\ Closed'
  BY <1>2, <1>3, <1>5, <1>6, QuietOrder
<1>8. NoneStuck'
  BY <1>2, <1>5 DEF OInv, NoneStuck
<1> QED
  BY <1>1, <1>7, <1>8 DEF OInv

(* The edit of a deferral, read on edges: the consumer may wait on the     *)
(* producers of the new files, and no other edge waits on anything new.    *)
LEMMA EditDeps ==
    ASSUME BInv, NEW r \in results, Receive(r),
           ordering' = WithImplicitInputs(r.bid, NewIds(r))
    PROVE  /\ ordering' \in [Build -> SUBSET File]
           /\ NewIds(r) \in SUBSET File
           /\ Producers(NewIds(r)) \subseteq Build
           /\ \A b \in Build : b # r.bid => ordering'[b] = ordering[b]
           /\ \A b \in Build : b # r.bid => OrderDeps(ordering')[b] = OrderDeps(ordering)[b]
           /\ OrderDeps(ordering')[r.bid]
                \subseteq OrderDeps(ordering)[r.bid] \cup Producers(NewIds(r))
           /\ OrderDeps(ordering)' = OrderDeps(ordering')
<1>1. /\ ordering' \in [Build -> SUBSET File]
      /\ \A b \in Build : b # r.bid => ordering'[b] = ordering[b]
      /\ ordering'[r.bid] \subseteq ordering[r.bid] \cup NewIds(r)
  BY EditTypes
<1>2. r.bid \in Build /\ NewIds(r) \in SUBSET File /\ graph \in Graph /\ graph' = graph
  BY Taking DEF BInv, TypeOK, NewIds, Receive
<1>3. Producers(NewIds(r)) \subseteq Build
  BY <1>1, <1>2, DepsAreEdges
<1>4. \A b \in Build : /\ OrderDeps(ordering')[b] = Producers(ordering'[b])
                      /\ OrderDeps(ordering)[b] = Producers(ordering[b])
  BY DEF OrderDeps
<1>5. Producers(ordering'[r.bid]) \subseteq Producers(ordering[r.bid]) \cup Producers(NewIds(r))
  BY <1>1 DEF Producers
<1>6. OrderDeps(ordering)' = OrderDeps(ordering')
  BY <1>2 DEF OrderDeps, Producers
<1> QED
  BY <1>1, <1>2, <1>3, <1>4, <1>5, <1>6

(* A deferral that passed the cycle guard closes no cycle, and leaves the  *)
(* edge waiting exactly when a new producer is not built.                  *)
LEMMA OrderRequeued ==
    ASSUME OInv, NEW r \in results, DeferralRequeued(r)
    PROVE  OInv'
<1> DEFINE C    == NewlyWanted(ordering', NewIds(r))
           P    == Producers(NewIds(r))
           free == RecheckReady(ordering', r.bid)
           E    == {r.bid}
<1>1. BInv /\ BInv' /\ Receive(r) /\ graph \in Graph /\ ordering \in [Build -> SUBSET File]
  BY BookkeepingRequeued DEF OInv, BInv, TypeOK, DeferralRequeued
<1>2. /\ ordering' = WithImplicitInputs(r.bid, NewIds(r))
      /\ r.bid \notin Reach(P, OrderDeps(ordering))
      /\ Acyclic(C, OrderDeps(ordering'))
      /\ state' = [MarkedState(ordering', C) EXCEPT ![r.bid] = IF free THEN "Ready" ELSE "Want"]
      /\ failed' = failed /\ phase' = phase
  BY DEF DeferralRequeued, ProducerCycle
<1>3. /\ r.bid \in Build /\ state[r.bid] = "Running" /\ r.bid \notin Stuck
      /\ r.bid \in Wanted
      /\ Answered' = Answered \ {r.bid} /\ threads' = threads /\ graph' = graph
  BY <1>1, AnsweredLess
<1>4. /\ ordering' \in [Build -> SUBSET File]
      /\ NewIds(r) \in SUBSET File /\ P \subseteq Build
      /\ \A b \in Build : b # r.bid => ordering'[b] = ordering[b]
      /\ \A b \in Build : b # r.bid => OrderDeps(ordering')[b] = OrderDeps(ordering)[b]
      /\ OrderDeps(ordering')[r.bid] \subseteq OrderDeps(ordering)[r.bid] \cup P
      /\ OrderDeps(ordering)' = OrderDeps(ordering')
  BY <1>1, <1>2, EditDeps
<1>5. C \in SUBSET Unneeded
  BY NewlyWantedUnneeded
<1>6. /\ P \cap Unneeded \subseteq C
      /\ \A b \in C : OrderDeps(ordering')[b] \cap Unneeded \subseteq C
  BY <1>1, <1>4, WalkClosed
<1> HIDE DEF C, P, free
<1>7. /\ \A b \in Build \ (C \cup E) : state'[b] = state[b]
      /\ \A b \in C : state'[b] = IF RecheckReady(ordering', b) THEN "Ready" ELSE "Want"
      /\ state'[r.bid] = IF free THEN "Ready" ELSE "Want"
  <2>1. PICK s \in SetToSeqs(MarkedReady(ordering', C)) : TRUE
    BY DEF DeferralRequeued, C
  <2>2. TypeOK /\ PendingExact /\ QueueExact
    BY <1>1 DEF BInv
  <2>3. /\ MarkedState(ordering', C) \in [Build -> BuildState]
        /\ \A b \in Build \ C : MarkedState(ordering', C)[b] = state[b]
        /\ \A b \in C : MarkedState(ordering', C)[b] =
                          IF RecheckReady(ordering', b) THEN "Ready" ELSE "Want"
    BY <1>5, <2>1, <2>2, Marking
  <2>4. r.bid \notin C /\ C \subseteq Build
    BY <1>3, <1>5 DEF Unneeded
  <2> QED
    BY <1>2, <1>3, <2>3, <2>4
<1>8. Stuck' = Stuck
  BY <1>3, <1>5, <1>7 DEF Stuck, Unneeded
<1>9. E \in SUBSET Wanted /\ WalkMove(C, E)
  BY <1>2, <1>3, <1>4, <1>6, <1>7 DEF WalkMove
<1> HIDE DEF E
<1>10. /\ \A b \in Build : state'[b] = "Done" <=> state[b] = "Done"
       /\ OrderedBut(E)
       /\ Wanted' = Wanted \cup C
       /\ Acyclic((Wanted \cup C) \ Stuck, OrderDeps(ordering))
       /\ \A b \in (Wanted \cup C) \ (Stuck \cup E) :
             OrderDeps(ordering')[b] \subseteq Wanted \cup C
  BY <1>3, <1>4, <1>5, <1>8, <1>9, WalkOrder
<1>11. OrderRespected'
  <2>1. \A b \in Build : RecheckReady(ordering, b)' <=> RecheckReady(ordering', b)
    BY <1>1, <1>3, <1>4, <1>10, RecheckSame
  <2> QED
    BY <1>3, <1>7, <1>10, <2>1 DEF OrderRespected, OrderedBut, E, free
<1>12. NoKnots'
  <2> DEFINE S    == (Wanted \cup C) \ Stuck
             R    == Reach(P, OrderDeps(ordering))
             c    == r.bid
             dep  == OrderDeps(ordering)
             dep2 == OrderDeps(ordering')
  <2>1. P \subseteq R /\ (\A b \in R : dep[b] \subseteq R) /\ c \notin R
    BY <1>1, <1>2, <1>4, DepsAreEdges, ReachHolds
  <2>2. \A b \in S : b # c => dep2[b] = dep[b]
    BY <1>4, <1>5 DEF Unneeded, Wanted
  <2>3. Acyclic(S, dep) /\ dep2[c] \subseteq dep[c] \cup P
    BY <1>4, <1>10
  <2> HIDE DEF S, R, c, dep, dep2
  <2>4. Acyclic(S, dep2)
    BY <2>1, <2>2, <2>3, AcyclicEdit
  <2> QED
    BY <1>4, <1>8, <1>10, <2>4 DEF NoKnots, S, dep2
<1>13. Closed'
  <2>1. OrderDeps(ordering)[r.bid] \subseteq Wanted
    BY <1>3 DEF OInv, Closed
  <2>2. P \subseteq Wanted \cup C
    BY <1>4, <1>6 DEF Wanted
  <2>3. OrderDeps(ordering')[r.bid] \subseteq Wanted \cup C
    BY <1>4, <2>1, <2>2
  <2> QED
    BY <1>4, <1>8, <1>10, <2>3 DEF Closed, E
<1>14. NoneStuck'
  BY <1>2, <1>8 DEF OInv, NoneStuck
<1> QED
  BY <1>1, <1>11, <1>12, <1>13, <1>14 DEF OInv

(* A walk broken off leaves a closed set marked and its edge stuck. *)
LEMMA OrderWantFails ==
    ASSUME OInv, NEW r \in results, DeferralWantFails(r)
    PROVE  OInv'
<1> DEFINE E == {r.bid}
<1>1. /\ BInv /\ BInv' /\ Receive(r) /\ graph \in Graph
      /\ ordering \in [Build -> SUBSET File] /\ failed \in Nat
  BY BookkeepingWantFails DEF OInv, BInv, TypeOK, DeferralWantFails
<1>2. ordering' = WithImplicitInputs(r.bid, NewIds(r)) /\ failed' = failed + 1
  BY DEF DeferralWantFails, DeferralFails
<1>3. PICK C \in PartlyWalked(ordering', NewlyWanted(ordering', NewIds(r))) :
        /\ state' = MarkedState(ordering', C)
        /\ \E s \in SetToSeqs(MarkedReady(ordering', C)) : ready' = ready \o s
        /\ pending' = PendingWith(C)
  BY DEF DeferralWantFails
<1>4. /\ C \in SUBSET Unneeded
      /\ Acyclic(C, OrderDeps(ordering'))
      /\ \A b \in C : OrderDeps(ordering')[b] \cap Unneeded \subseteq C
  BY NewlyWantedUnneeded DEF PartlyWalked
<1>5. /\ r.bid \in Build /\ state[r.bid] = "Running" /\ r.bid \in Wanted
      /\ Answered' = Answered \ {r.bid} /\ threads' = threads
      /\ r.bid \notin threads /\ graph' = graph
  BY <1>1, AnsweredLess
<1>6. /\ ordering' \in [Build -> SUBSET File]
      /\ \A b \in Build : b # r.bid => ordering'[b] = ordering[b]
      /\ \A b \in Build : b # r.bid => OrderDeps(ordering')[b] = OrderDeps(ordering)[b]
      /\ OrderDeps(ordering)' = OrderDeps(ordering')
  BY <1>1, <1>2, EditDeps
<1>7. /\ \A b \in Build \ C : state'[b] = state[b]
      /\ \A b \in C : state'[b] = IF RecheckReady(ordering', b) THEN "Ready" ELSE "Want"
  BY <1>1, <1>3, <1>4, WalkTaken
<1>8. r.bid \notin C /\ C \subseteq Build /\ state'[r.bid] = "Running"
  BY <1>4, <1>5, <1>7 DEF Unneeded
<1>9. Stuck \subseteq Stuck' /\ r.bid \in Stuck'
  BY <1>4, <1>5, <1>7, <1>8 DEF Stuck, Unneeded
<1>10. E \in SUBSET Wanted /\ WalkMove(C, E)
  BY <1>4, <1>5, <1>6, <1>7, <1>8 DEF WalkMove
<1> HIDE DEF E
<1>11. /\ \A b \in Build : state'[b] = "Done" <=> state[b] = "Done"
       /\ OrderedBut(E)
       /\ Wanted' = Wanted \cup C
       /\ Acyclic((Wanted \cup C) \ Stuck, OrderDeps(ordering))
       /\ \A b \in (Wanted \cup C) \ (Stuck \cup E) :
             OrderDeps(ordering')[b] \subseteq Wanted \cup C
  BY <1>4, <1>5, <1>6, <1>9, <1>10, WalkOrder
<1>12. OrderRespected'
  <2>1. \A b \in Build : RecheckReady(ordering, b)' <=> RecheckReady(ordering', b)
    BY <1>1, <1>5, <1>6, <1>11, RecheckSame
  <2> QED
    BY <1>8, <1>9, <1>11, <2>1 DEF OrderRespected, OrderedBut, E
<1>13. Wanted' \ Stuck' \in SUBSET ((Wanted \cup C) \ Stuck)
  BY <1>9, <1>11
<1>14. \A b \in Wanted' \ Stuck' : OrderDeps(ordering')[b] = OrderDeps(ordering)[b]
  BY <1>6, <1>8, <1>9, <1>11 DEF Wanted
<1>15. NoKnots'
  BY <1>6, <1>11, <1>13, <1>14, AcyclicPart DEF NoKnots
<1>16. Closed'
  BY <1>6, <1>9, <1>11, <1>13 DEF Closed, E
<1>17. NoneStuck'
  BY <1>1, <1>2 DEF NoneStuck
<1> QED
  BY <1>1, <1>12, <1>15, <1>16, <1>17 DEF OInv

(* Every step keeps the order. *)
LEMMA OrderStep == OInv /\ [Next]_vars => OInv'
<1> SUFFICES ASSUME OInv, [Next]_vars PROVE OInv'
  OBVIOUS
<1>1. CASE WantTarget
  BY <1>1, OrderWant
<1>2. CASE WantTargetRefused \/ BeginRun \/ EndRun \/ UNCHANGED vars
  BY <1>2, StillSteps, OrderStill DEF OInv
<1>3. CASE StartEdge \/ StartFails
  BY <1>3, OrderStart
<1>4. ASSUME NEW b \in Build, Task(b) PROVE OInv'
  BY <1>4, OrderTask
<1>5. ASSUME NEW r \in results, Handle(r) PROVE OInv'
  BY <1>5, OrderDone, OrderGivenUp, OrderAddsNothing, OrderRequeued, OrderWantFails
     DEF Handle
<1> QED
  BY <1>1, <1>2, <1>3, <1>4, <1>5 DEF Next, Main, Stopped

(* The order and its strengthening hold in every reachable state. *)
LEMMA OrderAlways == Spec => []OInv
<1>1. Init => OInv
  BY InitFresh, OrderFresh
<1>2. OInv /\ [Next]_vars => OInv'
  BY OrderStep
<1> QED
  BY <1>1, <1>2, PTL DEF Spec

(* No edge is queued, started or finished before every producer of its     *)
(* inputs, the inputs deferrals added while the run was under way          *)
(* included, and no edge is left waiting on finished producers only.       *)
THEOREM BuiltInOrder == Spec => []OrderRespected
<1>1. OInv => OrderRespected
  BY DEF OInv
<1> QED
  BY <1>1, OrderAlways, PTL

-----------------------------------------------------------------------------
(* Stalls.                                                                 *)

(* With nothing ready and nothing out, an edge still owed reaches a stuck  *)
(* one: else the owed edges it reaches would wait on each other in a ring. *)
LEMMA StallHasCause ==
    ASSUME OInv, ready = <<>>, running = 0, NEW b0 \in Owed
    PROVE  Reach({b0}, OrderDeps(ordering)) \cap Stuck # {}
<1> DEFINE dep == OrderDeps(ordering)
           R   == Reach({b0}, dep)
           T   == R \cap Owed
<1> SUFFICES ASSUME R \cap Stuck = {} PROVE FALSE
  OBVIOUS
<1>1. /\ graph \in Graph /\ ordering \in [Build -> SUBSET File]
      /\ state \in [Build -> BuildState]
      /\ threads \subseteq Build /\ IsFiniteSet(results)
  BY DEF OInv, BInv, TypeOK, OutExact
<1>2. threads = {} /\ results = {}
  <2>1. IsFiniteSet(threads)
    BY <1>1, BuildAssumption, FS_Subset
  <2>2. /\ Cardinality(threads) \in Nat /\ Cardinality(results) \in Nat
        /\ Cardinality(threads) + Cardinality(results) = 0
    BY <1>1, <2>1, FS_CardinalityType DEF OInv, BInv, OutExact
  <2>3. Cardinality(threads) = 0 /\ Cardinality(results) = 0
    BY <2>2
  <2> QED
    BY <1>1, <2>1, <2>3, FS_EmptySet
<1>3. \A b \in Build : state[b] # "Ready"
  BY DEF OInv, BInv, QueueExact, Lists, ReadySet, ReadyIn
<1>4. /\ \A b \in Build : dep[b] = Producers(ordering[b])
      /\ \A b \in Build : dep[b] \subseteq Build
  BY <1>1, DepsAreEdges
<1>5. b0 \in Build
  BY DEF Owed
<1> HIDE DEF dep
<1>6. /\ {b0} \subseteq R /\ R \subseteq Build
      /\ \A b \in R : dep[b] \subseteq R
  BY <1>4, <1>5, ReachHolds
<1> HIDE DEF R
<1>7. ASSUME NEW b \in T PROVE state[b] = "Want" /\ b \in Wanted \ Stuck
  <2>1. b \in Build /\ state[b] \in {"Want", "Ready", "Running"} /\ b \notin Stuck
    BY <1>1, <1>6 DEF Owed, BuildState
  <2>2. state[b] = "Running" => b \in Stuck
    BY <1>2, <2>1 DEF Stuck, Answered
  <2> QED
    BY <1>3, <2>1, <2>2 DEF Wanted, Unneeded
<1>8. ASSUME NEW b \in T PROVE dep[b] \cap T # {}
  <2>1. b \in Build /\ b \in R
    BY <1>6 DEF Owed
  <2>2. ~RecheckReady(ordering, b)
    BY <1>7, <2>1 DEF OInv, OrderRespected
  <2>3. PICK p \in Producers(ordering[b]) : state[p] # "Done"
    BY <2>2 DEF RecheckReady
  <2>4. p \in dep[b]
    BY <1>4, <2>1, <2>3
  <2>5. p \in Wanted
    BY <1>7, <2>4 DEF OInv, Closed, dep
  <2>6. p \in R /\ p \in Owed
    BY <1>6, <2>1, <2>3, <2>4, <2>5 DEF Owed, Wanted, Unneeded
  <2> QED
    BY <2>4, <2>6
<1>9. T \in Knots(Wanted \ Stuck, dep)
  BY <1>6, <1>7, <1>8 DEF Knots
<1> QED
  BY <1>9 DEF OInv, NoKnots, Acyclic, dep

(* Nothing is stuck while no failure is on record. *)
LEMMA StallFromInv == OInv => NoSilentStall
<1> SUFFICES ASSUME OInv, phase = "run", ready = <<>>, running = 0, pending > 0, failed = 0
             PROVE  FALSE
  BY DEF NoSilentStall, OInv, BInv, TypeOK
<1>1. Owed # {}
  BY FS_EmptySet DEF OInv, BInv, PendingExact
<1>2. Stuck = {}
  BY DEF OInv, NoneStuck
<1> QED
  BY <1>1, <1>2, StallHasCause

(* The break of the run loop is reached with a failure on record or with   *)
(* nothing pending: no run starves in silence, whatever the graph, the     *)
(* deferrals and the order results come in.                                *)
THEOREM NeverStallsInSilence == Spec => []NoSilentStall
  BY StallFromInv, OrderAlways, PTL

(* A run that ends with failures has built everything that does not depend *)
(* on an edge given up: the invariant is its own induction hypothesis,     *)
(* since only EndRun sets the verdict.                                     *)
THEOREM KeepGoingBuildsTheRest == Spec => []KeepGoingDrains
<1>1. Init => KeepGoingDrains
  BY DEF Init, Fresh, KeepGoingDrains
<1>2. OInv /\ KeepGoingDrains /\ [Next]_vars => KeepGoingDrains'
  <2> SUFFICES ASSUME OInv, KeepGoingDrains, [Next]_vars, phase' = "failed"
               PROVE  KeepGoingDrains'
    BY DEF KeepGoingDrains
  <2>1. CASE EndRun
    <3>1. /\ graph' = graph /\ ordering' = ordering /\ state' = state
          /\ threads' = threads /\ results' = results
          /\ pending = 0 \/ (ready = <<>> /\ running = 0)
      BY <2>1 DEF EndRun
    <3>2. Owed' = Owed /\ Stuck' = Stuck /\ OrderDeps(ordering)' = OrderDeps(ordering)
      BY <3>1 DEF Owed, Stuck, Answered, OrderDeps, Producers
    <3>3. CASE pending = 0
      <4>1. IsFiniteSet(Owed)
        BY BuildAssumption, FS_Subset DEF Owed
      <4>2. Owed = {}
        BY <3>3, <4>1, FS_EmptySet DEF OInv, BInv, PendingExact
      <4> QED
        BY <3>2, <4>2 DEF KeepGoingDrains
    <3>4. CASE ready = <<>> /\ running = 0
      <4>1. \A b \in Owed : Reach({b}, OrderDeps(ordering)) \cap Stuck # {}
        BY <3>4, StallHasCause
      <4>2. \A b : Reach({b}, OrderDeps(ordering))' = Reach({b}, OrderDeps(ordering))
        BY <3>2 DEF Reach
      <4> QED
        BY <3>2, <4>1, <4>2 DEF KeepGoingDrains
    <3> QED
      BY <3>1, <3>3, <3>4
  <2>2. CASE UNCHANGED vars
    <3>1. /\ phase = "failed" /\ graph' = graph /\ ordering' = ordering /\ state' = state
          /\ threads' = threads /\ results' = results
      BY <2>2 DEF vars
    <3>2. Owed' = Owed /\ Stuck' = Stuck /\ OrderDeps(ordering)' = OrderDeps(ordering)
      BY <3>1 DEF Owed, Stuck, Answered, OrderDeps, Producers
    <3>3. \A b : Reach({b}, OrderDeps(ordering))' = Reach({b}, OrderDeps(ordering))
      BY <3>2 DEF Reach
    <3> QED
      BY <3>1, <3>2, <3>3 DEF KeepGoingDrains
  <2>3. ~EndRun /\ ~UNCHANGED vars => FALSE
    BY DEF Next, Main, Stopped, WantTarget, WantTargetRefused, BeginRun, StartEdge,
           StartFails, Handle, Receive, HandleDone, HandleFailure, DeferralAddsNothing,
           DeferralRefused, DeferralRequeued, DeferralWantFails, DeferralFails,
           Task, TaskEmits, TaskFails, TaskDefers
  <2> QED
    BY <2>1, <2>2, <2>3
<1> QED
  BY <1>1, <1>2, OrderAlways, PTL DEF Spec

-----------------------------------------------------------------------------
(* Derivations.                                                            *)

AnsweredOk == {r.bid : r \in {q \in results : q.kind = "ok"}}

(* What is in the store: the edges that finished, or whose result is on    *)
(* its way, phonies apart.                                                 *)
EmittedExact == emitted = (Done \cup AnsweredOk) \ graph.phony

(* A phony has no thread and cannot fail. *)
PhonyAnswers ==
    /\ threads \cap graph.phony = {}
    /\ \A r \in results : r.bid \in graph.phony => r.kind = "ok"

EInv == EmittedExact /\ PhonyAnswers

(* Nothing is written at first. *)
LEMMA EmittedInit == Init => EInv
  BY DEF Init, Fresh, EInv, EmittedExact, PhonyAnswers, Done, AnsweredOk

(* A step of no thread and no result, that finishes nothing. *)
LEMMA EmittedStill ==
    ASSUME EInv, graph' = graph, emitted' = emitted, threads' = threads, results' = results,
           \A b \in Build : state'[b] = "Done" <=> state[b] = "Done"
    PROVE  EInv'
<1>1. Done' = Done /\ AnsweredOk' = AnsweredOk
  BY DEF Done, AnsweredOk
<1> QED
  BY <1>1 DEF EInv, EmittedExact, PhonyAnswers

(* A phony is answered at once and has no derivation. *)
LEMMA EmittedStart == BInv /\ EInv /\ StartEdge => EInv'
<1> SUFFICES ASSUME BInv, EInv, StartEdge PROVE EInv'
  OBVIOUS
<1> DEFINE h == Head(ready)
<1>1. /\ ready # <<>> /\ state' = [state EXCEPT ![h] = "Running"]
      /\ ready' = Tail(ready) /\ pending' = pending
      /\ graph' = graph /\ emitted' = emitted
  BY DEF StartEdge
<1>2. h \in Build /\ state[h] = "Ready" /\ state \in [Build -> BuildState]
  BY <1>1, Starting DEF BInv, TypeOK
<1>3. Done' = Done
  BY <1>1, <1>2 DEF Done
<1>4. CASE h \in graph.phony
  <2>1. threads' = threads /\ results' = results \cup {Answer(h, "ok", {})}
    BY <1>4 DEF StartEdge
  <2>2. Answer(h, "ok", {}).kind = "ok" /\ Answer(h, "ok", {}).bid = h
    BY DEF Answer
  <2>3. AnsweredOk' = AnsweredOk \cup {h}
    BY <2>1, <2>2 DEF AnsweredOk
  <2> QED
    BY <1>1, <1>3, <1>4, <2>1, <2>2, <2>3 DEF EInv, EmittedExact, PhonyAnswers
<1>5. CASE h \notin graph.phony
  <2>1. threads' = threads \cup {h} /\ results' = results
    BY <1>5 DEF StartEdge
  <2>2. AnsweredOk' = AnsweredOk
    BY <2>1 DEF AnsweredOk
  <2> QED
    BY <1>1, <1>3, <1>5, <2>1, <2>2 DEF EInv, EmittedExact, PhonyAnswers
<1> QED
  BY <1>4, <1>5

(* A thread writes its derivation and answers ok, or does neither. *)
LEMMA EmittedTask ==
    ASSUME BInv, EInv, NEW b \in Build, Task(b)
    PROVE  EInv'
<1>1. /\ b \in threads /\ threads' = threads \ {b} /\ graph' = graph /\ state' = state
      /\ b \notin graph.phony
  BY DEF Task, TaskEmits, TaskFails, TaskDefers, EInv, PhonyAnswers
<1>2. Done' = Done
  BY <1>1 DEF Done
<1>3. CASE TaskEmits(b)
  <2>1. results' = results \cup {Answer(b, "ok", {})} /\ emitted' = emitted \cup {b}
    BY <1>3 DEF TaskEmits
  <2>2. Answer(b, "ok", {}).kind = "ok" /\ Answer(b, "ok", {}).bid = b
    BY DEF Answer
  <2>3. AnsweredOk' = AnsweredOk \cup {b}
    BY <2>1, <2>2 DEF AnsweredOk
  <2> QED
    BY <1>1, <1>2, <2>1, <2>2, <2>3 DEF EInv, EmittedExact, PhonyAnswers
<1>4. ASSUME NEW a, a.bid = b, a.kind # "ok", results' = results \cup {a}, emitted' = emitted
      PROVE  EInv'
  <2>1. AnsweredOk' = AnsweredOk
    BY <1>4 DEF AnsweredOk
  <2> QED
    BY <1>1, <1>2, <1>4, <2>1 DEF EInv, EmittedExact, PhonyAnswers
<1>5. CASE TaskFails(b)
  <2>1. /\ results' = results \cup {Answer(b, "failed", {})} /\ emitted' = emitted
        /\ Answer(b, "failed", {}).bid = b /\ Answer(b, "failed", {}).kind # "ok"
    BY <1>5 DEF TaskFails, Answer
  <2> QED
    BY <1>4, <2>1
<1>6. ASSUME NEW F \in graph.miss[b], TaskDefers(b, F) PROVE EInv'
  <2>1. /\ results' = results \cup {Answer(b, "deferred", F)} /\ emitted' = emitted
        /\ Answer(b, "deferred", F).bid = b /\ Answer(b, "deferred", F).kind # "ok"
    BY <1>6 DEF TaskDefers, WrittenOnDeferral, Answer
  <2> QED
    BY <1>4, <2>1
<1> QED
  BY <1>3, <1>5, <1>6 DEF Task

(* An ok answer becomes a finished edge, and no other answer does. *)
LEMMA EmittedHandle ==
    ASSUME BInv, EInv, NEW r \in results, Handle(r)
    PROVE  EInv'
<1>1. Receive(r) /\ TypeOK /\ OutExact /\ QueueExact /\ PendingExact
  BY DEF BInv, Handle, HandleDone, HandleFailure, DeferralAddsNothing, DeferralRefused,
         DeferralRequeued, DeferralWantFails
<1>2. /\ graph' = graph /\ emitted' = emitted /\ threads' = threads
      /\ results' = results \ {r}
  BY <1>1 DEF Receive
<1>3. /\ r.bid \in Build /\ state[r.bid] = "Running" /\ state \in [Build -> BuildState]
      /\ \A q \in results' : q.bid # r.bid
  BY <1>1, Taking DEF TypeOK
<1>4. PhonyAnswers'
  BY <1>2 DEF EInv, PhonyAnswers
<1>5. ASSUME r.kind # "ok", \A b \in Build : state'[b] = "Done" <=> state[b] = "Done"
      PROVE  EInv'
  <2>1. AnsweredOk' = AnsweredOk /\ Done' = Done
    BY <1>2, <1>5 DEF AnsweredOk, Done
  <2> QED
    BY <1>2, <1>4, <2>1 DEF EInv, EmittedExact
<1>6. CASE HandleDone(r)
  <2>1. /\ r.kind = "ok"
        /\ state' = [b \in Build |-> CASE b \in NowReady(r.bid) -> "Ready"
                                       [] b = r.bid            -> "Done"
                                       [] OTHER                -> state[b]]
        /\ \A b \in NowReady(r.bid) : state[b] = "Want"
    BY <1>6 DEF HandleDone, NowReady
  <2>2. Done' = Done \cup {r.bid}
    BY <1>3, <2>1 DEF Done
  <2>3. AnsweredOk = AnsweredOk' \cup {r.bid}
    BY <1>2, <2>1 DEF AnsweredOk
  <2> QED
    BY <1>2, <1>4, <2>2, <2>3 DEF EInv, EmittedExact
<1>7. CASE HandleFailure(r) \/ DeferralRefused(r)
  BY <1>5, <1>7 DEF HandleFailure, DeferralRefused
<1>8. CASE DeferralAddsNothing(r)
  BY <1>3, <1>5, <1>8 DEF DeferralAddsNothing
<1>9. CASE DeferralRequeued(r)
  <2> DEFINE C == NewlyWanted(ordering', NewIds(r))
  <2>1. /\ r.kind = "deferred"
        /\ state' = [MarkedState(ordering', C) EXCEPT
                         ![r.bid] = IF RecheckReady(ordering', r.bid) THEN "Ready" ELSE "Want"]
    BY <1>9 DEF DeferralRequeued
  <2>2. PICK s \in SetToSeqs(MarkedReady(ordering', C)) : TRUE
    BY <1>9 DEF DeferralRequeued
  <2>3. C \in SUBSET Unneeded
    BY NewlyWantedUnneeded
  <2> HIDE DEF C
  <2>4. /\ MarkedState(ordering', C) \in [Build -> BuildState]
        /\ \A b \in Build \ C : MarkedState(ordering', C)[b] = state[b]
        /\ \A b \in C : MarkedState(ordering', C)[b] =
                          IF RecheckReady(ordering', b) THEN "Ready" ELSE "Want"
    BY <1>1, <2>2, <2>3, Marking
  <2>5. \A b \in Build : state'[b] = "Done" <=> state[b] = "Done"
    BY <1>3, <2>1, <2>3, <2>4 DEF Unneeded
  <2> QED
    BY <1>5, <2>1, <2>5
<1>10. CASE DeferralWantFails(r)
  <2>1. PICK C \in PartlyWalked(ordering', NewlyWanted(ordering', NewIds(r))) :
          /\ state' = MarkedState(ordering', C)
          /\ \E s \in SetToSeqs(MarkedReady(ordering', C)) : ready' = ready \o s
          /\ pending' = PendingWith(C)
    BY <1>10 DEF DeferralWantFails
  <2>2. C \in SUBSET Unneeded
    BY NewlyWantedUnneeded DEF PartlyWalked
  <2>3. /\ \A b \in Build \ C : state'[b] = state[b]
        /\ \A b \in C : state'[b] = IF RecheckReady(ordering', b) THEN "Ready" ELSE "Want"
    BY <2>1, <2>2, WalkTaken
  <2>4. \A b \in Build : state'[b] = "Done" <=> state[b] = "Done"
    BY <2>2, <2>3 DEF Unneeded
  <2> QED
    BY <1>5, <1>10, <2>4 DEF DeferralWantFails
<1> QED
  BY <1>6, <1>7, <1>8, <1>9, <1>10 DEF Handle

(* Every step keeps the derivations exact. *)
LEMMA EmittedStep == BInv /\ EInv /\ [Next]_vars => EInv'
<1> SUFFICES ASSUME BInv, EInv, [Next]_vars PROVE EInv'
  OBVIOUS
<1>1. CASE WantTarget
  <2> DEFINE C == NewlyWanted(ordering, {Head(todo)})
  <2>1. /\ state' = MarkedState(ordering, C) /\ pending' = PendingWith(C)
        /\ \E s \in SetToSeqs(MarkedReady(ordering, C)) : ready' = ready \o s
        /\ graph' = graph /\ emitted' = emitted /\ threads' = threads /\ results' = results
    BY <1>1 DEF WantTarget
  <2>2. C \in SUBSET Unneeded
    BY NewlyWantedUnneeded
  <2> HIDE DEF C
  <2>3. /\ \A b \in Build \ C : state'[b] = state[b]
        /\ \A b \in C : state'[b] = IF RecheckReady(ordering, b) THEN "Ready" ELSE "Want"
    BY <2>1, <2>2, WalkTaken
  <2>4. \A b \in Build : state'[b] = "Done" <=> state[b] = "Done"
    BY <2>2, <2>3 DEF Unneeded
  <2> QED
    BY <2>1, <2>4, EmittedStill
<1>2. CASE WantTargetRefused \/ BeginRun \/ EndRun \/ UNCHANGED vars
  <2>1. /\ graph' = graph /\ emitted' = emitted /\ threads' = threads
        /\ results' = results /\ state' = state
    BY <1>2 DEF WantTargetRefused, BeginRun, EndRun, vars
  <2> QED
    BY <2>1, EmittedStill
<1>3. CASE StartEdge
  BY <1>3, EmittedStart
<1>4. CASE StartFails
  <2>1. /\ ready # <<>> /\ state' = [state EXCEPT ![Head(ready)] = "Running"]
        /\ ready' = Tail(ready) /\ pending' = pending
        /\ graph' = graph /\ emitted' = emitted /\ threads' = threads /\ results' = results
    BY <1>4 DEF StartFails
  <2>2. /\ Head(ready) \in Build /\ state[Head(ready)] = "Ready"
        /\ state \in [Build -> BuildState]
    BY <2>1, Starting DEF BInv, TypeOK
  <2>3. \A b \in Build : state'[b] = "Done" <=> state[b] = "Done"
    BY <2>1, <2>2
  <2> QED
    BY <2>1, <2>3, EmittedStill
<1>5. ASSUME NEW b \in Build, Task(b) PROVE EInv'
  BY <1>5, EmittedTask
<1>6. ASSUME NEW r \in results, Handle(r) PROVE EInv'
  BY <1>6, EmittedHandle
<1> QED
  BY <1>1, <1>2, <1>3, <1>4, <1>5, <1>6 DEF Next, Main, Stopped

(* The derivations are exact in every reachable state. *)
LEMMA EmittedAlways == Spec => []EInv
<1>1. BInv /\ EInv /\ [Next]_vars => EInv'
  BY EmittedStep
<1> QED
  BY <1>1, EmittedInit, BookkeepingAlways, PTL DEF Spec

(* No edge's derivation is written twice, and none is written for an edge  *)
(* whose answer is a failure or a deferral: what a requeued edge writes is *)
(* the first thing written for it.                                         *)
THEOREM WrittenAtMostOnce == Spec => []WrittenOnce
<1>1. BInv /\ EInv => WrittenOnce
  <2> SUFFICES ASSUME BInv, EInv PROVE WrittenOnce
    OBVIOUS
  <2>1. \A b \in threads : b \notin Done /\ b \notin AnsweredOk
    BY DEF BInv, OutExact, Done, AnsweredOk
  <2>2. \A r \in results : r.kind # "ok" => r.bid \notin Done /\ r.bid \notin AnsweredOk
    BY DEF BInv, OutExact, Done, AnsweredOk
  <2> QED
    BY <2>1, <2>2 DEF WrittenOnce, EInv, EmittedExact
<1> QED
  BY <1>1, BookkeepingAlways, EmittedAlways, PTL

-----------------------------------------------------------------------------
(* Deferrals.                                                              *)

(* Nothing the scheduler does edits the graph itself. *)
LEMMA GraphFixed == [Next]_vars => graph' = graph
  BY DEF vars, Next, Stopped, Main, WantTarget, WantTargetRefused, BeginRun, StartEdge,
         StartFails, Handle, Receive, HandleDone, HandleFailure, DeferralAddsNothing,
         DeferralRefused, DeferralRequeued, DeferralWantFails, EndRun, Task, TaskEmits,
         TaskFails, TaskDefers

(* What a result names, the edge may miss. *)
NamesMissed == \A r \in results : r.fids \in {{}} \cup graph.miss[r.bid]

LEMMA NamesStep == NamesMissed /\ [Next]_vars => NamesMissed'
<1> SUFFICES ASSUME NamesMissed, [Next]_vars PROVE NamesMissed'
  OBVIOUS
<1>1. graph' = graph
  BY GraphFixed
<1>2. \A r \in results' \ results : r.fids \in {{}} \cup graph.miss[r.bid]
  <2>1. CASE \E b \in Build : Task(b)
    BY <2>1 DEF Task, TaskEmits, TaskFails, TaskDefers, Answer
  <2>2. CASE StartEdge
    BY <2>2 DEF StartEdge, Answer
  <2>3. CASE ~StartEdge /\ ~\E b \in Build : Task(b)
    BY <2>3 DEF vars, Next, Stopped, Main, WantTarget, WantTargetRefused, BeginRun,
           StartFails, Handle, Receive, HandleDone, HandleFailure, DeferralAddsNothing,
           DeferralRefused, DeferralRequeued, DeferralWantFails, EndRun
  <2> QED
    BY <2>1, <2>2, <2>3
<1> QED
  BY <1>1, <1>2 DEF NamesMissed

(* An edge that answered "deferred" and runs again is ordered after every  *)
(* file it named, in a graph where no edge misses a file it has as a       *)
(* validation input.                                                       *)
THEOREM DeferredIsOrdered == Spec /\ MissesApart(graph) => DeferralOrders
<1> DEFINE Inv     == BInv /\ NamesMissed /\ MissesApart(graph)
           Ordered == \A r \in results \ results' :
                        r.kind = "deferred" /\ state'[r.bid] \in {"Want", "Ready"}
                           => r.fids \subseteq ordering'[r.bid]
<1>1. Init /\ MissesApart(graph) => Inv
  BY BookkeepingInit DEF Init, Fresh, NamesMissed
<1>2. Inv /\ [Next]_vars => Inv'
  BY GraphFixed, BookkeepingStep, NamesStep
<1>3. Inv /\ [Next]_vars => [Ordered]_vars
  <2> SUFFICES ASSUME Inv, Next,
                      NEW r \in results \ results', r.kind = "deferred",
                      state'[r.bid] \in {"Want", "Ready"}
               PROVE  r.fids \subseteq ordering'[r.bid]
    OBVIOUS
  <2>1. Receive(r) /\ Handle(r)
    BY DEF Next, Stopped, vars, Main, WantTarget, WantTargetRefused, BeginRun, StartEdge,
           StartFails, Handle, Receive, HandleDone, HandleFailure, DeferralAddsNothing,
           DeferralRefused, DeferralRequeued, DeferralWantFails, EndRun, Task, TaskEmits,
           TaskFails, TaskDefers
  <2>2. /\ r.bid \in Build /\ state[r.bid] = "Running" /\ BInv
        /\ ordering \in [Build -> SUBSET File]
    BY <2>1, Taking DEF BInv, TypeOK
  <2>3. CASE DeferralAddsNothing(r)
    BY <2>3 DEF DeferralAddsNothing, NewIds
  <2>4. CASE DeferralRequeued(r)
    <3>1. ordering' = WithImplicitInputs(r.bid, NewIds(r))
      BY <2>4 DEF DeferralRequeued
    <3>2. r.fids \cap graph.validation[r.bid] = {}
      BY <2>2 DEF NamesMissed, MissesApart
    <3>3. ordering'[r.bid] = ordering[r.bid] \cup (NewIds(r) \ graph.validation[r.bid])
      BY <2>2, <3>1 DEF WithImplicitInputs
    <3> QED
      BY <3>2, <3>3 DEF NewIds
  <2>5. CASE DeferralRefused(r)
    BY <2>2, <2>5 DEF DeferralRefused
  <2>6. CASE DeferralWantFails(r)
    <3>1. PICK C \in PartlyWalked(ordering', NewlyWanted(ordering', NewIds(r))) :
            /\ state' = MarkedState(ordering', C)
            /\ \E s \in SetToSeqs(MarkedReady(ordering', C)) : ready' = ready \o s
            /\ pending' = PendingWith(C)
      BY <2>6 DEF DeferralWantFails
    <3>2. C \in SUBSET Unneeded
      BY NewlyWantedUnneeded DEF PartlyWalked
    <3>3. state'[r.bid] = "Running"
      BY <2>2, <3>1, <3>2, WalkTaken
    <3> QED
      BY <3>3
  <2> QED
    BY <2>1, <2>3, <2>4, <2>5, <2>6 DEF Handle, HandleDone, HandleFailure
<1> QED
  BY <1>1, <1>2, <1>3, PTL DEF Spec, DeferralOrders

-----------------------------------------------------------------------------
(* What a step may do to the four things TopoBuild speaks of.              *)

DepsGrow ==
    /\ \A b \in Build : OrderDeps(ordering)[b] \subseteq OrderDeps(ordering)'[b]
    /\ \A b \in Done : OrderDeps(ordering)'[b] = OrderDeps(ordering)[b]

(* Every step but HandleDone. *)
Grows == DepsGrow /\ Wanted \subseteq Wanted' /\ Done' = Done

(* No edge finishes, and none that is wanted stops being so. *)
NoneFinishes(b) == /\ state'[b] = "Done" <=> state[b] = "Done"
                   /\ state'[b] = "Unneeded" => state[b] = "Unneeded"

(* Edge by edge, and as sets. *)
LEMMA NoneFinishesSets ==
    ASSUME \A b \in Build : NoneFinishes(b)
    PROVE  Wanted \subseteq Wanted' /\ Done' = Done
<1>1. ASSUME NEW b \in Build PROVE b \in Done' <=> b \in Done
  BY <1>1 DEF NoneFinishes, Done
<1>2. ASSUME NEW b \in Wanted PROVE b \in Wanted'
  BY <1>2 DEF NoneFinishes, Wanted, Unneeded
<1>3. Done \subseteq Build /\ Done' \subseteq Build
  BY DEF Done
<1> QED
  BY <1>1, <1>2, <1>3

(* The graph and the order stand as they were. *)
LEMMA GrowsStill ==
    ASSUME graph' = graph, ordering' = ordering,
           \A b \in Build : NoneFinishes(b)
    PROVE  Grows
<1>1. OrderDeps(ordering)' = OrderDeps(ordering)
  BY DEF OrderDeps, Producers
<1>2. DepsGrow
  BY <1>1 DEF DepsGrow
<1>3. Wanted \subseteq Wanted' /\ Done' = Done
  BY NoneFinishesSets
<1> QED
  BY <1>2, <1>3 DEF Grows

(* A deferral edits the inputs of one running edge. *)
LEMMA GrowsEdit ==
    ASSUME BInv, NEW r \in results, Receive(r),
           ordering' = WithImplicitInputs(r.bid, NewIds(r)),
           \A b \in Build : NoneFinishes(b)
    PROVE  Grows
<1>1. /\ \A b \in Build : b # r.bid => OrderDeps(ordering')[b] = OrderDeps(ordering)[b]
      /\ OrderDeps(ordering)' = OrderDeps(ordering')
  BY EditDeps
<1>2. r.bid \in Build /\ state[r.bid] = "Running"
  BY Taking DEF BInv
<1>3. ordering[r.bid] \subseteq ordering'[r.bid]
  BY EditTypes
<1>4. OrderDeps(ordering)[r.bid] \subseteq OrderDeps(ordering')[r.bid]
  BY <1>2, <1>3 DEF OrderDeps, Producers
<1>5. DepsGrow
  BY <1>1, <1>2, <1>4 DEF DepsGrow, Done
<1>6. Wanted \subseteq Wanted' /\ Done' = Done
  BY NoneFinishesSets
<1> QED
  BY <1>5, <1>6 DEF Grows

(* A walk takes edges out of Unneeded and finishes none. *)
LEMMA GrowsWalk ==
    ASSUME BInv, NEW ord, NEW C \in SUBSET Unneeded,
           state' = MarkedState(ord, C), pending' = PendingWith(C),
           \E s \in SetToSeqs(MarkedReady(ord, C)) : ready' = ready \o s
    PROVE  \A b \in Build : NoneFinishes(b)
<1>1. /\ \A b \in Build \ C : state'[b] = state[b]
      /\ \A b \in C : state'[b] = IF RecheckReady(ord, b) THEN "Ready" ELSE "Want"
  BY WalkTaken
<1> QED
  BY <1>1 DEF Unneeded, NoneFinishes

(* Every step but HandleDone only adds. *)
LEMMA StepGrows ==
    ASSUME BInv, Next, \A r \in results : ~HandleDone(r)
    PROVE  Grows
<1>1. CASE WantTarget
  <2> DEFINE C == NewlyWanted(ordering, {Head(todo)})
  <2>1. /\ state' = MarkedState(ordering, C) /\ pending' = PendingWith(C)
        /\ \E s \in SetToSeqs(MarkedReady(ordering, C)) : ready' = ready \o s
        /\ graph' = graph /\ ordering' = ordering
    BY <1>1 DEF WantTarget
  <2>2. C \in SUBSET Unneeded
    BY NewlyWantedUnneeded
  <2> HIDE DEF C
  <2>3. \A b \in Build : NoneFinishes(b)
    BY <2>1, <2>2, GrowsWalk
  <2> QED
    BY <2>1, <2>3, GrowsStill
<1>2. CASE WantTargetRefused \/ BeginRun \/ EndRun \/ Stopped \/ \E b \in Build : Task(b)
  <2>1. graph' = graph /\ ordering' = ordering /\ state' = state
    BY <1>2 DEF WantTargetRefused, BeginRun, EndRun, Stopped, vars, Task, TaskEmits,
                TaskFails, TaskDefers
  <2> QED
    BY <2>1, GrowsStill DEF NoneFinishes
<1>3. CASE StartEdge \/ StartFails
  <2>1. /\ ready # <<>> /\ state' = [state EXCEPT ![Head(ready)] = "Running"]
        /\ ready' = Tail(ready) /\ pending' = pending
        /\ graph' = graph /\ ordering' = ordering
    BY <1>3 DEF StartEdge, StartFails
  <2>2. /\ Head(ready) \in Build /\ state[Head(ready)] = "Ready"
        /\ state \in [Build -> BuildState]
    BY <2>1, Starting DEF BInv, TypeOK
  <2>3. \A b \in Build : NoneFinishes(b)
    BY <2>1, <2>2 DEF NoneFinishes
  <2> QED
    BY <2>1, <2>3, GrowsStill
<1>4. ASSUME NEW r \in results, Handle(r) PROVE Grows
  <2>1. Receive(r) /\ TypeOK /\ OutExact /\ QueueExact /\ PendingExact
    BY <1>4 DEF BInv, Handle, HandleDone, HandleFailure, DeferralAddsNothing, DeferralRefused,
           DeferralRequeued, DeferralWantFails
  <2>2. /\ r.bid \in Build /\ state[r.bid] = "Running" /\ state \in [Build -> BuildState]
        /\ graph' = graph
    BY <2>1, Taking DEF TypeOK, Receive
  <2>3. CASE HandleFailure(r) \/ DeferralRefused(r)
    <3>1. ordering' = ordering /\ state' = state
      BY <2>3 DEF HandleFailure, DeferralRefused
    <3> QED
      BY <2>2, <3>1, GrowsStill DEF NoneFinishes
  <2>4. CASE DeferralAddsNothing(r)
    <3>1. ordering' = ordering /\ state' = [state EXCEPT ![r.bid] = "Ready"]
      BY <2>4 DEF DeferralAddsNothing
    <3>2. \A b \in Build : NoneFinishes(b)
      BY <2>2, <3>1 DEF NoneFinishes
    <3> QED
      BY <2>2, <3>1, <3>2, GrowsStill
  <2>5. CASE DeferralRequeued(r)
    <3> DEFINE C == NewlyWanted(ordering', NewIds(r))
    <3>1. /\ ordering' = WithImplicitInputs(r.bid, NewIds(r))
          /\ state' = [MarkedState(ordering', C) EXCEPT
                           ![r.bid] = IF RecheckReady(ordering', r.bid) THEN "Ready" ELSE "Want"]
      BY <2>5 DEF DeferralRequeued
    <3>2. PICK s \in SetToSeqs(MarkedReady(ordering', C)) : TRUE
      BY <2>5 DEF DeferralRequeued
    <3>3. C \in SUBSET Unneeded
      BY NewlyWantedUnneeded
    <3> HIDE DEF C
    <3>4. /\ MarkedState(ordering', C) \in [Build -> BuildState]
          /\ \A b \in Build \ C : MarkedState(ordering', C)[b] = state[b]
          /\ \A b \in C : MarkedState(ordering', C)[b] =
                            IF RecheckReady(ordering', b) THEN "Ready" ELSE "Want"
      BY <2>1, <3>2, <3>3, Marking
    <3>5. \A b \in Build : NoneFinishes(b)
      BY <2>2, <3>1, <3>3, <3>4 DEF Unneeded, NoneFinishes
    <3> QED
      BY <2>1, <3>1, <3>5, GrowsEdit
  <2>6. CASE DeferralWantFails(r)
    <3>1. ordering' = WithImplicitInputs(r.bid, NewIds(r))
      BY <2>6 DEF DeferralWantFails
    <3>2. PICK C \in PartlyWalked(ordering', NewlyWanted(ordering', NewIds(r))) :
            /\ state' = MarkedState(ordering', C)
            /\ \E s \in SetToSeqs(MarkedReady(ordering', C)) : ready' = ready \o s
            /\ pending' = PendingWith(C)
      BY <2>6 DEF DeferralWantFails
    <3>3. C \in SUBSET Unneeded
      BY NewlyWantedUnneeded DEF PartlyWalked
    <3>4. \A b \in Build : NoneFinishes(b)
      BY <3>2, <3>3, GrowsWalk
    <3> QED
      BY <2>1, <3>1, <3>4, GrowsEdit
  <2> QED
    BY <1>4, <2>3, <2>4, <2>5, <2>6 DEF Handle
<1> QED
  BY <1>1, <1>2, <1>3, <1>4 DEF Next, Main

(* The one step that finishes an edge. *)
LEMMA DoneFinishes ==
    ASSUME OInv, NEW r \in results, HandleDone(r)
    PROVE  /\ r.bid \in Wanted \ Done
           /\ OrderDeps(ordering)[r.bid] \subseteq Done
           /\ Done' = Done \cup {r.bid}
           /\ OrderDeps(ordering)' = OrderDeps(ordering)
           /\ Wanted' = Wanted
           /\ phase = "run" /\ phase' = phase
<1>1. /\ BInv /\ Receive(r) /\ graph \in Graph /\ ordering \in [Build -> SUBSET File]
      /\ ordering' = ordering /\ phase = "run" /\ phase' = phase
      /\ state \in [Build -> BuildState]
      /\ state' = [b \in Build |-> CASE b \in NowReady(r.bid) -> "Ready"
                                     [] b = r.bid            -> "Done"
                                     [] OTHER                -> state[b]]
      /\ \A b \in NowReady(r.bid) : state[b] = "Want"
  BY DEF OInv, BInv, TypeOK, HandleDone, NowReady, Receive
<1>2. /\ r.bid \in Build /\ state[r.bid] = "Running" /\ r.bid \notin Stuck
      /\ r.bid \in Wanted /\ graph' = graph
  BY <1>1, AnsweredLess
<1>3. RecheckReady(ordering, r.bid)
  BY <1>2 DEF OInv, OrderRespected
<1>4. OrderDeps(ordering)[r.bid] \subseteq Done
  <2>1. /\ OrderDeps(ordering)[r.bid] = Producers(ordering[r.bid])
        /\ OrderDeps(ordering)[r.bid] \subseteq Build
    BY <1>1, <1>2, DepsAreEdges
  <2> QED
    BY <1>3, <2>1 DEF RecheckReady, Done
<1>5. Done' = Done \cup {r.bid} /\ r.bid \notin Done
  BY <1>1, <1>2 DEF Done
<1>6. Wanted' = Wanted
  BY <1>1, <1>2 DEF Wanted, Unneeded
<1>7. OrderDeps(ordering)' = OrderDeps(ordering)
  BY <1>1, <1>2 DEF OrderDeps, Producers
<1> QED
  BY <1>1, <1>2, <1>4, <1>5, <1>6, <1>7

(* Only an empty debt without failures is called ok. *)
LEMMA OkOwesNothing ==
    ASSUME OInv, EndRun, phase' = "ok"
    PROVE  Wanted = Done /\ results = {}
<1>1. failed = 0 /\ phase = "run" /\ (pending = 0 \/ (ready = <<>> /\ running = 0))
  BY DEF EndRun, OInv, BInv, TypeOK
<1>2. Stuck = {}
  BY <1>1 DEF OInv, NoneStuck
<1>3. Owed = {}
  <2>1. CASE pending = 0
    <3>1. IsFiniteSet(Owed)
      BY BuildAssumption, FS_Subset DEF Owed
    <3> QED
      BY <2>1, <3>1, FS_EmptySet DEF OInv, BInv, PendingExact
  <2>2. CASE ready = <<>> /\ running = 0
    BY <1>2, <2>2, StallHasCause
  <2> QED
    BY <1>1, <2>1, <2>2
<1>4. results = {}
  <2>1. results \subseteq Result
    BY DEF OInv, BInv, TypeOK
  <2>2. \A r \in results : r.bid \in Owed
    BY <2>1 DEF OInv, BInv, OutExact, Owed, Result
  <2> QED
    BY <1>3, <2>2
<1>5. Wanted = Done
  BY <1>3 DEF Owed, Wanted, Unneeded, Done
<1> QED
  BY <1>4, <1>5

-----------------------------------------------------------------------------
(* The targets, and what an ok run leaves.                                 *)

(* What the command line asked for is wanted, or still to be. *)
TargetsTaken ==
    /\ phase \in {"run", "ok", "failed"} => todo = <<>>
    /\ Producers(ToSet(graph.targets)) \subseteq Wanted \cup Producers(ToSet(todo))

OkPaid == phase = "ok" => Wanted = Done /\ results = {}

VInv == TargetsTaken /\ OkPaid

(* A target that is walked leaves its producer wanted. *)
LEMMA TargetMarked ==
    ASSUME OInv, WantTarget
    PROVE  /\ Producers({Head(todo)}) \subseteq Wanted'
           /\ ToSet(todo) \subseteq {Head(todo)} \cup ToSet(todo')
           /\ Wanted \subseteq Wanted'
<1> DEFINE C == NewlyWanted(ordering, {Head(todo)})
<1>1. /\ state' = MarkedState(ordering, C) /\ pending' = PendingWith(C)
      /\ \E s \in SetToSeqs(MarkedReady(ordering, C)) : ready' = ready \o s
      /\ todo # <<>> /\ todo' = Tail(todo) /\ todo \in Seq(File)
      /\ graph \in Graph /\ ordering \in [Build -> SUBSET File] /\ BInv
  BY DEF WantTarget, OInv, BInv, TypeOK
<1>2. C \in SUBSET Unneeded
  BY NewlyWantedUnneeded
<1>3. Head(todo) \in File
  BY <1>1
<1>4. Producers({Head(todo)}) \cap Unneeded \subseteq C
  BY <1>1, <1>3, WalkClosed
<1>5. Producers({Head(todo)}) \subseteq Build
  BY <1>1, <1>3 DEF Producers, Graph
<1> HIDE DEF C
<1>6. /\ \A b \in Build \ C : state'[b] = state[b]
      /\ \A b \in C : state'[b] = IF RecheckReady(ordering, b) THEN "Ready" ELSE "Want"
  BY <1>1, <1>2, WalkTaken
<1>7. ASSUME NEW b \in Build, b \in Wanted \/ b \in C PROVE b \in Wanted'
  BY <1>2, <1>6, <1>7 DEF Wanted, Unneeded
<1>8. ASSUME NEW f \in ToSet(todo) PROVE f \in {Head(todo)} \cup ToSet(todo')
  <2>1. PICK i \in 1 .. Len(todo) : f = todo[i]
    BY <1>1 DEF ToSet
  <2>2. CASE i = 1
    BY <1>1, <2>1, <2>2
  <2>3. CASE i > 1
    <3>1. i - 1 \in 1 .. Len(todo') /\ todo'[i - 1] = f /\ todo' \in Seq(File)
      BY <1>1, <2>1, <2>3
    <3> QED
      BY <3>1 DEF ToSet
  <2> QED
    BY <2>1, <2>2, <2>3
<1> QED
  BY <1>4, <1>5, <1>7, <1>8 DEF Wanted

(* A step never takes a target back. *)
LEMMA TakenStep == OInv /\ TargetsTaken /\ [Next]_vars => TargetsTaken'
<1> SUFFICES ASSUME OInv, TargetsTaken, [Next]_vars PROVE TargetsTaken'
  OBVIOUS
<1>1. CASE UNCHANGED vars \/ Stopped
  BY <1>1 DEF vars, Stopped, TargetsTaken, Wanted, Unneeded, Producers
<1>2. CASE WantTarget
  <2>1. phase = "want" /\ phase' = "want" /\ graph' = graph
    BY <1>2 DEF WantTarget
  <2>2. ASSUME NEW b \in Producers(ToSet(graph.targets))
        PROVE  b \in Wanted' \/ b \in Producers(ToSet(todo'))
    <3>1. b \in Wanted \/ b \in Producers(ToSet(todo))
      BY DEF TargetsTaken
    <3> QED
      BY <1>2, <3>1, TargetMarked DEF Producers
  <2> QED
    BY <2>1, <2>2 DEF TargetsTaken, Producers
<1>3. CASE Next /\ ~WantTarget /\ ~Stopped
  <2>1. todo' = todo /\ graph' = graph
    BY <1>3 DEF Next, Main, WantTargetRefused, BeginRun, StartEdge, StartFails, Handle,
           Receive, HandleDone, HandleFailure, DeferralAddsNothing, DeferralRefused,
           DeferralRequeued, DeferralWantFails, EndRun, Task, TaskEmits, TaskFails, TaskDefers
  <2>2. Wanted \subseteq Wanted'
    <3>1. CASE \E r \in results : HandleDone(r)
      BY <3>1, DoneFinishes
    <3>2. CASE \A r \in results : ~HandleDone(r)
      BY <1>3, <3>2, StepGrows DEF OInv, Grows
    <3> QED
      BY <3>1, <3>2
  <2>3. phase' \in {"run", "ok", "failed"} => todo = <<>>
    BY <1>3 DEF TargetsTaken, Next, Main, WantTargetRefused, BeginRun, StartEdge,
           StartFails, Handle, Receive, HandleDone, HandleFailure, DeferralFails,
           DeferralAddsNothing, DeferralRefused, DeferralRequeued, DeferralWantFails,
           EndRun, Task, TaskEmits, TaskFails, TaskDefers
  <2> QED
    BY <2>1, <2>2, <2>3 DEF TargetsTaken, Producers
<1> QED
  BY <1>1, <1>2, <1>3

(* Only EndRun says ok, and nothing moves after it. *)
LEMMA PaidStep == OInv /\ OkPaid /\ [Next]_vars => OkPaid'
<1> SUFFICES ASSUME OInv, OkPaid, [Next]_vars PROVE OkPaid'
  OBVIOUS
<1>1. CASE UNCHANGED vars \/ Stopped
  BY <1>1 DEF vars, Stopped, OkPaid, Wanted, Unneeded, Done
<1>2. CASE EndRun
  <2>1. state' = state /\ results' = results
    BY <1>2 DEF EndRun
  <2>2. Wanted' = Wanted /\ Done' = Done
    BY <2>1 DEF Wanted, Unneeded, Done
  <2>3. phase' = "ok" => Wanted = Done /\ results = {}
    BY <1>2, OkOwesNothing
  <2> QED
    BY <2>1, <2>2, <2>3 DEF OkPaid
<1>3. CASE Next /\ ~EndRun /\ ~Stopped
  <2>1. phase' # "ok"
    BY <1>3 DEF Next, Main, WantTarget, WantTargetRefused, BeginRun, StartEdge,
           StartFails, Handle, Receive, HandleDone, HandleFailure, DeferralFails,
           DeferralAddsNothing, DeferralRefused, DeferralRequeued, DeferralWantFails,
           Task, TaskEmits, TaskFails, TaskDefers
  <2> QED
    BY <2>1 DEF OkPaid
<1> QED
  BY <1>1, <1>2, <1>3

(* Both hold in every reachable state. *)
LEMMA VerdictAlways == Spec => []VInv
<1>1. Init => VInv
  BY DEF Init, Fresh, VInv, TargetsTaken, OkPaid
<1>2. OInv /\ VInv /\ [Next]_vars => VInv'
  BY TakenStep, PaidStep DEF VInv
<1> QED
  BY <1>1, <1>2, OrderAlways, PTL DEF Spec

(* A run that says ok built every target and every edge it came to want,   *)
(* deferrals included, and wrote one derivation for each that is not a     *)
(* phony.                                                                  *)
THEOREM OkBuiltEverything == Spec => []OkMeansBuilt
<1>1. VInv /\ EInv => OkMeansBuilt
  <2> SUFFICES ASSUME VInv, EInv, phase = "ok" PROVE OkMeansBuilt
    BY DEF OkMeansBuilt
  <2>1. Wanted = Done /\ results = {} /\ todo = <<>>
    BY DEF VInv, OkPaid, TargetsTaken
  <2>2. Producers(ToSet(todo)) = {}
    BY <2>1 DEF Producers, ToSet
  <2>3. AnsweredOk = {}
    BY <2>1 DEF AnsweredOk
  <2> QED
    BY <2>1, <2>2, <2>3 DEF OkMeansBuilt, VInv, TargetsTaken, EInv, EmittedExact
<1> QED
  BY <1>1, VerdictAlways, EmittedAlways, PTL

-----------------------------------------------------------------------------
(* The scheduler implements TopoBuild.                                     *)

(* The dependencies are sets of edges. *)
LEMMA DepsTyped == BInv => OrderDeps(ordering) \in [Build -> SUBSET Build]
  BY DepsAreEdges DEF BInv, TypeOK, OrderDeps

(* Every step is one of TopoBuild's, or none of it. *)
LEMMA TopoStep == OInv /\ BInv' /\ [Next]_vars => [Topo!Next]_(Topo!vars)
<1> SUFFICES ASSUME OInv, BInv', [Next]_vars PROVE [Topo!Next]_(Topo!vars)
  OBVIOUS
<1>1. CASE UNCHANGED vars
  <2>1. /\ OrderDeps(ordering)' = OrderDeps(ordering) /\ Wanted' = Wanted
        /\ Done' = Done /\ Verdict' = Verdict
    BY <1>1 DEF vars, OrderDeps, Producers, Wanted, Unneeded, Done, Verdict
  <2> QED
    BY <2>1 DEF Topo!vars
<1>2. CASE Next /\ phase \notin {"want", "run"}
  <2>1. Stopped
    BY <1>2 DEF Next, Main, WantTarget, WantTargetRefused, BeginRun, StartEdge, StartFails,
           Handle, Receive, HandleDone, HandleFailure, DeferralAddsNothing, DeferralRefused,
           DeferralRequeued, DeferralWantFails, EndRun, Task, TaskEmits, TaskFails, TaskDefers
  <2> QED
    BY <1>1, <2>1 DEF Stopped
<1>3. ASSUME NEW r \in results, HandleDone(r) PROVE [Topo!Next]_(Topo!vars)
  <2>1. /\ r.bid \in Wanted \ Done /\ OrderDeps(ordering)[r.bid] \subseteq Done
        /\ Done' = Done \cup {r.bid} /\ OrderDeps(ordering)' = OrderDeps(ordering)
        /\ Wanted' = Wanted /\ phase = "run" /\ phase' = phase
    BY <1>3, DoneFinishes
  <2>2. r.bid \in Build /\ Verdict = "none" /\ Verdict' = "none"
    BY <2>1 DEF Wanted, Verdict
  <2>3. Topo!Finish(r.bid)
    BY <2>1, <2>2 DEF Topo!Finish
  <2> QED
    BY <2>2, <2>3 DEF Topo!Next
<1>4. CASE Next /\ phase \in {"want", "run"} /\ \A r \in results : ~HandleDone(r)
  <2>1. Verdict = "none" /\ Verdict' \in {"none", "ok", "err"}
    BY <1>4 DEF Verdict
  <2>2. Grows
    BY <1>4, StepGrows DEF OInv
  <2>3. OrderDeps(ordering)' \in [Build -> SUBSET Build]
    BY DEF BInv, TypeOK, OrderDeps, Producers, Graph
  <2>4. Wanted' \in SUBSET Build
    BY DEF Wanted
  <2>5. Topo!Learn
    BY <2>2, <2>3, <2>4 DEF Topo!Learn, Grows, DepsGrow
  <2>6. CASE Verdict' = "none"
    <3>1. Topo!Amend
      BY <2>1, <2>2, <2>5, <2>6 DEF Topo!Amend, Grows
    <3> QED
      BY <3>1 DEF Topo!Next
  <2>7. CASE Verdict' = "err"
    <3>1. Topo!Fail
      BY <2>1, <2>2, <2>5, <2>7 DEF Topo!Fail, Grows
    <3> QED
      BY <3>1 DEF Topo!Next
  <2>8. CASE Verdict' = "ok"
    <3>1. phase' = "ok"
      BY <2>8 DEF Verdict
    <3>2. EndRun
      BY <1>4, <3>1 DEF Next, Main, WantTarget, WantTargetRefused, BeginRun, StartEdge,
             StartFails, Handle, Receive, HandleDone, HandleFailure, DeferralFails,
             DeferralAddsNothing, DeferralRefused, DeferralRequeued, DeferralWantFails,
             Stopped, Task, TaskEmits, TaskFails, TaskDefers
    <3>3. Wanted = Done
      BY <3>1, <3>2, OkOwesNothing
    <3>4. /\ OrderDeps(ordering)' = OrderDeps(ordering) /\ Wanted' = Wanted
          /\ Done' = Done
      BY <3>2 DEF EndRun, OrderDeps, Producers, Wanted, Unneeded, Done
    <3>5. Topo!Succeed
      BY <2>1, <2>8, <3>3, <3>4 DEF Topo!Succeed
    <3> QED
      BY <3>5 DEF Topo!Next
  <2> QED
    BY <2>1, <2>6, <2>7, <2>8
<1> QED
  BY <1>1, <1>2, <1>3, <1>4

(* The run loop, its queue, its counters and its threads implement the     *)
(* promise of TopoBuild, for every graph and every deferral.               *)
THEOREM ImplementsTopoBuild == Spec => TopoSpec
<1>1. Init => Topo!Init
  <2> SUFFICES ASSUME Init PROVE Topo!Init
    OBVIOUS
  <2>1. OrderDeps(ordering) \in [Build -> SUBSET Build]
    BY BookkeepingInit, DepsTyped
  <2>2. Wanted = {} /\ Done = {} /\ Verdict = "none"
    BY DEF Init, Fresh, Wanted, Unneeded, Done, Verdict
  <2> QED
    BY <2>1, <2>2 DEF Topo!Init
<1>2. OInv /\ BInv' /\ [Next]_vars => [Topo!Next]_(Topo!vars)
  BY TopoStep
<1> QED
  BY <1>1, <1>2, OrderAlways, BookkeepingAlways, PTL DEF Spec, TopoSpec, Topo!Spec

-----------------------------------------------------------------------------
(***************************************************************************)
(* WantWalk: each walk, whatever the order it takes the inputs in, marks   *)
(* what Scheduler says in one step, and a walk that breaks off has met a   *)
(* cycle.                                                                  *)
(***************************************************************************)

(* A walk under way, against what it will have marked.                     *)

Frame == [file : File, bid : Build, ordering : SUBSET File,
          validation : SUBSET File, ready : BOOLEAN, marked : BOOLEAN]

Snapshot == [state : [Build -> BuildState], pending : Nat, ready : Seq(Build),
             ordering : [Build -> SUBSET File]]

WTypeOK ==
    /\ mode \in {"idle", "walking", "refused"}
    /\ asked \subseteq File
    /\ stack \in Seq(Frame)
    /\ deferral \subseteq Result
    /\ before \in Snapshot

Quiet == /\ stack = <<>> /\ asked = {} /\ deferral = {}
         /\ mode = "refused" => phase = "abort"

(* The edges that were unneeded when the walk began, the ones it has       *)
(* marked, the files it was asked for and the edges it is to mark.         *)
Was(b)     == before.state[b]
Untouched  == {b \in Build : Was(b) = "Unneeded"}
Marked     == {b \in Build : state[b] # Was(b)}
NewOf(r)   == r.fids \ before.ordering[r.bid]
Start      == IF deferral = {} THEN {Head(todo)} ELSE UNION {NewOf(r) : r \in deferral}
WalkDep    == [b \in Build |-> WalkDeps(ordering)[b] \cap Untouched]
ToMark     == Reach(Producers(Start) \cap Untouched, WalkDep)

MadeBefore(b) == \A p \in Producers(ordering[b]) : Was(p) = "Done"

(* Where a walk is called from, as long as it lasts. *)
FromTargets == /\ deferral = {} /\ phase = "want" /\ todo # <<>>
               /\ before.ordering = ordering

FromDeferral ==
    \E r \in Result :
        /\ deferral = {r} /\ r.kind = "deferred"
        /\ phase = "run" /\ before.ready = <<>> /\ NewOf(r) # {}
        /\ r.bid \notin Reach(Producers(NewOf(r)), OrderDeps(before.ordering))
        /\ ordering = [before.ordering EXCEPT ![r.bid] = @ \cup (NewOf(r) \ graph.validation[r.bid])]
        /\ Was(r.bid) = "Running" /\ state[r.bid] = "Running"
        /\ r.bid \notin threads /\ \A q \in results : q.bid # r.bid

(* What is marked so far, and how the copies say so. *)
MarksSound ==
    /\ \A b \in Marked : /\ Was(b) = "Unneeded"
                         /\ state[b] = IF MadeBefore(b) THEN "Ready" ELSE "Want"
    /\ Marked \subseteq ToMark
    /\ \A b \in Marked : OrderDeps(ordering)[b] \cap Unneeded = {}
    /\ Acyclic(Marked, OrderDeps(ordering))
    /\ pending = before.pending + Cardinality(Marked)
    /\ \E q \in SetToSeqs({b \in Marked : MadeBefore(b)}) : ready = before.ready \o q

Visited(f) == graph.producer[f] \notin Unneeded

(* An open call that has the files H in hand: the one the call above it    *)
(* walks, or none.                                                         *)
InputsLeft(c, H) ==
    /\ c.bid \in Unneeded
    /\ c.validation = graph.validation[c.bid]
    /\ c.ready <=> \A f \in (ordering[c.bid] \ c.ordering) \ H :
                       graph.producer[f] \in Done \cup {NoBuild}
    /\ H \subseteq ordering[c.bid] \ c.ordering

InputsOver(c, H) ==
    /\ c.bid \in Marked
    /\ c.ordering = {}
    /\ \A f \in (graph.validation[c.bid] \ c.validation) \ H : Visited(f)
    /\ H \subseteq graph.validation[c.bid] \ c.validation

CallSound(c, H) ==
    /\ c.bid = graph.producer[c.file] /\ c.bid \in ToMark
    /\ c.ordering \subseteq ordering[c.bid]
    /\ c.validation \subseteq graph.validation[c.bid]
    /\ \A f \in (ordering[c.bid] \ c.ordering) \ H : Visited(f)
    /\ c.marked => InputsOver(c, H)
    /\ ~c.marked => InputsLeft(c, H)

InHand(q, i, H) == IF i < Len(q) THEN {q[i + 1].file} ELSE H

(* An edge entered a second time, by another of its outputs, has still     *)
(* before it the input it was left by.                                     *)
Reentered(q) ==
    \A i, j \in 1 .. Len(q) :
        i < j /\ q[i].bid = q[j].bid => q[i + 1].file \in q[j].ordering

(* What is marked has its validation inputs walked, or is still open.      *)
ValidationOwed(q) ==
    \A b \in Marked : \/ \A f \in graph.validation[b] : Visited(f)
                      \/ \E i \in 1 .. Len(q) : q[i].bid = b /\ q[i].marked

Root(q, H) == IF q = <<>> THEN H ELSE {q[1].file}

StartOwed(q, A, H) ==
    /\ A \subseteq Start /\ Root(q, H) \subseteq Start
    /\ \A f \in Start \ A : Visited(f) \/ f \in Root(q, H)

(* The open calls q, with the files A still to be started from, when the   *)
(* innermost call, or the start, has H in hand.                            *)
CallsSound(q, A, H) ==
    /\ \A i \in 1 .. Len(q) : CallSound(q[i], InHand(q, i, H))
    /\ Reentered(q)
    /\ ValidationOwed(q)
    /\ StartOwed(q, A, H)

StackSound == CallsSound(stack, asked, {})

Walking == (FromTargets \/ FromDeferral) /\ MarksSound /\ StackSound

WInv == /\ BInv /\ WTypeOK
        /\ mode # "walking" => Quiet
        /\ mode = "walking" => Walking

-----------------------------------------------------------------------------
(* The stack.                                                              *)

(* The innermost call left out, and replaced. *)
LEMMA FrontHolds ==
    ASSUME NEW S, NEW q \in Seq(S), q # <<>>
    PROVE  /\ Front(q) \in Seq(S)
           /\ Len(Front(q)) = Len(q) - 1
           /\ \A i \in 1 .. Len(q) - 1 : Front(q)[i] = q[i]
<1>1. Len(q) \in Nat /\ Len(q) >= 1
  OBVIOUS
<1>2. 1 \in Int /\ Len(q) - 1 \in Int /\ \A i \in 1 .. Len(q) - 1 : q[i] \in S
  BY <1>1
<1>3. /\ Front(q) \in Seq(S)
      /\ Len(Front(q)) = IF 1 <= Len(q) - 1 THEN Len(q) - 1 - 1 + 1 ELSE 0
      /\ \A i \in 1 .. Len(q) - 1 - 1 + 1 : Front(q)[i] = q[1 + i - 1]
  BY <1>2, SubSeqProperties DEF Front
<1>4. Len(Front(q)) = Len(q) - 1
  <2>1. Len(q) - 1 - 1 + 1 = Len(q) - 1
    BY <1>1
  <2>2. CASE 1 <= Len(q) - 1
    BY <1>3, <2>1, <2>2, Zenon
  <2>3. CASE ~(1 <= Len(q) - 1)
    <3>0. \A n \in Nat : n >= 1 /\ ~(1 <= n - 1) => n - 1 = 0
      OBVIOUS
    <3>1. Len(q) - 1 = 0
      BY <1>1, <2>3, <3>0, Zenon
    <3> QED
      BY <1>3, <2>3, <3>1, Zenon
  <2> QED
    BY <2>2, <2>3
<1>5. ASSUME NEW i \in 1 .. Len(q) - 1 PROVE Front(q)[i] = q[i]
  <2>1. Len(q) - 1 - 1 + 1 = Len(q) - 1 /\ 1 + i - 1 = i
    BY <1>1
  <2>2. i \in 1 .. Len(q) - 1 - 1 + 1
    BY <1>1, <2>1
  <2>3. Front(q)[i] = q[1 + i - 1]
    BY <1>3, <2>2
  <2> QED
    BY <2>1, <2>3
<1> QED
  BY <1>3, <1>4, <1>5

LEMMA TopReplaced ==
    ASSUME NEW S, NEW q \in Seq(S), q # <<>>, NEW x \in S
    PROVE  /\ Append(Front(q), x) \in Seq(S)
           /\ Len(Append(Front(q), x)) = Len(q)
           /\ Append(Front(q), x)[Len(q)] = x
           /\ \A i \in 1 .. Len(q) - 1 : Append(Front(q), x)[i] = q[i]
<1>1. Len(q) \in Nat /\ Len(q) >= 1
  OBVIOUS
<1> QED
  BY <1>1, FrontHolds

(* Two frames that differ in their readiness at most. *)
Alike(c, d) == /\ c.file = d.file /\ c.bid = d.bid /\ c.ordering = d.ordering
               /\ c.validation = d.validation /\ c.marked = d.marked

LEMMA NotReadyHolds ==
    ASSUME NEW q \in Seq(Frame)
    PROVE  /\ NotReady(q) \in Seq(Frame) /\ Len(NotReady(q)) = Len(q)
           /\ \A i \in 1 .. Len(q) : Alike(NotReady(q)[i], q[i])
           /\ \A i \in 1 .. Len(q) : i # Len(q) => NotReady(q)[i] = q[i]
           /\ q # <<>> => NotReady(q)[Len(q)].ready = FALSE
<1>1. CASE q = <<>>
  BY <1>1 DEF NotReady
<1>2. CASE q # <<>>
  <2> DEFINE n == Len(q)
             c == [q[n] EXCEPT !.ready = FALSE]
  <2>1. n \in 1 .. Len(q) /\ q[n] \in Frame
    BY <1>2
  <2>2. c \in Frame /\ Alike(c, q[n]) /\ c.ready = FALSE
    BY <2>1 DEF Frame, Alike
  <2>3. NotReady(q) = [q EXCEPT ![n] = c]
    BY <1>2 DEF NotReady
  <2> HIDE DEF c
  <2>4. /\ NotReady(q) \in Seq(Frame) /\ Len(NotReady(q)) = Len(q)
        /\ NotReady(q)[n] = c
        /\ \A i \in 1 .. Len(q) : i # n => NotReady(q)[i] = q[i]
    BY <2>1, <2>2, <2>3
  <2> QED
    BY <1>2, <2>1, <2>2, <2>4 DEF Alike
<1> QED
  BY <1>1, <1>2

-----------------------------------------------------------------------------
(* One open call.                                                          *)

(* It takes an input in hand. *)
LEMMA TakesInput ==
    ASSUME NEW c \in Frame, CallSound(c, {}), NEW f \in c.ordering, NEW d \in Frame,
           d = [c EXCEPT !.ordering = @ \ {f}]
    PROVE  CallSound(d, {f})
<1>1. /\ d.file = c.file /\ d.bid = c.bid /\ d.validation = c.validation
      /\ d.ordering = c.ordering \ {f}
  BY DEF Frame
<1>2. d.ready = c.ready /\ d.marked = c.marked
  BY DEF Frame
<1>3. f \in ordering[c.bid] /\ c.ordering \subseteq ordering[c.bid]
  BY DEF CallSound
<1>4. (ordering[d.bid] \ d.ordering) \ {f} = (ordering[c.bid] \ c.ordering) \ {}
  BY <1>1, <1>3
<1>5. ~c.marked /\ InputsLeft(c, {})
  BY DEF CallSound, InputsOver
<1>6. InputsLeft(d, {f})
  <2>1. d.bid \in Unneeded /\ d.validation = graph.validation[d.bid]
    BY <1>1, <1>5 DEF InputsLeft
  <2>2. {f} \subseteq ordering[d.bid] \ d.ordering
    BY <1>1, <1>3
  <2>3. d.ready <=> \A g \in (ordering[d.bid] \ d.ordering) \ {f} :
                       graph.producer[g] \in Done \cup {NoBuild}
    BY <1>2, <1>4, <1>5, Zenon DEF InputsLeft
  <2> QED
    BY <2>1, <2>2, <2>3, Zenon DEF InputsLeft
<1>7. ~d.marked
  BY <1>2, <1>5, Zenon
<1>8. /\ d.bid = graph.producer[d.file] /\ d.bid \in ToMark
      /\ d.ordering \subseteq ordering[d.bid]
      /\ d.validation \subseteq graph.validation[d.bid]
      /\ \A g \in (ordering[d.bid] \ d.ordering) \ {f} : Visited(g)
  BY <1>1, <1>3, <1>4 DEF CallSound
<1> QED
  BY <1>6, <1>7, <1>8, Zenon DEF CallSound

(* Or a validation input. *)
LEMMA TakesValidation ==
    ASSUME NEW c \in Frame, CallSound(c, {}), c.marked, NEW f \in c.validation,
           NEW d \in Frame, d = [c EXCEPT !.validation = @ \ {f}]
    PROVE  CallSound(d, {f})
<1>1. /\ d.file = c.file /\ d.bid = c.bid /\ d.ordering = c.ordering
      /\ d.validation = c.validation \ {f}
  BY DEF Frame
<1>2. d.marked = c.marked
  BY DEF Frame
<1>3. InputsOver(c, {})
  BY Zenon DEF CallSound
<1>4. f \in graph.validation[c.bid] /\ c.validation \subseteq graph.validation[c.bid]
  BY DEF CallSound
<1>5. (graph.validation[d.bid] \ d.validation) \ {f}
         = (graph.validation[c.bid] \ c.validation) \ {}
  BY <1>1, <1>4
<1>6. InputsOver(d, {f})
  BY <1>1, <1>3, <1>4, <1>5 DEF InputsOver
<1>7. /\ d.bid = graph.producer[d.file] /\ d.bid \in ToMark
      /\ d.ordering \subseteq ordering[d.bid]
      /\ d.validation \subseteq graph.validation[d.bid]
      /\ \A g \in (ordering[d.bid] \ d.ordering) \ {f} : Visited(g)
  BY <1>1, <1>4 DEF CallSound
<1> QED
  BY <1>2, <1>6, <1>7, Zenon DEF CallSound

(* What it had in hand is walked: the call is told when that is not built. *)
LEMMA Settles ==
    ASSUME NEW c \in Frame, NEW f, CallSound(c, {f}), Visited(f), NEW d \in Frame,
           \/ d = c /\ graph.producer[f] \in Done \cup {NoBuild}
           \/ Alike(d, c) /\ d.ready = FALSE /\ graph.producer[f] \notin Done \cup {NoBuild}
    PROVE  CallSound(d, {})
<1>1. /\ d.file = c.file /\ d.bid = c.bid /\ d.ordering = c.ordering
      /\ d.validation = c.validation
  BY DEF Alike
<1>2. d.marked = c.marked
  BY DEF Alike
<1>3. /\ d.bid = graph.producer[d.file] /\ d.bid \in ToMark
      /\ d.ordering \subseteq ordering[d.bid]
      /\ d.validation \subseteq graph.validation[d.bid]
      /\ \A g \in (ordering[d.bid] \ d.ordering) \ {} : Visited(g)
  BY <1>1 DEF CallSound
<1>4. InputsOver(c, {f}) => InputsOver(d, {})
  BY <1>1 DEF InputsOver
<1>5. ASSUME InputsLeft(c, {f}) PROVE InputsLeft(d, {})
  <2> DEFINE built(g) == graph.producer[g] \in Done \cup {NoBuild}
             walked   == ordering[c.bid] \ c.ordering
  <2>1. c.ready <=> \A g \in walked \ {f} : built(g)
    BY <1>5, Zenon DEF InputsLeft
  <2>2. f \in walked
    BY <1>5 DEF InputsLeft
  <2>3. d.ready <=> \A g \in walked \ {} : built(g)
    <3> HIDE DEF walked
    <3>1. CASE d = c /\ built(f)
      <4>1. (\A g \in walked \ {f} : built(g)) <=> \A g \in walked \ {} : built(g)
        BY <2>2, <3>1
      <4> QED
        BY <2>1, <3>1, <4>1, Zenon
    <3>2. CASE d.ready = FALSE /\ ~built(f)
      <4>1. ~ \A g \in walked \ {} : built(g)
        BY <2>2, <3>2
      <4> QED
        BY <3>2, <4>1, Zenon
    <3> QED
      BY <3>1, <3>2
  <2>4. d.bid \in Unneeded /\ d.validation = graph.validation[d.bid]
    BY <1>1, <1>5 DEF InputsLeft
  <2> QED
    BY <1>1, <2>3, <2>4, Zenon DEF InputsLeft
<1> QED
  BY <1>2, <1>3, <1>4, <1>5, Zenon DEF CallSound

-----------------------------------------------------------------------------
(* The open calls.                                                         *)

(* The innermost call takes in hand a file that is not open. *)
LEMMA TopTakes ==
    ASSUME NEW q \in Seq(Frame), q # <<>>, NEW A, CallsSound(q, A, {}),
           NEW f, \A i \in 1 .. Len(q) : q[i].file # f,
           NEW d \in Frame, CallSound(d, {f}),
           d.file = q[Len(q)].file, d.bid = q[Len(q)].bid, d.marked = q[Len(q)].marked,
           q[Len(q)].ordering \ {f} \subseteq d.ordering
    PROVE  CallsSound(Append(Front(q), d), A, {f})
<1> DEFINE n == Len(q)
           u == Append(Front(q), d)
<1>1. n \in Nat /\ n >= 1 /\ n \in 1 .. n
  OBVIOUS
<1>2. /\ u \in Seq(Frame) /\ Len(u) = n /\ u[n] = d
      /\ \A i \in 1 .. n - 1 : u[i] = q[i]
  BY TopReplaced
<1>3. u # <<>>
  BY <1>1, <1>2
<1> HIDE DEF u
<1>4. \A i \in 1 .. n : u[i].file = q[i].file /\ u[i].bid = q[i].bid
  <2> SUFFICES ASSUME NEW i \in 1 .. n
               PROVE  u[i].file = q[i].file /\ u[i].bid = q[i].bid
    OBVIOUS
  <2>1. i = n \/ i \in 1 .. n - 1
    BY <1>1
  <2> QED
    BY <1>2, <2>1
<1>5. \A i \in 1 .. n : u[i].marked = q[i].marked
  <2> SUFFICES ASSUME NEW i \in 1 .. n PROVE u[i].marked = q[i].marked
    OBVIOUS
  <2>1. i = n \/ i \in 1 .. n - 1
    BY <1>1
  <2> QED
    BY <1>2, <2>1
<1>6. ASSUME NEW i \in 1 .. n PROVE CallSound(u[i], InHand(u, i, {f}))
  <2>1. CASE i = n
    BY <1>1, <1>2, <2>1 DEF InHand
  <2>2. CASE i # n
    <3>1. i \in 1 .. n - 1 /\ i + 1 \in 1 .. n /\ i < n
      BY <1>1, <2>2
    <3>2. InHand(u, i, {f}) = InHand(q, i, {})
      BY <1>2, <1>4, <3>1 DEF InHand
    <3> QED
      BY <1>2, <3>1, <3>2 DEF CallsSound
  <2> QED
    BY <2>1, <2>2
<1>7. Reentered(u)
  <2> SUFFICES ASSUME NEW i \in 1 .. n, NEW j \in 1 .. n, i < j, u[i].bid = u[j].bid
               PROVE  u[i + 1].file \in u[j].ordering
    BY <1>2 DEF Reentered
  <2>1. i + 1 \in 1 .. n
    BY <1>1
  <2>2. q[i + 1].file \in q[j].ordering /\ q[i + 1].file # f
    BY <1>4, <2>1 DEF CallsSound, Reentered
  <2>3. j = n \/ j \in 1 .. n - 1
    BY <1>1
  <2>4. q[i + 1].file \in u[j].ordering
    BY <1>2, <2>2, <2>3
  <2> QED
    BY <1>4, <2>1, <2>4
<1>8. ValidationOwed(u)
  <2> SUFFICES ASSUME NEW b \in Marked, ~ \A g \in graph.validation[b] : Visited(g)
               PROVE  \E i \in 1 .. Len(u) : u[i].bid = b /\ u[i].marked
    BY Zenon DEF ValidationOwed
  <2>1. PICK i \in 1 .. n : q[i].bid = b /\ q[i].marked
    BY Zenon DEF CallsSound, ValidationOwed
  <2> QED
    BY <1>2, <1>4, <1>5, <2>1, Zenon
<1>9. StartOwed(u, A, {f})
  <2>1. 1 \in 1 .. n
    BY <1>1
  <2> QED
    BY <1>3, <1>4, <2>1 DEF CallsSound, StartOwed, Root
<1> QED
  BY <1>2, <1>6, <1>7, <1>8, <1>9 DEF CallsSound, u

(* A walk starts from a file. *)
LEMMA StartTakes ==
    ASSUME NEW A, CallsSound(<<>>, A, {}), NEW f \in A
    PROVE  CallsSound(<<>>, A \ {f}, {f})
<1>1. /\ Reentered(<<>>) /\ \A i \in 1 .. Len(<<>>) : CallSound(<<>>[i], InHand(<<>>, i, {f}))
  BY DEF Reentered
<1>2. StartOwed(<<>>, A \ {f}, {f})
  BY DEF CallsSound, StartOwed, Root
<1> QED
  BY <1>1, <1>2 DEF CallsSound

(* The file in hand is walked. *)
LEMMA CallSettles ==
    ASSUME NEW q \in Seq(Frame), NEW A, NEW f, CallsSound(q, A, {f}), Visited(f), NEW u,
           \/ u = q /\ graph.producer[f] \in Done \cup {NoBuild}
           \/ u = NotReady(q) /\ graph.producer[f] \notin Done \cup {NoBuild}
    PROVE  CallsSound(u, A, {})
<1> DEFINE n == Len(q)
<1>1. n \in Nat
  OBVIOUS
<1>2. /\ u \in Seq(Frame) /\ Len(u) = n
      /\ \A i \in 1 .. n : i # n => u[i] = q[i]
      /\ \A i \in 1 .. n : Alike(u[i], q[i])
      /\ \/ u = q /\ graph.producer[f] \in Done \cup {NoBuild}
         \/ (q # <<>> => u[n].ready = FALSE) /\ graph.producer[f] \notin Done \cup {NoBuild}
  <2>1. CASE u = q /\ graph.producer[f] \in Done \cup {NoBuild}
    <3>1. \A i \in 1 .. n : Alike(q[i], q[i])
      BY DEF Alike
    <3> QED
      BY <2>1, <3>1
  <2>2. CASE u = NotReady(q) /\ graph.producer[f] \notin Done \cup {NoBuild}
    BY <2>2, NotReadyHolds, Zenon
  <2> QED
    BY <2>1, <2>2
<1>3. \A i \in 1 .. n : /\ u[i] \in Frame /\ q[i] \in Frame
                        /\ u[i].file = q[i].file /\ u[i].bid = q[i].bid
                        /\ u[i].ordering = q[i].ordering
  BY <1>2 DEF Alike
<1>4. \A i \in 1 .. n : u[i].marked = q[i].marked
  BY <1>2 DEF Alike
<1>5. ASSUME NEW i \in 1 .. n PROVE CallSound(u[i], InHand(u, i, {}))
  <2>1. CallSound(q[i], InHand(q, i, {f}))
    BY DEF CallsSound
  <2>2. CASE i = n
    <3>1. InHand(u, i, {}) = {} /\ InHand(q, i, {f}) = {f} /\ q # <<>>
      BY <1>1, <1>2, <2>2 DEF InHand
    <3>2. \/ u[i] = q[i] /\ graph.producer[f] \in Done \cup {NoBuild}
          \/ Alike(u[i], q[i]) /\ u[i].ready = FALSE /\ graph.producer[f] \notin Done \cup {NoBuild}
      BY <1>2, <2>2, <3>1
    <3> QED
      BY <1>3, <2>1, <3>1, <3>2, Settles
  <2>3. CASE i # n
    <3>1. i < n /\ i + 1 \in 1 .. n
      BY <1>1, <2>3
    <3>2. InHand(u, i, {}) = InHand(q, i, {f})
      BY <1>2, <1>3, <3>1 DEF InHand
    <3> QED
      BY <1>2, <2>1, <2>3, <3>2
  <2> QED
    BY <2>2, <2>3
<1>6. Reentered(u)
  <2> SUFFICES ASSUME NEW i \in 1 .. n, NEW j \in 1 .. n, i < j, u[i].bid = u[j].bid
               PROVE  u[i + 1].file \in u[j].ordering
    BY <1>2 DEF Reentered
  <2>1. i + 1 \in 1 .. n
    BY <1>1
  <2> QED
    BY <1>3, <2>1 DEF CallsSound, Reentered
<1>7. ValidationOwed(u)
  <2> SUFFICES ASSUME NEW b \in Marked, ~ \A g \in graph.validation[b] : Visited(g)
               PROVE  \E i \in 1 .. Len(u) : u[i].bid = b /\ u[i].marked
    BY Zenon DEF ValidationOwed
  <2>1. PICK i \in 1 .. n : q[i].bid = b /\ q[i].marked
    BY Zenon DEF CallsSound, ValidationOwed
  <2> QED
    BY <1>2, <1>3, <1>4, <2>1, Zenon
<1>8. StartOwed(u, A, {})
  <2>1. StartOwed(q, A, {f})
    BY DEF CallsSound
  <2>2. CASE q = <<>>
    <3>1. u = <<>>
      BY <1>2, <2>2
    <3> QED
      BY <2>1, <2>2, <3>1 DEF StartOwed, Root
  <2>3. CASE q # <<>>
    <3>1. 1 \in 1 .. n /\ u # <<>>
      BY <1>1, <1>2, <2>3
    <3>2. u[1].file = q[1].file
      BY <1>3, <3>1
    <3> QED
      BY <2>1, <2>3, <3>1, <3>2 DEF StartOwed, Root
  <2> QED
    BY <2>2, <2>3
<1> QED
  BY <1>2, <1>5, <1>6, <1>7, <1>8 DEF CallsSound

(* What the walk is to mark: the unneeded edges it starts from, and with   *)
(* each edge the unneeded ones it waits on or validates with.              *)
LEMMA ToMarkHolds ==
    ASSUME TypeOK, Start \subseteq File
    PROVE  /\ ToMark \subseteq Build
           /\ Producers(Start) \cap Untouched \subseteq ToMark
           /\ \A b \in ToMark : WalkDeps(ordering)[b] \cap Untouched \subseteq ToMark
<1>1. Producers(Start) \cap Untouched \subseteq Build
  BY DEF Untouched
<1>2. \A b \in Build : WalkDep[b] = WalkDeps(ordering)[b] \cap Untouched
  BY DEF WalkDep
<1>3. \A b \in Build : WalkDep[b] \subseteq Build
  BY <1>2 DEF Untouched
<1>4. /\ Producers(Start) \cap Untouched \subseteq ToMark
      /\ ToMark \subseteq Build
      /\ \A b \in ToMark : WalkDep[b] \subseteq ToMark
  BY <1>1, <1>3, ReachHolds DEF ToMark
<1> QED
  BY <1>2, <1>4

(* The states while a walk is under way. *)
LEMMA MarkedStates ==
    ASSUME TypeOK, MarksSound
    PROVE  /\ Marked \subseteq Untouched /\ Untouched \subseteq Build
           /\ Unneeded = Untouched \ Marked
           /\ Done = {b \in Build : Was(b) = "Done"}
           /\ \A b \in Build \ Marked : state[b] = Was(b)
           /\ \A b \in Marked : b \notin Unneeded /\ b \notin Done
<1>1. \A b \in Marked : Was(b) = "Unneeded" /\ state[b] \in {"Ready", "Want"}
  BY DEF MarksSound
<1>2. \A b \in Build \ Marked : state[b] = Was(b)
  BY DEF Marked
<1>3. Marked \subseteq Build
  BY DEF Marked
<1> QED
  BY <1>1, <1>2, <1>3 DEF Untouched, Unneeded, Done

(* A call made for the file in hand, of an edge not yet wanted. *)
LEMMA CallGoesDeeper ==
    ASSUME TypeOK, MarksSound, Start \subseteq File, NEW q \in Seq(Frame), NEW A,
           NEW f \in File, CallsSound(q, A, {f}), graph.producer[f] \in Unneeded
    PROVE  Open(f) \in Frame /\ CallsSound(Append(q, Open(f)), A, {})
<1> DEFINE n == Len(q)
           p == graph.producer[f]
           o == Open(f)
           u == Append(q, o)
<1>1. n \in Nat /\ graph \in Graph /\ ordering \in [Build -> SUBSET File]
  BY DEF TypeOK
<1>2. p \in Build /\ p \in Untouched /\ p \notin Marked /\ p # NoBuild
  BY MarkedStates, NoBuildAssumption DEF Unneeded
<1>3. /\ o.file = f /\ o.bid = p /\ o.ordering = ordering[p]
      /\ o.validation = graph.validation[p]
  BY DEF Open
<1>4. o.ready = TRUE /\ o.marked = FALSE
  BY DEF Open
<1>5. o \in Frame
  BY <1>1, <1>2 DEF Open, Frame, Graph
<1> HIDE DEF o
<1>6. /\ u \in Seq(Frame) /\ Len(u) = n + 1 /\ u[n + 1] = o
      /\ \A i \in 1 .. n : u[i] = q[i] /\ q[i] \in Frame
  BY <1>1, <1>5
<1> HIDE DEF u
<1>7. \A i \in 1 .. n : InHand(u, i, {}) = InHand(q, i, {f}) /\ InHand(u, i, {}) = {u[i + 1].file}
  <2> SUFFICES ASSUME NEW i \in 1 .. n
               PROVE  InHand(u, i, {}) = InHand(q, i, {f}) /\ InHand(u, i, {}) = {u[i + 1].file}
    OBVIOUS
  <2>1. InHand(u, i, {}) = {u[i + 1].file}
    BY <1>1, <1>6 DEF InHand
  <2>2. CASE i = n
    <3>1. u[i + 1].file = f
      BY <1>3, <1>6, <2>2
    <3>2. InHand(q, i, {f}) = {f}
      BY <1>1, <2>2 DEF InHand
    <3> QED
      BY <2>1, <3>1, <3>2
  <2>3. CASE i # n
    <3>1. i < n /\ i + 1 \in 1 .. n
      BY <1>1, <2>3
    <3> QED
      BY <1>6, <2>1, <3>1 DEF InHand
  <2> QED
    BY <2>1, <2>2, <2>3
<1>8. \A i \in 1 .. n : CallSound(q[i], InHand(q, i, {f}))
  BY DEF CallsSound
<1>9. p \in ToMark
  <2>1. CASE q = <<>>
    <3>1. f \in Start
      BY <2>1 DEF CallsSound, StartOwed, Root
    <3>2. p \in Producers(Start)
      BY <1>2, <3>1 DEF Producers
    <3> QED
      BY <1>2, <3>2, ToMarkHolds
  <2>2. CASE q # <<>>
    <3>1. n \in 1 .. n /\ InHand(q, n, {f}) = {f}
      BY <1>1, <2>2 DEF InHand
    <3>2. CallSound(q[n], {f})
      BY <1>8, <3>1
    <3>3. q[n].bid \in ToMark /\ q[n].bid \in Build
      BY <3>2, ToMarkHolds DEF CallSound
    <3>4. InputsOver(q[n], {f}) \/ InputsLeft(q[n], {f})
      BY <3>2, Zenon DEF CallSound
    <3>5. f \in ordering[q[n].bid] \/ f \in graph.validation[q[n].bid]
      BY <3>4 DEF InputsOver, InputsLeft
    <3>6. p \in WalkDeps(ordering)[q[n].bid]
      BY <1>2, <3>3, <3>5 DEF WalkDeps, Producers
    <3> QED
      BY <1>2, <3>3, <3>6, ToMarkHolds
  <2> QED
    BY <2>1, <2>2
<1>10. CallSound(o, {})
  <2>1. /\ o.bid = graph.producer[o.file] /\ o.bid \in ToMark
        /\ o.ordering \subseteq ordering[o.bid]
        /\ o.validation \subseteq graph.validation[o.bid]
        /\ \A g \in (ordering[o.bid] \ o.ordering) \ {} : Visited(g)
    BY <1>3, <1>9
  <2>2. \A g \in (ordering[o.bid] \ o.ordering) \ {} : graph.producer[g] \in Done \cup {NoBuild}
    BY <1>3
  <2>3. /\ o.bid \in Unneeded /\ o.validation = graph.validation[o.bid]
        /\ {} \subseteq ordering[o.bid] \ o.ordering
    BY <1>3
  <2>4. InputsLeft(o, {})
    BY <1>4, <2>2, <2>3, Zenon DEF InputsLeft
  <2> QED
    BY <1>4, <2>1, <2>4, Zenon DEF CallSound
<1>11. ASSUME NEW i \in 1 .. Len(u) PROVE CallSound(u[i], InHand(u, i, {}))
  <2>1. CASE i \in 1 .. n
    BY <1>6, <1>7, <1>8, <2>1
  <2>2. CASE i = n + 1
    <3>1. InHand(u, i, {}) = {}
      BY <1>1, <1>6, <2>2 DEF InHand
    <3> QED
      BY <1>6, <1>10, <2>2, <3>1
  <2> QED
    BY <1>1, <1>6, <2>1, <2>2
<1>12. ASSUME NEW i \in 1 .. n, q[i].bid = p PROVE u[i + 1].file \in o.ordering
  <2>1. CallSound(q[i], InHand(u, i, {}))
    BY <1>7, <1>8
  <2>2. ~ InputsOver(q[i], InHand(u, i, {}))
    BY <1>2, <1>12 DEF InputsOver
  <2>3. InputsLeft(q[i], InHand(u, i, {}))
    BY <2>1, <2>2, Zenon DEF CallSound
  <2>4. u[i + 1].file \in ordering[q[i].bid]
    BY <1>7, <2>3 DEF InputsLeft
  <2> QED
    BY <1>3, <1>12, <2>4
<1>13. Reentered(u)
  <2> SUFFICES ASSUME NEW i \in 1 .. n + 1, NEW j \in 1 .. n + 1, i < j, u[i].bid = u[j].bid
               PROVE  u[i + 1].file \in u[j].ordering
    BY <1>6 DEF Reentered
  <2>1. i \in 1 .. n /\ u[i] = q[i]
    BY <1>1, <1>6
  <2>2. CASE j \in 1 .. n
    <3>1. i + 1 \in 1 .. n
      BY <1>1, <2>2
    <3> QED
      BY <1>6, <2>1, <2>2, <3>1 DEF CallsSound, Reentered
  <2>3. CASE j = n + 1
    BY <1>3, <1>6, <1>12, <2>1, <2>3
  <2> QED
    BY <1>1, <2>2, <2>3
<1>14. ValidationOwed(u)
  <2> SUFFICES ASSUME NEW b \in Marked, ~ \A g \in graph.validation[b] : Visited(g)
               PROVE  \E i \in 1 .. Len(u) : u[i].bid = b /\ u[i].marked
    BY Zenon DEF ValidationOwed
  <2>1. PICK i \in 1 .. n : q[i].bid = b /\ q[i].marked
    BY Zenon DEF CallsSound, ValidationOwed
  <2>2. i \in 1 .. Len(u)
    BY <1>1, <1>6
  <2> QED
    BY <1>6, <2>1, <2>2, Zenon
<1>15. StartOwed(u, A, {})
  <2>1. u # <<>> /\ Root(q, {f}) = {u[1].file}
    <3>1. CASE q = <<>>
      <4>1. n = 0
        BY <3>1
      <4>2. Len(u) = 1 /\ u[1] = o
        BY <1>6, <4>1
      <4> QED
        BY <1>3, <3>1, <4>2 DEF Root
    <3>2. CASE q # <<>>
      <4>1. 1 \in 1 .. n
        BY <1>1, <3>2
      <4> QED
        BY <1>1, <1>6, <3>2, <4>1 DEF Root
    <3> QED
      BY <3>1, <3>2
  <2>2. Root(u, {}) = Root(q, {f})
    BY <2>1 DEF Root
  <2> QED
    BY <2>2 DEF CallsSound, StartOwed
<1> QED
  BY <1>5, <1>11, <1>13, <1>14, <1>15 DEF CallsSound, u, o

(* A call returns: what it was made for is in the hand of the call above.  *)
LEMMA CallEnds ==
    ASSUME TypeOK, MarksSound, NEW q \in Seq(Frame), q # <<>>, NEW A, CallsSound(q, A, {}),
           q[Len(q)].marked, q[Len(q)].validation = {}
    PROVE  /\ Front(q) \in Seq(Frame)
           /\ CallsSound(Front(q), A, {q[Len(q)].file})
           /\ Visited(q[Len(q)].file)
           /\ graph.producer[q[Len(q)].file] \notin Done \cup {NoBuild}
<1> DEFINE n == Len(q)
           c == q[n]
           u == Front(q)
<1>1. n \in Nat /\ n >= 1 /\ n \in 1 .. n
  OBVIOUS
<1>2. /\ u \in Seq(Frame) /\ Len(u) = n - 1
      /\ \A i \in 1 .. n - 1 : u[i] = q[i] /\ i \in 1 .. n /\ i + 1 \in 1 .. n
  BY <1>1, FrontHolds
<1> HIDE DEF u
<1>3. InHand(q, n, {}) = {}
  BY <1>1 DEF InHand
<1>4. CallSound(c, {})
  BY <1>1, <1>3 DEF CallsSound
<1>5. InputsOver(c, {}) /\ c.bid = graph.producer[c.file]
  BY <1>4, Zenon DEF CallSound
<1>6. c.bid \in Marked /\ \A f \in graph.validation[c.bid] : Visited(f)
  BY <1>5 DEF InputsOver
<1>7. Visited(c.file) /\ graph.producer[c.file] \notin Done \cup {NoBuild}
  BY <1>5, <1>6, MarkedStates, NoBuildAssumption DEF Visited
<1>8. ASSUME NEW i \in 1 .. n - 1 PROVE CallSound(u[i], InHand(u, i, {c.file}))
  <2>1. InHand(u, i, {c.file}) = {q[i + 1].file}
    <3>1. CASE i = n - 1
      BY <1>1, <1>2, <3>1 DEF InHand
    <3>2. CASE i # n - 1
      <4>1. i < n - 1 /\ i + 1 \in 1 .. n - 1
        BY <1>1, <3>2
      <4> QED
        BY <1>2, <4>1 DEF InHand
    <3> QED
      BY <3>1, <3>2
  <2>2. InHand(q, i, {}) = {q[i + 1].file}
    BY <1>1 DEF InHand
  <2>3. CallSound(q[i], InHand(q, i, {}))
    BY <1>2 DEF CallsSound
  <2> QED
    BY <1>2, <2>1, <2>2, <2>3
<1>9. Reentered(u)
  <2> SUFFICES ASSUME NEW i \in 1 .. n - 1, NEW j \in 1 .. n - 1, i < j, u[i].bid = u[j].bid
               PROVE  u[i + 1].file \in u[j].ordering
    BY <1>2 DEF Reentered
  <2>1. i + 1 \in 1 .. n - 1
    BY <1>1
  <2> QED
    BY <1>2, <2>1 DEF CallsSound, Reentered
<1>10. ValidationOwed(u)
  <2> SUFFICES ASSUME NEW b \in Marked, ~ \A g \in graph.validation[b] : Visited(g)
               PROVE  \E i \in 1 .. Len(u) : u[i].bid = b /\ u[i].marked
    BY Zenon DEF ValidationOwed
  <2>1. PICK i \in 1 .. n : q[i].bid = b /\ q[i].marked
    BY Zenon DEF CallsSound, ValidationOwed
  <2>2. i # n
    BY <1>6, <2>1
  <2>3. i \in 1 .. n - 1
    BY <1>1, <2>2
  <2> QED
    BY <1>2, <2>1, <2>3, Zenon
<1>11. StartOwed(u, A, {c.file})
  <2>1. Root(u, {c.file}) = Root(q, {})
    <3>1. CASE n = 1
      BY <1>1, <1>2, <3>1 DEF Root
    <3>2. CASE n # 1
      <4>1. 1 \in 1 .. n - 1 /\ u # <<>>
        BY <1>1, <1>2, <3>2
      <4> QED
        BY <1>2, <4>1 DEF Root
    <3> QED
      BY <3>1, <3>2
  <2> QED
    BY <2>1 DEF CallsSound, StartOwed
<1> QED
  BY <1>2, <1>7, <1>8, <1>9, <1>10, <1>11 DEF CallsSound, u

-----------------------------------------------------------------------------
(* The steps of a walk.                                                    *)

LEMMA WalkUnderWay ==
    ASSUME WInv, mode = "walking"
    PROVE  /\ BInv /\ TypeOK /\ WTypeOK /\ MarksSound /\ StackSound
           /\ FromTargets \/ FromDeferral
           /\ Start \subseteq File
           /\ stack \in Seq(Frame) /\ asked \subseteq File
<1>1. /\ BInv /\ TypeOK /\ WTypeOK /\ MarksSound /\ StackSound
      /\ FromTargets \/ FromDeferral
  BY DEF WInv, Walking, BInv
<1>2. ASSUME FromTargets PROVE Start \subseteq File
  <2>1. Start = {Head(todo)} /\ Head(todo) \in File
    BY <1>1, <1>2 DEF FromTargets, Start, TypeOK
  <2> QED
    BY <2>1
<1>3. ASSUME FromDeferral PROVE Start \subseteq File
  <2>1. PICK r \in Result : deferral = {r}
    BY <1>3 DEF FromDeferral
  <2>2. Start = NewOf(r)
    BY <2>1 DEF Start
  <2> QED
    BY <2>2 DEF NewOf, Result
<1>4. stack \in Seq(Frame) /\ asked \subseteq File
  BY <1>1 DEF WTypeOK
<1> QED
  BY <1>1, <1>2, <1>3, <1>4

(* What a walk is to mark, and where it was called from, hold still under  *)
(* it and under the task threads.                                          *)
LEMMA SameWalk ==
    ASSUME UNCHANGED <<graph, ordering, todo, deferral, before>>
    PROVE  /\ Start' = Start /\ Untouched' = Untouched /\ ToMark' = ToMark
           /\ OrderDeps(ordering)' = OrderDeps(ordering)
           /\ \A b \in Build : MadeBefore(b)' <=> MadeBefore(b)
<1>1. Untouched' = Untouched /\ Start' = Start
  BY DEF Untouched, Was, Start, NewOf
<1>2. ToMark' = ToMark
  BY <1>1 DEF ToMark, Reach, WalkDep, WalkDeps, Producers
<1> QED
  BY <1>1, <1>2 DEF OrderDeps, Producers, MadeBefore, Was

LEMMA SameCaller ==
    ASSUME TypeOK, FromTargets \/ FromDeferral,
           UNCHANGED <<graph, ordering, todo, phase, deferral, before>>,
           \A b \in Build : state[b] = "Running" => state'[b] = "Running",
           threads' \subseteq threads, \A q \in results' : q \in results \/ q.bid \in threads
    PROVE  (FromTargets \/ FromDeferral)'
<1>1. FromTargets => FromTargets'
  BY DEF FromTargets
<1>2. ASSUME FromDeferral PROVE FromDeferral'
  <2>1. PICK r \in Result :
            /\ deferral = {r} /\ r.kind = "deferred"
            /\ phase = "run" /\ before.ready = <<>> /\ NewOf(r) # {}
            /\ r.bid \notin Reach(Producers(NewOf(r)), OrderDeps(before.ordering))
            /\ ordering = [before.ordering EXCEPT ![r.bid] = @ \cup (NewOf(r) \ graph.validation[r.bid])]
            /\ Was(r.bid) = "Running" /\ state[r.bid] = "Running"
            /\ r.bid \notin threads /\ \A q \in results : q.bid # r.bid
    BY <1>2 DEF FromDeferral
  <2>2. NewOf(r)' = NewOf(r) /\ Was(r.bid)' = Was(r.bid)
    BY DEF NewOf, Was
  <2>3. Producers(NewOf(r))' = Producers(NewOf(r))
    BY <2>2 DEF Producers
  <2>4. OrderDeps(before.ordering)' = OrderDeps(before.ordering)
    BY DEF OrderDeps, Producers
  <2>5. Reach(Producers(NewOf(r)), OrderDeps(before.ordering))'
           = Reach(Producers(NewOf(r)), OrderDeps(before.ordering))
    BY <2>3, <2>4 DEF Reach
  <2>6. state'[r.bid] = "Running" /\ r.bid \notin threads' /\ \A q \in results' : q.bid # r.bid
    BY <2>1 DEF Result
  <2> QED
    BY <2>1, <2>2, <2>5, <2>6 DEF FromDeferral
<1> QED
  BY <1>1, <1>2

(* What is marked, and the calls that stand, under a step that marks       *)
(* nothing.                                                                *)
LEMMA NothingMarked ==
    ASSUME WTypeOK, MarksSound,
           UNCHANGED <<graph, ordering, state, pending, ready, todo, deferral, before>>
    PROVE  /\ MarksSound'
           /\ CallsSound(stack', asked', {}) => StackSound'
<1>1. /\ Start' = Start /\ Untouched' = Untouched /\ ToMark' = ToMark
      /\ OrderDeps(ordering)' = OrderDeps(ordering)
      /\ \A b \in Build : MadeBefore(b)' <=> MadeBefore(b)
  BY SameWalk
<1>2. Unneeded' = Unneeded /\ Done' = Done /\ Marked' = Marked
  BY DEF Unneeded, Done, Marked, Was
<1>3. MarksSound'
  <2>1. Acyclic(Marked, OrderDeps(ordering))'
    BY <1>1, <1>2 DEF MarksSound, Acyclic, Knots
  <2>2. {b \in Marked : MadeBefore(b)}' = {b \in Marked : MadeBefore(b)}
    BY <1>1, <1>2 DEF Marked
  <2>3. \A b \in Marked' : /\ Was(b)' = "Unneeded"
                            /\ state'[b] = IF MadeBefore(b)' THEN "Ready" ELSE "Want"
    BY <1>1, <1>2 DEF MarksSound, Was, Marked
  <2>4. (\E q \in SetToSeqs({b \in Marked : MadeBefore(b)}) : ready = before.ready \o q)'
    BY <2>2 DEF MarksSound
  <2> QED
    BY <1>1, <1>2, <2>1, <2>3, <2>4 DEF MarksSound
<1>4. ASSUME CallsSound(stack', asked', {}) PROVE StackSound'
  <2>1. \A f : Visited(f)' <=> Visited(f)
    BY <1>2 DEF Visited
  <2>2. \A c, H : CallSound(c, H) => CallSound(c, H)'
    BY <1>1, <1>2, <2>1 DEF CallSound, InputsOver, InputsLeft
  <2> QED
    BY <1>1, <1>2, <1>4, <2>1, <2>2
       DEF StackSound, CallsSound, InHand, Reentered, ValidationOwed, StartOwed, Root
<1> QED
  BY <1>3, <1>4

(* A step that moves no more than the open calls. *)
LEMMA CallsMove ==
    ASSUME WInv, mode = "walking", UNCHANGED <<vars, mode, deferral, before>>,
           stack' \in Seq(Frame), asked' \subseteq File, CallsSound(stack', asked', {})
    PROVE  WInv'
<1>1. /\ BInv /\ TypeOK /\ WTypeOK /\ MarksSound /\ (FromTargets \/ FromDeferral)
  BY WalkUnderWay
<1>2. /\ graph' = graph /\ ordering' = ordering /\ state' = state /\ pending' = pending
      /\ ready' = ready /\ todo' = todo /\ phase' = phase /\ results' = results
      /\ threads' = threads /\ deferral' = deferral /\ before' = before /\ mode' = mode
  BY DEF vars
<1>3. BInv'
  BY <1>1 DEF vars, BInv, TypeOK, PendingExact, Owed, QueueExact, ReadySet, ReadyIn, OutExact
<1>4. WTypeOK'
  BY <1>1, <1>2 DEF WTypeOK
<1>5. (FromTargets \/ FromDeferral)'
  BY <1>1, <1>2, SameCaller
<1>6. MarksSound' /\ StackSound'
  BY <1>1, <1>2, NothingMarked
<1> QED
  BY <1>2, <1>3, <1>4, <1>5, <1>6 DEF WInv, Walking

(* The call for f: it returns at once or stays open. *)
LEMMA CallKept ==
    ASSUME WInv, mode = "walking", NEW f \in File, NEW s \in Seq(Frame), NEW A \in SUBSET File,
           CallsSound(s, A, {f}), asked' = A, Call(f, s)
    PROVE  WInv'
<1>1. /\ TypeOK /\ MarksSound /\ Start \subseteq File
      /\ UNCHANGED <<vars, mode, deferral, before>>
  BY WalkUnderWay DEF Call
<1>2. CASE CallReturns(f, s)
  <2>1. Visited(f)
    BY <1>2, NoBuildAssumption DEF CallReturns, Visited, Unneeded
  <2>2. \/ stack' = s /\ graph.producer[f] \in Done \cup {NoBuild}
        \/ stack' = NotReady(s) /\ graph.producer[f] \notin Done \cup {NoBuild}
    BY <1>2 DEF CallReturns
  <2>3. stack' \in Seq(Frame)
    BY <2>2, NotReadyHolds
  <2>4. CallsSound(stack', A, {})
    BY <2>1, <2>2, CallSettles
  <2> QED
    BY <1>1, <2>3, <2>4, CallsMove
<1>3. CASE CallOpens(f, s)
  <2>1. graph.producer[f] \in Unneeded /\ stack' = Append(s, Open(f))
    BY <1>3 DEF CallOpens
  <2>2. Open(f) \in Frame /\ CallsSound(Append(s, Open(f)), A, {})
    BY <1>1, <2>1, CallGoesDeeper
  <2>3. Append(s, Open(f)) \in Seq(Frame)
    BY <2>2
  <2> QED
    BY <1>1, <2>1, <2>2, <2>3, CallsMove
<1> QED
  BY <1>2, <1>3 DEF Call

(* A walk starts from the next file asked for. *)
LEMMA BeginKept ==
    ASSUME WInv, NEW f \in File, Begin(f)
    PROVE  WInv'
<1>1. /\ mode = "walking" /\ stack = <<>> /\ f \in asked /\ asked' = asked \ {f}
      /\ Call(f, <<>>)
  BY DEF Begin
<1>2. asked \subseteq File /\ CallsSound(<<>>, asked, {})
  BY <1>1, WalkUnderWay DEF StackSound
<1>3. CallsSound(<<>>, asked \ {f}, {f})
  BY <1>1, <1>2, StartTakes
<1>4. <<>> \in Seq(Frame) /\ asked \ {f} \in SUBSET File
  BY <1>2
<1> QED
  BY <1>1, <1>3, <1>4, CallKept

(* The innermost call, as the steps name it. *)
LEMMA TopHolds ==
    ASSUME WInv, mode = "walking", stack # <<>>
    PROVE  /\ Len(stack) \in Nat /\ Len(stack) \in 1 .. Len(stack)
           /\ Top = stack[Len(stack)] /\ Top \in Frame
           /\ CallSound(Top, {})
           /\ Top.bid \in Build /\ Top.file \in File
           /\ Top.ordering \subseteq File /\ Top.validation \subseteq File
<1>1. stack \in Seq(Frame) /\ StackSound
  BY WalkUnderWay
<1>2. Len(stack) \in Nat /\ Len(stack) \in 1 .. Len(stack) /\ Top = stack[Len(stack)]
  BY <1>1 DEF Top, Last
<1>3. Top \in Frame
  BY <1>1, <1>2
<1>4. InHand(stack, Len(stack), {}) = {}
  BY <1>2 DEF InHand
<1>5. CallSound(Top, {})
  BY <1>1, <1>2, <1>4 DEF StackSound, CallsSound
<1>6. /\ Top.bid \in Build /\ Top.file \in File
      /\ Top.ordering \subseteq File /\ Top.validation \subseteq File
  BY <1>3 DEF Frame
<1> QED
  BY <1>2, <1>3, <1>5, <1>6

(* want_build's two loops: the call for the next input. *)
LEMMA InputKept ==
    ASSUME WInv, NEW f \in File, WantInput(f) \/ WantValidation(f), ~Closes(f)
    PROVE  WInv'
<1>1. /\ mode = "walking" /\ stack # <<>>
      /\ f \in Top.ordering \/ (Top.marked /\ f \in Top.validation)
  BY DEF WantInput, WantValidation
<1> DEFINE n  == Len(stack)
           d1 == [Top EXCEPT !.ordering = @ \ {f}]
           d2 == [Top EXCEPT !.validation = @ \ {f}]
<1>2. /\ n \in Nat /\ n \in 1 .. n /\ Top = stack[n] /\ Top \in Frame
      /\ CallSound(Top, {}) /\ Top.ordering \subseteq File /\ Top.validation \subseteq File
  BY <1>1, TopHolds
<1>3. stack \in Seq(Frame) /\ StackSound /\ asked \in SUBSET File
  BY <1>1, WalkUnderWay
<1>4. \A i \in 1 .. n : stack[i].file # f
  BY <1>3 DEF Closes, OnStack, ToSet
<1>5. \E d \in Frame : /\ CallSound(d, {f}) /\ Call(f, Append(Front(stack), d))
                       /\ d.file = Top.file /\ d.bid = Top.bid /\ d.marked = Top.marked
                       /\ Top.ordering \ {f} \subseteq d.ordering
                       /\ asked' = asked
  <2>1. CASE WantInput(f)
    <3>1. /\ f \in Top.ordering /\ asked' = asked /\ Call(f, Append(Front(stack), d1))
      BY <2>1 DEF WantInput, Visit, Refuse
    <3>2. d1 \in Frame
      BY <1>2 DEF Frame
    <3>3. d1.file = Top.file /\ d1.bid = Top.bid /\ d1.ordering = Top.ordering \ {f}
      BY <1>2 DEF Frame
    <3>4. d1.marked = Top.marked
      BY <1>2 DEF Frame
    <3> HIDE DEF d1
    <3>5. CallSound(d1, {f})
      BY <1>2, <3>1, <3>2, TakesInput DEF d1
    <3> QED
      BY <3>1, <3>2, <3>3, <3>4, <3>5
  <2>2. CASE WantValidation(f)
    <3>1. /\ Top.marked /\ f \in Top.validation /\ asked' = asked
          /\ Call(f, Append(Front(stack), d2))
      BY <2>2 DEF WantValidation, Visit, Refuse
    <3>2. d2 \in Frame
      BY <1>2 DEF Frame
    <3>3. d2.file = Top.file /\ d2.bid = Top.bid /\ d2.ordering = Top.ordering
      BY <1>2 DEF Frame
    <3>4. d2.marked = Top.marked
      BY <1>2 DEF Frame
    <3> HIDE DEF d2
    <3>5. CallSound(d2, {f})
      BY <1>2, <3>1, <3>2, TakesValidation DEF d2
    <3> QED
      BY <3>1, <3>2, <3>3, <3>4, <3>5
  <2> QED
    BY <2>1, <2>2
<1>6. PICK d \in Frame : /\ CallSound(d, {f}) /\ Call(f, Append(Front(stack), d))
                         /\ d.file = Top.file /\ d.bid = Top.bid /\ d.marked = Top.marked
                         /\ Top.ordering \ {f} \subseteq d.ordering
                         /\ asked' = asked
  BY <1>5
<1>7. CallsSound(Append(Front(stack), d), asked, {f})
  BY <1>1, <1>2, <1>3, <1>4, <1>6, TopTakes DEF StackSound
<1>8. Append(Front(stack), d) \in Seq(Frame)
  BY <1>1, <1>3, TopReplaced
<1> QED
  BY <1>1, <1>3, <1>6, <1>7, <1>8, CallKept

(* A call returns. *)
LEMMA ReturnKept == WInv /\ Return => WInv'
<1> SUFFICES ASSUME WInv, Return PROVE WInv'
  OBVIOUS
<1>1. /\ mode = "walking" /\ stack # <<>> /\ Top.marked /\ Top.validation = {}
      /\ stack' = NotReady(Front(stack)) /\ asked' = asked
      /\ UNCHANGED <<vars, mode, deferral, before>>
  BY DEF Return
<1>2. /\ TypeOK /\ MarksSound /\ stack \in Seq(Frame) /\ asked \subseteq File
      /\ CallsSound(stack, asked, {})
  BY <1>1, WalkUnderWay DEF StackSound
<1>3. Top = stack[Len(stack)]
  BY <1>1, TopHolds
<1>4. /\ Front(stack) \in Seq(Frame)
      /\ CallsSound(Front(stack), asked, {Top.file})
      /\ Visited(Top.file)
      /\ graph.producer[Top.file] \notin Done \cup {NoBuild}
  BY <1>1, <1>2, <1>3, CallEnds
<1>5. CallsSound(stack', asked, {})
  BY <1>1, <1>4, CallSettles
<1>6. stack' \in Seq(Frame)
  BY <1>1, <1>4, NotReadyHolds
<1> QED
  BY <1>1, <1>2, <1>5, <1>6, CallsMove

(* A listing is one of the orders a hash set may be walked in. *)
LEMMA ListsSetToSeqs ==
    ASSUME NEW S, NEW q, Lists(q, S)
    PROVE  q \in SetToSeqs(S)
<1>1. Len(q) = Cardinality(S)
  BY ListsSize
<1>2. /\ q \in Seq(S) /\ Len(q) \in Nat
      /\ \A i, j \in 1 .. Len(q) : q[i] = q[j] => i = j
  BY DEF Lists
<1>3. q \in [1 .. Len(q) -> S]
  BY <1>2
<1> QED
  BY <1>1, <1>2, <1>3 DEF SetToSeqs

(* One more edge after the orders of a set without it. *)
LEMMA OneMore ==
    ASSUME NEW S, IsFiniteSet(S), NEW b, b \notin S, NEW q \in SetToSeqs(S)
    PROVE  q \o <<b>> \in SetToSeqs(S \cup {b})
<1>1. Lists(q, S) /\ Lists(<<b>>, {b}) /\ S \cap {b} = {}
  BY SetToSeqsLists, ListsOne
<1>2. Lists(q \o <<b>>, S \cup {b})
  BY <1>1, ListsConcat
<1> QED
  BY <1>2, ListsSetToSeqs

LEMMA ListsNone == <<>> \in SetToSeqs({}) /\ \A b : <<b>> \in SetToSeqs({b})
  BY ListsEmpty, ListsOne, ListsSetToSeqs

(* An edge is ready exactly when the call that marks it has seen all of    *)
(* its inputs built.                                                       *)
LEMMA TopReady ==
    ASSUME WInv, Mark
    PROVE  /\ Top.bid \in Unneeded
           /\ OrderDeps(ordering)[Top.bid] \cap Unneeded = {}
           /\ RecheckReady(ordering, Top.bid) <=> MadeBefore(Top.bid)
           /\ state' = [state EXCEPT ![Top.bid] = IF MadeBefore(Top.bid) THEN "Ready" ELSE "Want"]
           /\ ready' = IF MadeBefore(Top.bid) THEN Append(ready, Top.bid) ELSE ready
           /\ graph.validation[Top.bid] = Top.validation
<1> DEFINE c == Top
           b == Top.bid
<1>1. /\ mode = "walking" /\ stack # <<>> /\ c.ordering = {}
      /\ state' = [state EXCEPT ![b] = IF c.ready THEN "Ready" ELSE "Want"]
      /\ ready' = IF c.ready THEN Append(ready, b) ELSE ready
  BY DEF Mark, InputsWalked
<1>2. ~c.marked
  BY Zenon DEF Mark
<1>3. TypeOK /\ MarksSound /\ c \in Frame /\ CallSound(c, {}) /\ b \in Build
  BY <1>1, WalkUnderWay, TopHolds
<1>4. InputsLeft(c, {})
  BY <1>2, <1>3, Zenon DEF CallSound
<1>5. b \in Unneeded /\ c.validation = graph.validation[b]
  BY <1>4 DEF InputsLeft
<1>6. \A f \in ordering[b] : graph.producer[f] \notin Unneeded
  BY <1>1, <1>3 DEF CallSound, Visited
<1>7. OrderDeps(ordering)[b] = Producers(ordering[b])
  BY <1>3 DEF OrderDeps
<1>8. Producers(ordering[b]) \cap Unneeded = {}
  BY <1>6 DEF Producers
<1>9. c.ready <=> \A f \in (ordering[b] \ c.ordering) \ {} : graph.producer[f] \in Done \cup {NoBuild}
  BY <1>4, Zenon DEF InputsLeft
<1>10. (ordering[b] \ c.ordering) \ {} = ordering[b]
  BY <1>1
<1>11. (\A f \in ordering[b] : graph.producer[f] \in Done \cup {NoBuild})
          <=> (\A p \in Producers(ordering[b]) : p \in Done)
  BY DEF Producers
<1>12. \A p \in Producers(ordering[b]) : p \in Build
  BY <1>3, DepsAreEdges DEF TypeOK
<1>13. (\A p \in Producers(ordering[b]) : p \in Done) <=> MadeBefore(b)
  BY <1>3, <1>12, MarkedStates DEF MadeBefore
<1>14. RecheckReady(ordering, b) <=> (\A p \in Producers(ordering[b]) : p \in Done)
  BY <1>12 DEF RecheckReady, Done
<1>15. c.ready <=> MadeBefore(b)
  BY <1>9, <1>10, <1>11, <1>13, Zenon
<1>16. state' = [state EXCEPT ![b] = IF MadeBefore(b) THEN "Ready" ELSE "Want"]
  <2>1. CASE MadeBefore(b)
    <3>1. c.ready
      BY <1>15, <2>1, Zenon
    <3> QED
      BY <1>1, <2>1, <3>1, Zenon
  <2>2. CASE ~MadeBefore(b)
    <3>1. ~c.ready
      BY <1>15, <2>2, Zenon
    <3> QED
      BY <1>1, <2>2, <3>1, Zenon
  <2> QED
    BY <2>1, <2>2
<1>17. ready' = IF MadeBefore(b) THEN Append(ready, b) ELSE ready
  <2>1. CASE MadeBefore(b)
    <3>1. c.ready
      BY <1>15, <2>1, Zenon
    <3> QED
      BY <1>1, <2>1, <3>1, Zenon
  <2>2. CASE ~MadeBefore(b)
    <3>1. ~c.ready
      BY <1>15, <2>2, Zenon
    <3> QED
      BY <1>1, <2>2, <3>1, Zenon
  <2> QED
    BY <2>1, <2>2
<1> QED
  BY <1>5, <1>7, <1>8, <1>13, <1>14, <1>16, <1>17

(* Marking counts and queues the edge. *)
LEMMA BookkeepingMark == WInv /\ Mark => BInv'
<1> SUFFICES ASSUME WInv, Mark PROVE BInv'
  OBVIOUS
<1> DEFINE b == Top.bid
<1>1. mode = "walking" /\ stack # <<>>
  BY DEF Mark
<1>2. BInv /\ TypeOK /\ OutExact
  BY <1>1, WalkUnderWay DEF BInv
<1>3. /\ b \in Unneeded
      /\ RecheckReady(ordering, b) <=> MadeBefore(b)
      /\ state' = [state EXCEPT ![b] = IF MadeBefore(b) THEN "Ready" ELSE "Want"]
      /\ ready' = IF MadeBefore(b) THEN Append(ready, b) ELSE ready
  BY TopReady
<1> HIDE DEF b
<1>4. b \in Build /\ state[b] = "Unneeded" /\ {b} \in SUBSET Unneeded
  BY <1>3 DEF Unneeded
<1>5. state \in [Build -> BuildState] /\ ready \in Seq(Build) /\ pending \in Nat
  BY <1>2 DEF TypeOK
<1>6. MarkedReady(ordering, {b}) = IF MadeBefore(b) THEN {b} ELSE {}
  BY <1>3 DEF MarkedReady
<1>7. state' = MarkedState(ordering, {b})
  <2>1. \A a \in Build : state'[a] = MarkedState(ordering, {b})[a]
    BY <1>3, <1>4, <1>5, <1>6 DEF MarkedState
  <2>2. state' \in [Build -> BuildState] /\ DOMAIN MarkedState(ordering, {b}) = Build
    BY <1>3, <1>4, <1>5 DEF MarkedState, BuildState
  <2>3. MarkedState(ordering, {b}) = [a \in Build |-> MarkedState(ordering, {b})[a]]
    BY DEF MarkedState
  <2> QED
    BY <2>1, <2>2, <2>3
<1>8. pending' = PendingWith({b})
  <2>1. Cardinality({b}) = 1
    BY FS_Singleton
  <2> QED
    BY <2>1 DEF Mark, Counted, PendingWith
<1>9. \E s \in SetToSeqs(MarkedReady(ordering, {b})) : ready' = ready \o s
  <2>1. CASE MadeBefore(b)
    <3>1. ready' = ready \o <<b>>
      BY <1>3, <1>4, <1>5, <2>1
    <3> QED
      BY <1>6, <2>1, <3>1, ListsNone
  <2>2. CASE ~MadeBefore(b)
    <3>1. ready' = ready \o <<>>
      BY <1>3, <1>5, <2>2
    <3> QED
      BY <1>6, <2>2, <3>1, ListsNone
  <2> QED
    BY <2>1, <2>2
<1>10. /\ state' \in [Build -> BuildState] /\ pending' \in Nat
       /\ ready' \in Seq(Build)
       /\ PendingExact' /\ QueueExact'
       /\ \A a \in Build : state[a] # "Unneeded" => state'[a] = state[a]
  BY <1>2, <1>4, <1>7, <1>8, <1>9, WalkTaken
<1>11. UNCHANGED <<graph, keepGoing, ordering, noDefer, threads, results, running,
                   failed, emitted, todo, phase>>
  BY DEF Mark
<1>12. TypeOK'
  BY <1>2, <1>10, <1>11 DEF TypeOK
<1>13. OutExact'
  <2>1. threads \subseteq Build /\ \A r \in results : r.bid \in Build
    BY <1>2 DEF TypeOK, Result
  <2> QED
    BY <1>2, <1>10, <1>11, <2>1 DEF OutExact
<1> QED
  BY <1>10, <1>12, <1>13 DEF BInv

(* What marking an edge moves. *)
LEMMA MarkMoves ==
    ASSUME WInv, Mark
    PROVE  /\ mode = "walking" /\ stack # <<>>
           /\ Top.bid \in Unneeded /\ Top.bid \in ToMark
           /\ Marked' = Marked \cup {Top.bid}
           /\ Unneeded' = Unneeded \ {Top.bid} /\ Done' = Done
           /\ \A b \in Marked : state'[b] = state[b]
           /\ state'[Top.bid] = IF MadeBefore(Top.bid) THEN "Ready" ELSE "Want"
           /\ UNCHANGED <<graph, keepGoing, ordering, threads, results, todo, phase,
                          mode, asked, deferral, before>>
<1> DEFINE b == Top.bid
<1>1. /\ mode = "walking" /\ stack # <<>>
      /\ UNCHANGED <<graph, keepGoing, ordering, threads, results, todo, phase,
                     mode, asked, deferral, before>>
  BY DEF Mark
<1>2. TypeOK /\ MarksSound /\ b \in ToMark
  BY <1>1, WalkUnderWay, TopHolds DEF CallSound
<1>3. /\ b \in Unneeded
      /\ state' = [state EXCEPT ![b] = IF MadeBefore(b) THEN "Ready" ELSE "Want"]
  BY TopReady
<1> HIDE DEF b
<1>4. b \in Build /\ b \notin Marked /\ Was(b) = "Unneeded" /\ state[b] = "Unneeded"
  BY <1>2, <1>3, MarkedStates DEF Untouched, Unneeded
<1>5. /\ \A a \in Build : a # b => state'[a] = state[a]
      /\ state'[b] = IF MadeBefore(b) THEN "Ready" ELSE "Want"
  BY <1>2, <1>3, <1>4 DEF TypeOK
<1>6. \A a \in Build : Was(a)' = Was(a)
  BY <1>1 DEF Was
<1>7. Marked' = Marked \cup {b}
  BY <1>4, <1>5, <1>6 DEF Marked
<1>8. Unneeded' = Unneeded \ {b} /\ Done' = Done
  BY <1>4, <1>5 DEF Unneeded, Done
<1>9. \A a \in Marked : state'[a] = state[a]
  BY <1>4, <1>5 DEF Marked
<1> QED
  BY <1>1, <1>2, <1>3, <1>5, <1>7, <1>8, <1>9 DEF b

(* The edge marked comes after all that is marked. *)
LEMMA MarksStaySound == WInv /\ Mark => MarksSound'
<1> SUFFICES ASSUME WInv, Mark PROVE MarksSound'
  OBVIOUS
<1> DEFINE b   == Top.bid
           dep == OrderDeps(ordering)
           S   == {a \in Marked : MadeBefore(a)}
<1>1. /\ mode = "walking" /\ stack # <<>>
      /\ b \in Unneeded /\ b \in ToMark
      /\ Marked' = Marked \cup {b}
      /\ Unneeded' = Unneeded \ {b}
      /\ \A a \in Marked : state'[a] = state[a]
      /\ state'[b] = IF MadeBefore(b) THEN "Ready" ELSE "Want"
      /\ UNCHANGED <<graph, ordering, todo, deferral, before>>
  BY MarkMoves
<1>2. TypeOK /\ MarksSound /\ WTypeOK
  BY <1>1, WalkUnderWay
<1>3. /\ OrderDeps(ordering)[b] \cap Unneeded = {}
      /\ ready' = IF MadeBefore(b) THEN Append(ready, b) ELSE ready
  BY TopReady
<1>4. /\ ToMark' = ToMark /\ OrderDeps(ordering)' = dep
      /\ \A a \in Build : MadeBefore(a)' <=> MadeBefore(a)
  BY <1>1, SameWalk
<1>5. b \notin Marked /\ Marked \subseteq Build /\ b \in Build /\ Was(b) = "Unneeded"
  BY <1>1, <1>2, MarkedStates DEF Untouched
<1>6. pending' = pending + 1
  BY DEF Mark, Counted
<1> HIDE DEF b, dep
<1>7. \A a \in Marked' : /\ Was(a)' = "Unneeded"
                         /\ state'[a] = IF MadeBefore(a)' THEN "Ready" ELSE "Want"
  BY <1>1, <1>2, <1>4, <1>5 DEF MarksSound, Was
<1>8. Marked' \subseteq ToMark'
  BY <1>1, <1>2, <1>4 DEF MarksSound
<1>9. \A a \in Marked' : OrderDeps(ordering)'[a] \cap Unneeded' = {}
  BY <1>1, <1>2, <1>3, <1>4 DEF MarksSound, dep
<1>10. Acyclic(Marked \cup {b}, dep)
  <2>1. Acyclic(Marked, dep) /\ \A a \in Marked : dep[a] \cap {b} = {}
    BY <1>1, <1>2 DEF MarksSound, dep
  <2>2. b \notin dep[b]
    BY <1>1, <1>3 DEF dep
  <2>3. Acyclic({b}, dep)
    BY <2>2 DEF Acyclic, Knots
  <2> QED
    BY <2>1, <2>3, AcyclicJoin
<1>11. Acyclic(Marked, OrderDeps(ordering))'
  BY <1>1, <1>4, <1>10 DEF Acyclic, Knots
<1>12. IsFiniteSet(Marked) /\ Cardinality(Marked \cup {b}) = Cardinality(Marked) + 1
  BY <1>5, BuildAssumption, FS_Subset, FS_AddElement
<1>13. pending' = before'.pending + Cardinality(Marked')
  <2>1. Cardinality(Marked) \in Nat /\ before.pending \in Nat
    BY <1>2, <1>12, FS_CardinalityType DEF WTypeOK, Snapshot
  <2>2. pending = before.pending + Cardinality(Marked)
    BY <1>2 DEF MarksSound
  <2> QED
    BY <1>1, <1>6, <1>12, <2>1, <2>2
<1>14. {a \in Marked : MadeBefore(a)}' = IF MadeBefore(b) THEN S \cup {b} ELSE S
  BY <1>1, <1>4, <1>5
<1>15. PICK q \in SetToSeqs(S) : ready = before.ready \o q
  BY <1>2 DEF MarksSound
<1>16. \E p \in SetToSeqs({a \in Marked : MadeBefore(a)}') : ready' = before'.ready \o p
  <2>1. IsFiniteSet(S) /\ b \notin S
    BY <1>5, <1>12, FS_Subset
  <2>2. CASE MadeBefore(b)
    <3>1. q \o <<b>> \in SetToSeqs(S \cup {b})
      <4> HIDE DEF S
      <4> QED
        BY <2>1, OneMore
    <3>2. q \in Seq(Build)
      <4>1. Lists(q, S)
        BY <2>1, SetToSeqsLists
      <4>2. q \in Seq(S) /\ S \subseteq Build
        BY <1>5, <4>1 DEF Lists
      <4> HIDE DEF S
      <4> QED
        BY <4>2, SeqMonotonic
    <3>3. before.ready \in Seq(Build)
      BY <1>2 DEF WTypeOK, Snapshot
    <3>4. ready' = before.ready \o (q \o <<b>>)
      <4>1. Append(before.ready \o q, b) = (before.ready \o q) \o <<b>>
        BY <1>5, <3>2, <3>3
      <4>2. (before.ready \o q) \o <<b>> = before.ready \o (q \o <<b>>)
        <5>1. <<b>> \in Seq(Build)
          BY <1>5
        <5>2. \A v, w, x \in Seq(Build) : (v \o w) \o x = v \o (w \o x)
          BY ConcatAssociative
        <5> QED
          BY <3>2, <3>3, <5>1, <5>2, Zenon
      <4> QED
        BY <1>3, <1>15, <2>2, <4>1, <4>2
    <3>5. {a \in Marked : MadeBefore(a)}' = S \cup {b}
      BY <1>14, <2>2
    <3> QED
      BY <1>1, <3>1, <3>4, <3>5, Zenon
  <2>3. CASE ~MadeBefore(b)
    <3>1. {a \in Marked : MadeBefore(a)}' = S
      BY <1>14, <2>3
    <3>2. ready' = before'.ready \o q
      BY <1>1, <1>3, <1>15, <2>3
    <3> QED
      BY <1>15, <3>1, <3>2, Zenon
  <2> QED
    BY <2>2, <2>3
<1> QED
  BY <1>7, <1>8, <1>9, <1>11, <1>13, <1>16 DEF MarksSound

(* The other open calls stand: none of them is for the edge marked.        *)
LEMMA MarkedOnce ==
    ASSUME WInv, Mark, NEW i \in 1 .. Len(stack), i # Len(stack)
    PROVE  stack[i].bid # Top.bid
<1>1. /\ mode = "walking" /\ stack # <<>> /\ Top.ordering = {}
  BY DEF Mark, InputsWalked
<1>2. Len(stack) \in 1 .. Len(stack) /\ Top = stack[Len(stack)] /\ i < Len(stack)
  BY <1>1, TopHolds
<1>3. Reentered(stack)
  BY <1>1, WalkUnderWay DEF StackSound, CallsSound
<1> QED
  BY <1>1, <1>2, <1>3 DEF Reentered

LEMMA OthersStand ==
    ASSUME WInv, Mark, NEW c \in Frame, NEW H, CallSound(c, H), c.bid # Top.bid
    PROVE  CallSound(c, H)'
<1>1. /\ Marked' = Marked \cup {Top.bid} /\ Unneeded' = Unneeded \ {Top.bid} /\ Done' = Done
      /\ UNCHANGED <<graph, ordering, todo, deferral, before>>
  BY MarkMoves
<1>2. ToMark' = ToMark
  BY <1>1, SameWalk
<1>3. \A f : Visited(f) => Visited(f)'
  BY <1>1 DEF Visited
<1>4. InputsOver(c, H) => InputsOver(c, H)'
  BY <1>1, <1>3 DEF InputsOver
<1>5. InputsLeft(c, H) => InputsLeft(c, H)'
  BY <1>1 DEF InputsLeft
<1>6. /\ c.bid = graph'.producer[c.file] /\ c.bid \in ToMark'
      /\ c.ordering \subseteq ordering'[c.bid]
      /\ c.validation \subseteq graph'.validation[c.bid]
      /\ \A f \in (ordering'[c.bid] \ c.ordering) \ H : Visited(f)'
  BY <1>1, <1>2, <1>3 DEF CallSound
<1> QED
  BY <1>4, <1>5, <1>6, Zenon DEF CallSound

(* The walk stands when it has marked an edge. *)
LEMMA MarkKept == WInv /\ Mark => WInv'
<1> SUFFICES ASSUME WInv, Mark PROVE WInv'
  OBVIOUS
<1> DEFINE n == Len(stack)
<1>a. PICK d : d = [Top EXCEPT !.marked = TRUE]
  OBVIOUS
<1>b. PICK u : u = Append(Front(stack), d)
  OBVIOUS
<1>1. /\ mode = "walking" /\ stack # <<>>
      /\ Top.bid \in Unneeded
      /\ Marked' = Marked \cup {Top.bid}
      /\ Unneeded' = Unneeded \ {Top.bid} /\ Done' = Done
      /\ UNCHANGED <<graph, ordering, threads, results, todo, phase, mode, asked, deferral, before>>
  BY MarkMoves
<1>2. /\ TypeOK /\ WTypeOK /\ MarksSound /\ (FromTargets \/ FromDeferral)
      /\ stack \in Seq(Frame) /\ CallsSound(stack, asked, {})
  BY <1>1, WalkUnderWay DEF StackSound
<1>3. /\ n \in Nat /\ n \in 1 .. n /\ Top = stack[n] /\ Top \in Frame /\ CallSound(Top, {})
      /\ Top.bid \in ToMark
  BY <1>1, TopHolds DEF CallSound
<1>4. /\ d \in Frame /\ d.file = Top.file /\ d.bid = Top.bid /\ d.ordering = Top.ordering
      /\ d.validation = Top.validation
  BY <1>3, <1>a DEF Frame
<1>5. d.marked = TRUE
  BY <1>3, <1>a DEF Frame
<1>6. stack' = u
  BY <1>a, <1>b DEF Mark
<1>7. /\ u \in Seq(Frame) /\ Len(u) = n /\ u[n] = d
      /\ \A i \in 1 .. n - 1 : u[i] = stack[i]
  BY <1>1, <1>2, <1>4, <1>b, TopReplaced
<1>8. /\ \A i \in 1 .. n : i # n => u[i] = stack[i]
      /\ \A i \in 1 .. n : u[i].file = stack[i].file /\ u[i].bid = stack[i].bid
                           /\ u[i].ordering = stack[i].ordering
  <2> SUFFICES ASSUME NEW i \in 1 .. n
               PROVE  /\ i # n => u[i] = stack[i]
                      /\ u[i].file = stack[i].file /\ u[i].bid = stack[i].bid
                      /\ u[i].ordering = stack[i].ordering
    OBVIOUS
  <2>1. CASE i = n
    BY <1>3, <1>4, <1>7, <2>1
  <2>2. CASE i # n
    <3>1. i \in 1 .. n - 1
      BY <1>3, <2>2
    <3> QED
      BY <1>7, <2>2, <3>1
  <2> QED
    BY <2>1, <2>2
<1>9. ToMark' = ToMark /\ Start' = Start
  BY <1>1, SameWalk
<1>10. Top.ordering = {} /\ graph.validation[Top.bid] = Top.validation
  BY TopReady DEF Mark, InputsWalked
<1>11. CallSound(d, {})'
  <2>1. InputsOver(d, {})'
    BY <1>1, <1>4, <1>10 DEF InputsOver
  <2>2. /\ \A f \in ordering[Top.bid] : graph.producer[f] \notin Unneeded
        /\ Top.bid = graph.producer[Top.file]
    BY <1>3, <1>10 DEF CallSound, Visited
  <2>3. \A f \in ordering[Top.bid] : Visited(f)'
    BY <1>1, <2>2 DEF Visited
  <2>4. /\ d.bid = graph'.producer[d.file] /\ d.bid \in ToMark'
        /\ d.ordering \subseteq ordering'[d.bid]
        /\ d.validation \subseteq graph'.validation[d.bid]
        /\ \A f \in (ordering'[d.bid] \ d.ordering) \ {} : Visited(f)'
    BY <1>1, <1>3, <1>4, <1>9, <1>10, <2>2, <2>3 DEF CallSound
  <2> QED
    BY <1>5, <2>1, <2>4, Zenon DEF CallSound
<1>12. \A i \in 1 .. n : InHand(u, i, {}) = InHand(stack, i, {})
  <2> SUFFICES ASSUME NEW i \in 1 .. n PROVE InHand(u, i, {}) = InHand(stack, i, {})
    OBVIOUS
  <2>1. CASE i < n
    <3>1. i + 1 \in 1 .. n
      BY <1>3, <2>1
    <3> QED
      BY <1>7, <1>8, <2>1, <3>1 DEF InHand
  <2>2. CASE ~(i < n)
    BY <1>7, <2>2 DEF InHand
  <2> QED
    BY <2>1, <2>2
<1>13. ASSUME NEW i \in 1 .. n PROVE CallSound(u[i], InHand(u, i, {}))'
  <2>1. CASE i = n
    <3>1. InHand(u, i, {}) = {}
      BY <1>3, <1>7, <2>1 DEF InHand
    <3> QED
      BY <1>7, <1>11, <2>1, <3>1
  <2>2. CASE i # n
    <3>0. PICK c, H : c = stack[i] /\ H = InHand(stack, i, {})
      OBVIOUS
    <3>1. c \in Frame /\ c = stack[i] /\ H = InHand(stack, i, {}) /\ CallSound(c, H)
      BY <1>2, <3>0 DEF CallsSound
    <3>2. c.bid # Top.bid
      BY <2>2, <3>1, MarkedOnce
    <3>3. CallSound(c, H)'
      BY <3>1, <3>2, OthersStand
    <3>4. c = u[i] /\ H = InHand(u, i, {})
      BY <1>8, <1>12, <2>2, <3>1
    <3> QED
      BY <3>3, <3>4
  <2> QED
    BY <2>1, <2>2
<1>14. Reentered(u)
  <2> SUFFICES ASSUME NEW i \in 1 .. n, NEW j \in 1 .. n, i < j, u[i].bid = u[j].bid
               PROVE  u[i + 1].file \in u[j].ordering
    BY <1>7 DEF Reentered
  <2>1. i + 1 \in 1 .. n
    BY <1>3
  <2> QED
    BY <1>2, <1>8, <2>1 DEF CallsSound, Reentered
<1>15. \A f : Visited(f) => Visited(f)'
  BY <1>1 DEF Visited
<1>16. ValidationOwed(u)'
  <2> SUFFICES ASSUME NEW b \in Marked', ~ \A g \in graph'.validation[b] : Visited(g)'
               PROVE  \E i \in 1 .. Len(u) : u[i].bid = b /\ u[i].marked
    BY Zenon DEF ValidationOwed
  <2>1. CASE b = Top.bid
    BY <1>3, <1>4, <1>5, <1>7, <2>1, Zenon
  <2>2. CASE b # Top.bid
    <3>1. b \in Marked /\ ~ \A g \in graph.validation[b] : Visited(g)
      BY <1>1, <1>15, <2>2
    <3>2. PICK i \in 1 .. n : stack[i].bid = b /\ stack[i].marked
      BY <1>2, <3>1, Zenon DEF CallsSound, ValidationOwed
    <3>3. i # n
      BY <1>3, <2>2, <3>2
    <3> QED
      BY <1>7, <1>8, <3>2, <3>3, Zenon
  <2> QED
    BY <2>1, <2>2
<1>17. StartOwed(u, asked, {})'
  <2>1. u # <<>> /\ 1 \in 1 .. n
    BY <1>3, <1>7
  <2>2. Root(u, {}) = Root(stack, {})
    BY <1>1, <1>8, <2>1 DEF Root
  <2>3. PICK R, A : R = Root(u, {}) /\ A = asked
    OBVIOUS
  <2>4. A \subseteq Start' /\ R \subseteq Start' /\ \A f \in Start' \ A : Visited(f)' \/ f \in R
    BY <1>2, <1>9, <1>15, <2>2, <2>3 DEF CallsSound, StartOwed
  <2> QED
    BY <1>1, <2>3, <2>4 DEF StartOwed, Root
<1>18. StackSound'
  BY <1>1, <1>6, <1>7, <1>13, <1>14, <1>16, <1>17 DEF StackSound, CallsSound, Reentered
<1>19. WTypeOK'
  BY <1>1, <1>2, <1>6, <1>7 DEF WTypeOK
<1>20. (FromTargets \/ FromDeferral)'
  <2>1. \A b \in Build : state[b] = "Running" => state'[b] = "Running"
    BY <1>1, <1>2 DEF Mark, Unneeded, TypeOK
  <2> QED
    BY <1>1, <1>2, <2>1, SameCaller
<1>21. BInv' /\ MarksSound'
  BY BookkeepingMark, MarksStaySound
<1> QED
  BY <1>1, <1>18, <1>19, <1>20, <1>21 DEF WInv, Walking

-----------------------------------------------------------------------------
(* Around a walk: where it starts and how it ends.                         *)

(* Nothing is marked, and every file is still to be called for. *)
LEMMA NothingYet ==
    ASSUME TypeOK, before' = Seen, state' = state, pending' = pending, ready' = ready,
           stack' = <<>>, asked' = Start'
    PROVE  MarksSound' /\ StackSound' /\ before' \in Snapshot
<1>1. Marked' = {}
  BY DEF Marked, Was, Seen
<1>2. before' \in Snapshot /\ before'.pending = pending /\ before'.ready = ready
  BY DEF TypeOK, Snapshot, Seen
<1>3. {b \in Marked : MadeBefore(b)}' = {}
  BY <1>1
<1>4. ready' = before'.ready \o <<>> /\ pending' = before'.pending + Cardinality(Marked')
  BY <1>1, <1>2, FS_EmptySet DEF TypeOK
<1>5. \E q \in SetToSeqs({b \in Marked : MadeBefore(b)}') : ready' = before'.ready \o q
  BY <1>3, <1>4, ListsNone
<1>6. Acyclic(Marked, OrderDeps(ordering))'
  BY <1>1 DEF Acyclic, Knots
<1>7. MarksSound'
  BY <1>1, <1>4, <1>5, <1>6 DEF MarksSound
<1>8. StackSound'
  <2>1. /\ \A i \in 1 .. Len(stack') : CallSound(stack[i], InHand(stack, i, {}))'
        /\ Reentered(stack)' /\ ValidationOwed(stack)'
    BY <1>1 DEF Reentered, ValidationOwed
  <2>2. StartOwed(stack, asked, {})'
    BY DEF StartOwed, Root
  <2> QED
    BY <2>1, <2>2 DEF StackSound, CallsSound
<1> QED
  BY <1>2, <1>7, <1>8

LEMMA WantNextKept == WInv /\ WantNextTarget => WInv'
<1> SUFFICES ASSUME WInv, WantNextTarget PROVE WInv'
  OBVIOUS
<1>1. /\ mode = "idle" /\ phase = "want" /\ todo # <<>> /\ mode' = "walking"
      /\ asked' = {Head(todo)} /\ before' = Seen
      /\ UNCHANGED <<vars, stack, deferral>>
  BY DEF WantNextTarget
<1>2. BInv /\ TypeOK /\ WTypeOK /\ stack = <<>> /\ deferral = {}
  BY <1>1 DEF WInv, Quiet, BInv
<1>3. /\ graph' = graph /\ ordering' = ordering /\ state' = state /\ pending' = pending
      /\ ready' = ready /\ todo' = todo /\ phase' = phase /\ deferral' = {} /\ stack' = <<>>
  BY <1>1, <1>2 DEF vars
<1>4. BInv'
  BY <1>1, <1>2 DEF vars, BInv, TypeOK, PendingExact, Owed, QueueExact, ReadySet, ReadyIn, OutExact
<1>5. asked' = Start' /\ asked' \subseteq File
  BY <1>1, <1>2, <1>3 DEF Start, TypeOK
<1>6. MarksSound' /\ StackSound' /\ before' \in Snapshot
  BY <1>1, <1>2, <1>3, <1>5, NothingYet
<1>7. WTypeOK'
  BY <1>1, <1>2, <1>3, <1>5, <1>6 DEF WTypeOK
<1>8. FromTargets'
  BY <1>1, <1>3 DEF FromTargets, Seen
<1> QED
  BY <1>1, <1>4, <1>6, <1>7, <1>8 DEF WInv, Walking

LEMMA WantDeferredKept ==
    ASSUME WInv, NEW r \in results, WantDeferred(r)
    PROVE  WInv'
<1>1. /\ mode = "idle" /\ Receive(r) /\ r.kind = "deferred" /\ NewIds(r) # {}
      /\ ~ProducerCycle(r.bid, Producers(NewIds(r)))
      /\ ordering' = WithImplicitInputs(r.bid, NewIds(r))
      /\ mode' = "walking" /\ asked' = NewIds(r) /\ deferral' = {r} /\ before' = Seen
      /\ UNCHANGED <<state, pending, ready, noDefer, failed, phase, stack>>
  BY DEF WantDeferred
<1>2. BInv /\ TypeOK /\ OutExact /\ PendingExact /\ QueueExact /\ WTypeOK /\ stack = <<>>
  BY <1>1 DEF WInv, Quiet, BInv
<1>3. /\ r \in Result /\ r.bid \in Build /\ r.fids \subseteq File
      /\ state[r.bid] = "Running" /\ r.bid \notin threads
      /\ \A q \in results' : q.bid # r.bid
  BY <1>1, <1>2, Taking
<1>4. /\ graph' = graph /\ threads' = threads /\ phase = "run" /\ ready = <<>>
  BY <1>1 DEF Receive
<1>5. BInv'
  <2>1. OutExact'
    BY <1>1, <1>2, StillOut
  <2>2. ordering' \in [Build -> SUBSET File]
    BY <1>1, <1>2, EditTypes
  <2>3. TypeOK'
    <3>1. /\ state' \in [Build -> BuildState]
          /\ pending' \in Nat /\ ready' \in Seq(Build) /\ noDefer' \subseteq Build
          /\ failed' \in Nat /\ phase' \in {"want", "run", "ok", "failed", "abort"}
      BY <1>1, <1>2 DEF TypeOK
    <3> QED
      BY <1>1, <1>2, <2>2, <3>1, TakingTypes
  <2>4. PendingExact' /\ QueueExact'
    BY <1>1, <1>2 DEF PendingExact, Owed, QueueExact, ReadySet, ReadyIn
  <2> QED
    BY <2>1, <2>3, <2>4 DEF BInv
<1>6. NewOf(r)' = NewIds(r)
  BY <1>1 DEF NewOf, NewIds, Seen
<1>7. asked' = Start' /\ asked' \subseteq File
  <2>1. Start' = NewIds(r)
    BY <1>1, <1>6 DEF Start
  <2> QED
    BY <1>1, <1>3, <2>1 DEF NewIds
<1>8. MarksSound' /\ StackSound' /\ before' \in Snapshot
  BY <1>1, <1>2, <1>7, NothingYet
<1>9. WTypeOK'
  BY <1>1, <1>2, <1>3, <1>7, <1>8 DEF WTypeOK
<1>10. FromDeferral'
  <2>1. before'.ready = <<>> /\ before'.ordering = ordering /\ before'.state = state
    BY <1>1, <1>4 DEF Seen
  <2>2. r.bid \notin Reach(Producers(NewIds(r)), OrderDeps(ordering))
    BY <1>1 DEF ProducerCycle
  <2>3. Producers(NewOf(r))' = Producers(NewIds(r)) /\ OrderDeps(before.ordering)' = OrderDeps(ordering)
    BY <1>4, <1>6, <2>1 DEF Producers, OrderDeps
  <2>4. Reach(Producers(NewOf(r)), OrderDeps(before.ordering))'
           = Reach(Producers(NewIds(r)), OrderDeps(ordering))
    BY <2>3 DEF Reach
  <2>5. ordering' = [before'.ordering EXCEPT ![r.bid] = @ \cup (NewOf(r)' \ graph'.validation[r.bid])]
    BY <1>1, <1>4, <1>6, <2>1 DEF WithImplicitInputs
  <2>6. Was(r.bid)' = "Running" /\ state'[r.bid] = "Running"
    BY <1>1, <1>3, <2>1 DEF Was
  <2>7. r.bid \notin threads' /\ NewOf(r)' # {} /\ phase' = "run"
    BY <1>1, <1>3, <1>4, <1>6
  <2> QED
    BY <1>1, <1>3, <2>1, <2>2, <2>4, <2>5, <2>6, <2>7 DEF FromDeferral
<1> QED
  BY <1>1, <1>5, <1>8, <1>9, <1>10 DEF WInv, Walking

(* A task thread ends while the main thread is anywhere. *)
LEMMA TaskKept ==
    ASSUME WInv, NEW b \in Build, Task(b), UNCHANGED wvars
    PROVE  WInv'
<1>1. BInv /\ WTypeOK /\ TypeOK
  BY DEF WInv, BInv
<1>2. /\ mode' = mode /\ asked' = asked /\ stack' = stack /\ deferral' = deferral
      /\ before' = before
  BY DEF wvars
<1>3. /\ UNCHANGED <<graph, keepGoing, ordering, state, pending, ready, todo, phase>>
      /\ b \in threads /\ threads' = threads \ {b}
      /\ \E a : a.bid = b /\ results' = results \cup {a}
  BY DEF Task, TaskEmits, TaskFails, TaskDefers, Answer
<1>4. BInv'
  BY <1>1, BookkeepingTask
<1>5. WTypeOK'
  BY <1>1, <1>2 DEF WTypeOK
<1>6. CASE mode # "walking"
  <2>1. Quiet'
    BY <1>2, <1>3, <1>6 DEF WInv, Quiet
  <2> QED
    BY <1>2, <1>4, <1>5, <1>6, <2>1 DEF WInv
<1>7. CASE mode = "walking"
  <2>1. MarksSound /\ StackSound /\ (FromTargets \/ FromDeferral)
    BY <1>7, WalkUnderWay
  <2>2. (FromTargets \/ FromDeferral)'
    BY <1>1, <1>2, <1>3, <2>1, SameCaller
  <2>3. MarksSound' /\ StackSound'
    BY <1>1, <1>2, <1>3, <2>1, NothingMarked DEF StackSound
  <2> QED
    BY <1>2, <1>4, <1>5, <1>7, <2>2, <2>3 DEF WInv, Walking
<1> QED
  BY <1>6, <1>7

(* The rest of the run loop, while no walk is under way. *)
LEMMA IdleKept == WInv /\ MainIdle => WInv'
<1> SUFFICES ASSUME WInv, MainIdle PROVE WInv'
  OBVIOUS
<1>1. BInv /\ WTypeOK /\ mode = "idle" /\ Quiet
  BY DEF WInv, MainIdle
<1>2. Next /\ UNCHANGED wvars
  BY DEF MainIdle, Next, Main, Handle
<1>3. BInv'
  BY <1>1, <1>2, BookkeepingStep
<1>4. WTypeOK' /\ mode' = "idle" /\ Quiet'
  BY <1>1, <1>2 DEF WTypeOK, Quiet, wvars
<1> QED
  BY <1>3, <1>4 DEF WInv

LEMMA StoppedKept == WInv /\ UNCHANGED allVars => WInv'
<1> SUFFICES ASSUME WInv, UNCHANGED allVars PROVE WInv'
  OBVIOUS
<1>1. /\ mode' = mode /\ asked' = asked /\ stack' = stack /\ deferral' = deferral
      /\ before' = before
      /\ UNCHANGED vars
  BY DEF allVars, wvars
<1>2. BInv /\ WTypeOK
  BY DEF WInv
<1>3. CASE mode # "walking"
  <2>1. BInv' /\ WTypeOK' /\ Quiet'
    BY <1>1, <1>2, <1>3, BookkeepingStep DEF WInv, Quiet, WTypeOK, vars
  <2> QED
    BY <1>1, <1>3, <2>1 DEF WInv
<1>4. CASE mode = "walking"
  <2>1. stack' \in Seq(Frame) /\ asked' \subseteq File /\ CallsSound(stack', asked', {})
    BY <1>1, <1>4, WalkUnderWay DEF StackSound
  <2> QED
    BY <1>1, <1>4, <2>1, CallsMove
<1> QED
  BY <1>3, <1>4

(* A walk that is over has marked all it was to mark. *)
LEMMA WalkComplete == WInv /\ Walked => Marked = ToMark
<1> SUFFICES ASSUME WInv, Walked PROVE Marked = ToMark
  OBVIOUS
<1>1. mode = "walking" /\ stack = <<>> /\ asked = {}
  BY DEF Walked
<1>2. TypeOK /\ MarksSound /\ StackSound /\ Start \subseteq File
  BY <1>1, WalkUnderWay
<1>3. /\ Marked \subseteq Build /\ Marked \subseteq ToMark
      /\ \A b \in Untouched : b \notin Unneeded => b \in Marked
  BY <1>2, MarkedStates DEF MarksSound
<1>4. Producers(Start) \cap Untouched \subseteq Marked
  <2>1. \A f \in Start : Visited(f)
    BY <1>1, <1>2 DEF StackSound, CallsSound, StartOwed, Root
  <2> QED
    BY <1>3, <2>1 DEF Producers, Visited
<1>5. ASSUME NEW b \in Marked PROVE WalkDep[b] \subseteq Marked
  <2>1. OrderDeps(ordering)[b] \cap Unneeded = {}
    BY <1>2 DEF MarksSound
  <2>2. \A f \in graph.validation[b] : Visited(f)
    BY <1>1, <1>2 DEF StackSound, CallsSound, ValidationOwed
  <2>3. Producers(graph.validation[b]) \cap Unneeded = {}
    BY <2>2 DEF Producers, Visited
  <2>4. WalkDep[b] = (OrderDeps(ordering)[b] \cup Producers(graph.validation[b])) \cap Untouched
    BY <1>3 DEF WalkDep, WalkDeps, OrderDeps
  <2> QED
    BY <1>3, <2>1, <2>3, <2>4
<1>6. ToMark \subseteq Marked
  BY <1>3, <1>4, <1>5 DEF ToMark, Reach
<1> QED
  BY <1>3, <1>6

(* A file that is open already closes a cycle of the edges to be marked.   *)
LEMMA KnotMet ==
    ASSUME WInv, NEW f \in File, WantInput(f) \/ WantValidation(f), Closes(f)
    PROVE  ~Acyclic(ToMark, WalkDeps(ordering))
<1> DEFINE n == Len(stack)
<1>1. /\ mode = "walking" /\ stack # <<>>
      /\ f \in Top.ordering \/ (Top.marked /\ f \in Top.validation)
  BY DEF WantInput, WantValidation
<1>2. TypeOK /\ MarksSound /\ StackSound /\ Start \subseteq File /\ stack \in Seq(Frame)
  BY <1>1, WalkUnderWay
<1>3. n \in Nat /\ n \in 1 .. n /\ Top = stack[n] /\ CallSound(Top, {})
  BY <1>1, TopHolds
<1>4. PICK j \in 1 .. n : stack[j].file = f
  BY <1>2 DEF Closes, OnStack, ToSet
<1> DEFINE T == {stack[i].bid : i \in j .. n}
<1>5. \A i \in 1 .. n : CallSound(stack[i], InHand(stack, i, {}))
  BY <1>2 DEF StackSound, CallsSound
<1>6. ToMark \subseteq Build
  BY <1>2, ToMarkHolds
<1>7. \A i \in 1 .. n : /\ stack[i].bid \in ToMark /\ stack[i].bid \in Build
                        /\ stack[i].bid = graph.producer[stack[i].file]
  BY <1>5, <1>6 DEF CallSound
<1>8. ASSUME NEW i \in 1 .. n, NEW g,
             g \in ordering[stack[i].bid] \/ g \in graph.validation[stack[i].bid],
             graph.producer[g] \in Build
      PROVE  graph.producer[g] \in WalkDeps(ordering)[stack[i].bid]
  BY <1>7, <1>8, NoBuildAssumption DEF WalkDeps, Producers
<1>9. ASSUME NEW i \in j .. n PROVE WalkDeps(ordering)[stack[i].bid] \cap T # {}
  <2>1. i \in 1 .. n
    BY <1>3
  <2>2. CASE i = n
    <3>1. f \in ordering[stack[n].bid] \/ f \in graph.validation[stack[n].bid]
      BY <1>1, <1>3 DEF CallSound
    <3>2. graph.producer[f] = stack[j].bid /\ graph.producer[f] \in Build
      BY <1>4, <1>7
    <3>3. graph.producer[f] \in WalkDeps(ordering)[stack[i].bid]
      BY <1>8, <2>1, <2>2, <3>1, <3>2
    <3>4. j \in j .. n
      BY <1>3
    <3> QED
      BY <3>2, <3>3, <3>4
  <2>3. CASE i # n
    <3>1. i < n /\ i + 1 \in j .. n /\ i + 1 \in 1 .. n
      BY <1>3, <2>3
    <3>2. InHand(stack, i, {}) = {stack[i + 1].file}
      BY <3>1 DEF InHand
    <3>3. InputsOver(stack[i], {stack[i + 1].file}) \/ InputsLeft(stack[i], {stack[i + 1].file})
      BY <1>5, <2>1, <3>2, Zenon DEF CallSound
    <3>4. stack[i + 1].file \in ordering[stack[i].bid] \/ stack[i + 1].file \in graph.validation[stack[i].bid]
      BY <3>3 DEF InputsOver, InputsLeft
    <3>5. stack[i + 1].bid = graph.producer[stack[i + 1].file] /\ stack[i + 1].bid \in Build
      BY <1>7, <3>1
    <3>6. stack[i + 1].bid \in WalkDeps(ordering)[stack[i].bid]
      BY <1>8, <2>1, <3>4, <3>5
    <3> QED
      BY <3>1, <3>6
  <2> QED
    BY <2>2, <2>3
<1>10. T \subseteq ToMark /\ T # {}
  <2>1. j \in j .. n /\ \A i \in j .. n : i \in 1 .. n
    BY <1>3
  <2> QED
    BY <1>7, <2>1
<1>11. T \in Knots(ToMark, WalkDeps(ordering))
  BY <1>9, <1>10 DEF Knots
<1> QED
  BY <1>11 DEF Acyclic

LEMMA TargetWantedKept == WInv /\ TargetWanted => WInv'
<1> SUFFICES ASSUME WInv, TargetWanted PROVE WInv'
  OBVIOUS
<1>1. /\ mode = "walking" /\ stack = <<>> /\ asked = {} /\ deferral = {} /\ mode' = "idle"
      /\ todo' = Tail(todo)
      /\ UNCHANGED <<graph, keepGoing, ordering, state, pending, ready, noDefer,
                     threads, results, running, failed, emitted, phase>>
      /\ UNCHANGED <<asked, stack, deferral, before>>
  BY DEF TargetWanted, Walked
<1>2. BInv /\ TypeOK /\ WTypeOK /\ FromTargets
  BY <1>1, WalkUnderWay DEF FromDeferral
<1>3. todo' \in Seq(File)
  BY <1>1, <1>2 DEF TypeOK, FromTargets
<1>4. BInv'
  BY <1>1, <1>2, <1>3 DEF BInv, TypeOK, PendingExact, Owed, QueueExact, ReadySet, ReadyIn, OutExact
<1>5. WTypeOK' /\ Quiet'
  BY <1>1, <1>2 DEF WTypeOK, Quiet
<1> QED
  BY <1>1, <1>4, <1>5 DEF WInv

LEMMA DeferredWantedKept ==
    ASSUME WInv, NEW r \in deferral, DeferredWanted(r)
    PROVE  WInv'
<1> DEFINE free == RecheckReady(ordering, r.bid)
<1>1. /\ mode = "walking" /\ stack = <<>> /\ asked = {} /\ mode' = "idle" /\ deferral' = {}
      /\ state' = [state EXCEPT ![r.bid] = IF free THEN "Ready" ELSE "Want"]
      /\ ready' = IF free THEN Append(ready, r.bid) ELSE ready
      /\ UNCHANGED <<graph, keepGoing, ordering, pending, noDefer, threads, results,
                     running, failed, emitted, todo, phase, asked, stack, before>>
  BY DEF DeferredWanted, Walked
<1>2. BInv /\ TypeOK /\ WTypeOK /\ PendingExact /\ QueueExact /\ OutExact /\ FromDeferral
  BY <1>1, WalkUnderWay DEF FromTargets, BInv
<1>3. /\ r \in Result /\ state[r.bid] = "Running" /\ r.bid \notin threads
      /\ \A q \in results : q.bid # r.bid
  BY <1>2 DEF FromDeferral
<1>4. r.bid \in Build /\ state \in [Build -> BuildState] /\ ready \in Seq(Build)
  BY <1>2, <1>3 DEF TypeOK, Result
<1> HIDE DEF free
<1>5. /\ state' \in [Build -> BuildState]
      /\ state'[r.bid] = IF free THEN "Ready" ELSE "Want"
      /\ \A b \in Build : b # r.bid => state'[b] = state[b]
  BY <1>1, <1>4 DEF BuildState
<1>6. PendingExact'
  <2>1. Owed' = Owed
    BY <1>3, <1>4, <1>5 DEF Owed
  <2> QED
    BY <1>1, <1>2, <2>1 DEF PendingExact
<1>7. QueueExact' /\ ready' \in Seq(Build)
  <2>1. CASE free
    <3>1. ready' = ready \o <<r.bid>> /\ ready' \in Seq(Build)
      BY <1>1, <1>4, <2>1
    <3>2. ReadySet' = ReadySet \cup {r.bid} /\ ReadySet \cap {r.bid} = {}
      BY <1>3, <1>4, <1>5, <2>1 DEF ReadySet, ReadyIn
    <3>3. Lists(<<r.bid>>, {r.bid})
      BY ListsOne
    <3>4. Lists(ready', ReadySet')
      BY <1>2, <3>1, <3>2, <3>3, ListsConcat DEF QueueExact
    <3> QED
      BY <3>1, <3>4 DEF QueueExact
  <2>2. CASE ~free
    <3>1. ReadySet' = ReadySet
      BY <1>3, <1>4, <1>5, <2>2 DEF ReadySet, ReadyIn
    <3> QED
      BY <1>1, <1>2, <1>4, <2>2, <3>1 DEF QueueExact
  <2> QED
    BY <2>1, <2>2
<1>8. OutExact'
  <2>1. threads \subseteq Build /\ \A q \in results : q.bid \in Build
    BY <1>2 DEF TypeOK, Result
  <2> QED
    BY <1>1, <1>2, <1>3, <1>5, <2>1 DEF OutExact
<1>9. TypeOK'
  BY <1>1, <1>2, <1>5, <1>7 DEF TypeOK
<1>10. WTypeOK' /\ Quiet'
  BY <1>1, <1>2 DEF WTypeOK, Quiet
<1> QED
  BY <1>1, <1>6, <1>7, <1>8, <1>9, <1>10 DEF WInv, BInv

LEMMA RefuseKept ==
    ASSUME WInv, NEW f, Refuse(f)
    PROVE  WInv'
<1>1. /\ stack' = <<>> /\ asked' = {} /\ deferral' = {}
      /\ UNCHANGED <<graph, keepGoing, ordering, state, pending, ready, noDefer,
                     threads, results, running, emitted, todo, before>>
      /\ \/ mode' = "refused" /\ phase' = "abort" /\ failed' = failed
         \/ mode' = "idle" /\ phase' \in {"run", "abort"} /\ failed' = failed + 1
  BY DEF Refuse
<1>2. BInv /\ TypeOK /\ WTypeOK
  BY DEF WInv, BInv
<1>3. failed' \in Nat /\ phase' \in {"want", "run", "ok", "failed", "abort"}
  BY <1>1, <1>2 DEF TypeOK
<1>4. BInv'
  BY <1>1, <1>2, <1>3 DEF BInv, TypeOK, PendingExact, Owed, QueueExact, ReadySet, ReadyIn, OutExact
<1>5. WTypeOK' /\ Quiet' /\ mode' # "walking"
  BY <1>1, <1>2 DEF WTypeOK, Quiet
<1> QED
  BY <1>4, <1>5 DEF WInv

-----------------------------------------------------------------------------
(* The invariant.                                                          *)

LEMMA WalkInit == WInit => WInv
<1> SUFFICES ASSUME WInit PROVE WInv
  OBVIOUS
<1>1. BInv
  BY BookkeepingInit DEF WInit
<1>2. before \in Snapshot
  BY <1>1 DEF WInit, Seen, Snapshot, BInv, TypeOK
<1>3. WTypeOK /\ mode = "idle" /\ Quiet
  BY <1>2 DEF WInit, WTypeOK, Quiet
<1> QED
  BY <1>1, <1>3 DEF WInv

LEMMA WalkStep == WInv /\ [WNext]_allVars => WInv'
<1> SUFFICES ASSUME WInv, [WNext]_allVars PROVE WInv'
  OBVIOUS
<1>1. CASE UNCHANGED allVars
  BY <1>1, StoppedKept
<1>2. CASE Stopped /\ UNCHANGED wvars
  <2>1. UNCHANGED allVars
    BY <1>2 DEF Stopped, allVars
  <2> QED
    BY <2>1, StoppedKept
<1>3. ASSUME NEW b \in Build, Task(b), UNCHANGED wvars PROVE WInv'
  BY <1>3, TaskKept
<1>4. CASE MainIdle
  BY <1>4, IdleKept
<1>5. CASE WantNextTarget
  BY <1>5, WantNextKept
<1>6. ASSUME NEW r \in results, WantDeferred(r) PROVE WInv'
  BY <1>6, WantDeferredKept
<1>7. ASSUME NEW f \in File, Begin(f) PROVE WInv'
  BY <1>7, BeginKept
<1>8. ASSUME NEW f \in File, WantInput(f) \/ WantValidation(f) PROVE WInv'
  <2>1. CASE Closes(f)
    <3>1. Refuse(f)
      BY <1>8, <2>1 DEF WantInput, WantValidation, Visit, Call
    <3> QED
      BY <3>1, RefuseKept
  <2>2. CASE ~Closes(f)
    BY <1>8, <2>2, InputKept
  <2> QED
    BY <2>1, <2>2
<1>9. CASE Mark
  BY <1>9, MarkKept
<1>10. CASE Return
  BY <1>10, ReturnKept
<1>11. CASE TargetWanted
  BY <1>11, TargetWantedKept
<1>12. ASSUME NEW r \in deferral, DeferredWanted(r) PROVE WInv'
  BY <1>12, DeferredWantedKept
<1> QED
  BY <1>1, <1>2, <1>3, <1>4, <1>5, <1>6, <1>7, <1>8, <1>9, <1>10, <1>11, <1>12 DEF WNext, Walk

LEMMA WalkAlways == WSpec => []WInv
  BY WalkInit, WalkStep, PTL DEF WSpec

-----------------------------------------------------------------------------
(* The refinement: what Scheduler sees of each step.                       *)

LEMMA SchedInit == WInit => Sched!Init
<1> SUFFICES ASSUME WInit PROVE Sched!Init
  OBVIOUS
<1>1. ~Hidden /\ deferral = {} /\ Init
  BY DEF WInit, Hidden
<1>2. results \cup deferral = {} /\ running + Cardinality(deferral) = 0
  BY <1>1, FS_EmptySet DEF Init, Fresh
<1> QED
  BY <1>1, <1>2 DEF Init, Fresh, Sched!Init, Sched!Fresh

(* The library's operators are the same through the instance. *)
LEMMA SameCount == \A S : Sched!Cardinality(S) = Cardinality(S)
  BY DEF Sched!Cardinality, Cardinality

LEMMA SameOrders == \A S : Sched!SetToSeqs(S) = SetToSeqs(S)
  BY SameCount DEF Sched!SetToSeqs, SetToSeqs

(* Scheduler's operators on a walk, in the terms of the invariant. *)
LEMMA SeenWalk ==
    ASSUME WInv, mode = "walking"
    PROVE  /\ \A F : Sched!Producers(F) = Producers(F)
           /\ \A ord : /\ Sched!OrderDeps(ord) = OrderDeps(ord)
                       /\ Sched!WalkDeps(ord) = WalkDeps(ord)
           /\ \A S, dep : /\ Sched!Reach(S, dep) = Reach(S, dep)
                          /\ Sched!Acyclic(S, dep) <=> Acyclic(S, dep)
           /\ Sched!Unneeded = Untouched
           /\ Sched!NewlyWanted(ordering, Start) = ToMark
           /\ \A b \in Build : Sched!RecheckReady(ordering, b) <=> MadeBefore(b)
           /\ Sched!MarkedReady(ordering, Marked) = {b \in Marked : MadeBefore(b)}
<1>1. Hidden
  BY DEF Hidden
<1>2. \A F : Sched!Producers(F) = Producers(F)
  BY DEF Sched!Producers, Producers
<1>3. \A ord : /\ Sched!OrderDeps(ord) = OrderDeps(ord)
               /\ Sched!WalkDeps(ord) = WalkDeps(ord)
  BY <1>2 DEF Sched!OrderDeps, OrderDeps, Sched!WalkDeps, WalkDeps
<1>4. \A S, dep : Sched!Reach(S, dep) = Reach(S, dep)
  BY DEF Sched!Reach, Reach
<1>5. \A S, dep : Sched!Acyclic(S, dep) <=> Acyclic(S, dep)
  BY DEF Sched!Acyclic, Sched!Knots, Acyclic, Knots
<1>6. Sched!Unneeded = Untouched
  BY <1>1 DEF Sched!Unneeded, Untouched, Was
<1>7. Sched!NewlyWanted(ordering, Start) = ToMark
  <2>1. [b \in Build |-> Sched!WalkDeps(ordering)[b] \cap Sched!Unneeded] = WalkDep
    BY <1>3, <1>6 DEF WalkDep
  <2> QED
    BY <1>2, <1>4, <1>6, <2>1 DEF Sched!NewlyWanted, ToMark
<1>8. \A b \in Build : Sched!RecheckReady(ordering, b) <=> MadeBefore(b)
  BY <1>1, <1>2 DEF Sched!RecheckReady, MadeBefore, Was
<1>9. Sched!MarkedReady(ordering, Marked) = {b \in Marked : MadeBefore(b)}
  BY <1>8 DEF Sched!MarkedReady, Marked
<1> QED
  BY <1>2, <1>3, <1>4, <1>5, <1>6, <1>7, <1>8, <1>9

(* What is marked so far is a walk's worth of Scheduler's. *)
LEMMA MarkedAsOne ==
    ASSUME WInv, mode = "walking"
    PROVE  /\ Marked \in Sched!PartlyWalked(ordering, ToMark)
           /\ Sched!Acyclic(Marked, Sched!OrderDeps(ordering))
           /\ state = Sched!MarkedState(ordering, Marked)
           /\ pending = Sched!PendingWith(Marked)
           /\ \E q \in Sched!SetToSeqs(Sched!MarkedReady(ordering, Marked)) : ready = before.ready \o q
<1>1. Hidden
  BY DEF Hidden
<1>2. TypeOK /\ WTypeOK /\ MarksSound
  BY WalkUnderWay
<1>3. /\ Sched!OrderDeps(ordering) = OrderDeps(ordering)
      /\ \A S, dep : Sched!Acyclic(S, dep) <=> Acyclic(S, dep)
      /\ Sched!Unneeded = Untouched
      /\ Sched!MarkedReady(ordering, Marked) = {b \in Marked : MadeBefore(b)}
  BY SeenWalk
<1>4. Unneeded = Untouched \ Marked /\ \A b \in Build \ Marked : state[b] = Was(b)
  BY <1>2, MarkedStates
<1>5. Sched!Acyclic(Marked, Sched!OrderDeps(ordering))
  BY <1>2, <1>3 DEF MarksSound
<1>6. \A b \in Marked : Sched!OrderDeps(ordering)[b] \cap Sched!Unneeded \subseteq Marked
  BY <1>2, <1>3, <1>4 DEF MarksSound
<1>7. Marked \in Sched!PartlyWalked(ordering, ToMark)
  BY <1>2, <1>5, <1>6 DEF Sched!PartlyWalked, MarksSound
<1>8. state = Sched!MarkedState(ordering, Marked)
  <2>1. \A b \in Build : state[b] = Sched!MarkedState(ordering, Marked)[b]
    BY <1>1, <1>2, <1>3, <1>4 DEF Sched!MarkedState, MarksSound, Was
  <2>2. state = [b \in Build |-> state[b]]
    BY <1>2 DEF TypeOK
  <2>3. Sched!MarkedState(ordering, Marked) = [b \in Build |-> Sched!MarkedState(ordering, Marked)[b]]
    BY DEF Sched!MarkedState
  <2> QED
    BY <2>1, <2>2, <2>3
<1>9. pending = Sched!PendingWith(Marked)
  BY <1>1, <1>2, SameCount DEF Sched!PendingWith, MarksSound
<1>10. \E q \in Sched!SetToSeqs(Sched!MarkedReady(ordering, Marked)) : ready = before.ready \o q
  BY <1>2, <1>3, SameOrders DEF MarksSound
<1> QED
  BY <1>5, <1>7, <1>8, <1>9, <1>10

(* Scheduler sees nothing of a step inside a walk. *)
LEMMA Unseen ==
    ASSUME mode = "walking", mode' = "walking",
           UNCHANGED <<graph, keepGoing, noDefer, threads, results, running, failed, emitted,
                       todo, phase, deferral, before>>
    PROVE  UNCHANGED Sched!vars
<1>1. Hidden /\ Hidden'
  BY DEF Hidden
<1> QED
  BY <1>1 DEF Sched!vars

(* Nor of the step that starts one. *)
LEMMA StartUnseen ==
    ASSUME WInv, WantNextTarget \/ \E r \in results : WantDeferred(r)
    PROVE  UNCHANGED Sched!vars
<1>1. /\ mode = "idle" /\ mode' = "walking" /\ before' = Seen
      /\ UNCHANGED <<graph, keepGoing, noDefer, threads, failed, emitted, todo, phase>>
  BY DEF WantNextTarget, WantDeferred, Receive, vars
<1>2. TypeOK /\ deferral = {}
  BY <1>1 DEF WInv, BInv, Quiet
<1>3. ~Hidden /\ Hidden'
  BY <1>1 DEF Hidden
<1>4. /\ (IF Hidden THEN before.state ELSE state)' = (IF Hidden THEN before.state ELSE state)
      /\ (IF Hidden THEN before.pending ELSE pending)' = (IF Hidden THEN before.pending ELSE pending)
      /\ (IF Hidden THEN before.ready ELSE ready)' = (IF Hidden THEN before.ready ELSE ready)
      /\ (IF Hidden THEN before.ordering ELSE ordering)'
            = (IF Hidden THEN before.ordering ELSE ordering)
  BY <1>1, <1>3 DEF Seen
<1>5. (results \cup deferral)' = results \cup deferral
  BY <1>2 DEF WantNextTarget, WantDeferred, Receive, vars
<1>6. (running + Cardinality(deferral))' = running + Cardinality(deferral)
  <2>1. CASE WantNextTarget
    BY <2>1 DEF WantNextTarget, vars
  <2>2. CASE \E r \in results : WantDeferred(r)
    <3>1. PICK r : running' = running - 1 /\ deferral' = {r}
      BY <2>2 DEF WantDeferred, Receive
    <3>2. Cardinality(deferral) = 0 /\ Cardinality(deferral') = 1
      BY <1>2, <3>1, FS_EmptySet, FS_Singleton
    <3> QED
      BY <1>2, <3>1, <3>2 DEF TypeOK
  <2> QED
    BY <2>1, <2>2
<1> QED
  BY <1>1, <1>4, <1>5, <1>6 DEF Sched!vars

(* The end of a target's walk is Scheduler's step. *)
LEMMA TargetSeen == WInv /\ TargetWanted => Sched!WantTarget
<1> SUFFICES ASSUME WInv, TargetWanted PROVE Sched!WantTarget
  OBVIOUS
<1>1. /\ mode = "walking" /\ Walked /\ deferral = {} /\ mode' = "idle"
      /\ todo' = Tail(todo)
      /\ UNCHANGED <<graph, keepGoing, ordering, state, pending, ready, noDefer,
                     threads, results, running, failed, emitted, phase>>
      /\ UNCHANGED <<deferral, before>>
  BY DEF TargetWanted, Walked
<1>2. Hidden /\ ~Hidden'
  BY <1>1 DEF Hidden
<1>3. FromTargets /\ Marked = ToMark
  BY <1>1, WalkUnderWay, WalkComplete DEF FromDeferral
<1>4. /\ phase = "want" /\ todo # <<>> /\ before.ordering = ordering
      /\ Start = {Head(todo)}
  BY <1>1, <1>3 DEF FromTargets, Start
<1>5. Sched!NewlyWanted(ordering, {Head(todo)}) = Marked
  BY <1>1, <1>3, <1>4, SeenWalk
<1>6. /\ Sched!Acyclic(Marked, Sched!OrderDeps(ordering))
      /\ state = Sched!MarkedState(ordering, Marked)
      /\ pending = Sched!PendingWith(Marked)
      /\ \E q \in Sched!SetToSeqs(Sched!MarkedReady(ordering, Marked)) : ready = before.ready \o q
  BY <1>1, MarkedAsOne
<1> QED
  BY <1>1, <1>2, <1>4, <1>5, <1>6 DEF Sched!WantTarget

(* A deferral being handled, as Scheduler still has it among the results.  *)
LEMMA DeferralSeen ==
    ASSUME WInv, mode = "walking", NEW r \in deferral,
           mode' = "idle", deferral' = {},
           UNCHANGED <<graph, keepGoing, ordering, threads, results, running, emitted, todo>>
    PROVE  /\ Sched!Receive(r) /\ r.kind = "deferred"
           /\ Sched!NewIds(r) # {} /\ Start = Sched!NewIds(r)
           /\ ~Sched!ProducerCycle(r.bid, Sched!Producers(Sched!NewIds(r)))
           /\ ordering = Sched!WithImplicitInputs(r.bid, Sched!NewIds(r))
           /\ before.ready = <<>> /\ phase = "run"
           /\ Hidden /\ ~Hidden'
           /\ r.bid \in Build
<1>1. Hidden /\ ~Hidden'
  BY DEF Hidden
<1>2. FromDeferral /\ TypeOK
  BY WalkUnderWay DEF FromTargets
<1>3. /\ r \in Result /\ deferral = {r} /\ r.kind = "deferred"
      /\ phase = "run" /\ before.ready = <<>> /\ NewOf(r) # {}
      /\ r.bid \notin Reach(Producers(NewOf(r)), OrderDeps(before.ordering))
      /\ ordering = [before.ordering EXCEPT ![r.bid] = @ \cup (NewOf(r) \ graph.validation[r.bid])]
      /\ Was(r.bid) = "Running"
      /\ \A q \in results : q.bid # r.bid
  BY <1>2 DEF FromDeferral
<1>4. Sched!NewIds(r) = NewOf(r) /\ Start = NewOf(r)
  BY <1>1, <1>3 DEF Sched!NewIds, NewOf, Start
<1>5. Sched!Receive(r)
  <2>1. r \notin results /\ Cardinality(deferral) = 1 /\ Cardinality(deferral') = 0
    BY <1>3, FS_EmptySet, FS_Singleton
  <2>2. (results \cup deferral)' = (results \cup deferral) \ {r} /\ r \in results \cup deferral
    BY <1>3, <2>1
  <2>3. /\ running + Cardinality(deferral) > 0
        /\ (running + Cardinality(deferral))' = (running + Cardinality(deferral)) - 1
    BY <1>2, <2>1 DEF TypeOK
  <2> QED
    BY <1>1, <1>3, <2>2, <2>3 DEF Sched!Receive
<1>6. ~Sched!ProducerCycle(r.bid, Sched!Producers(Sched!NewIds(r)))
  BY <1>1, <1>3, <1>4, SeenWalk DEF Sched!ProducerCycle
<1>7. ordering = Sched!WithImplicitInputs(r.bid, Sched!NewIds(r))
  BY <1>1, <1>3, <1>4 DEF Sched!WithImplicitInputs
<1>8. r.bid \in Build
  BY <1>3 DEF Result
<1> QED
  BY <1>1, <1>3, <1>4, <1>5, <1>6, <1>7, <1>8

(* The deferred edge waits again. *)
LEMMA RequeueSeen ==
    ASSUME WInv, NEW r \in deferral, DeferredWanted(r)
    PROVE  Sched!DeferralRequeued(r)
<1> DEFINE free == RecheckReady(ordering, r.bid)
<1>1. /\ mode = "walking" /\ Walked /\ mode' = "idle" /\ deferral' = {}
      /\ state' = [state EXCEPT ![r.bid] = IF free THEN "Ready" ELSE "Want"]
      /\ ready' = IF free THEN Append(ready, r.bid) ELSE ready
      /\ UNCHANGED <<graph, keepGoing, ordering, pending, noDefer, threads, results,
                     running, failed, emitted, todo, phase>>
  BY DEF DeferredWanted, Walked
<1>2. /\ Sched!Receive(r) /\ r.kind = "deferred"
      /\ Sched!NewIds(r) # {} /\ Start = Sched!NewIds(r)
      /\ ~Sched!ProducerCycle(r.bid, Sched!Producers(Sched!NewIds(r)))
      /\ ordering = Sched!WithImplicitInputs(r.bid, Sched!NewIds(r))
      /\ before.ready = <<>>
      /\ Hidden /\ ~Hidden' /\ r.bid \in Build
  BY <1>1, DeferralSeen
<1>3. Sched!NewlyWanted(ordering, Sched!NewIds(r)) = Marked
  BY <1>1, <1>2, SeenWalk, WalkComplete
<1>4. /\ Sched!Acyclic(Marked, Sched!OrderDeps(ordering))
      /\ state = Sched!MarkedState(ordering, Marked)
      /\ pending = Sched!PendingWith(Marked)
  BY <1>1, MarkedAsOne
<1>5. PICK q \in Sched!SetToSeqs(Sched!MarkedReady(ordering, Marked)) : ready = before.ready \o q
  BY <1>1, MarkedAsOne
<1>6. TypeOK /\ MarksSound
  BY <1>1, WalkUnderWay
<1>7. Sched!RecheckReady(ordering, r.bid) <=> free
  <2>1. Sched!RecheckReady(ordering, r.bid) <=> MadeBefore(r.bid)
    BY <1>1, <1>2, SeenWalk
  <2>2. \A p \in Producers(ordering[r.bid]) : p \in Build
    BY <1>2, <1>6, DepsAreEdges DEF TypeOK
  <2>3. free <=> MadeBefore(r.bid)
    BY <1>6, <2>2, MarkedStates DEF RecheckReady, MadeBefore, Done
  <2> QED
    BY <2>1, <2>3
<1> HIDE DEF free
<1>8. ready \in Seq(Build) /\ r.bid \in Build
  BY <1>2, <1>6 DEF TypeOK
<1>9. ready' = before.ready \o q \o (IF free THEN <<r.bid>> ELSE <<>>)
  <2>1. CASE free
    BY <1>1, <1>5, <1>8, <2>1
  <2>2. CASE ~free
    BY <1>1, <1>5, <1>8, <2>2
  <2> QED
    BY <2>1, <2>2
<1>10. /\ (IF Hidden THEN before.ordering ELSE ordering)' = ordering
       /\ (IF Hidden THEN before.state ELSE state)' = state'
       /\ (IF Hidden THEN before.ready ELSE ready)' = ready'
       /\ (IF Hidden THEN before.pending ELSE pending)' = pending
       /\ (IF Hidden THEN before.ready ELSE ready) = before.ready
  BY <1>1, <1>2
<1>11. state' = [Sched!MarkedState(ordering, Marked) EXCEPT
                    ![r.bid] = IF Sched!RecheckReady(ordering, r.bid) THEN "Ready" ELSE "Want"]
  BY <1>1, <1>4, <1>7
<1>12. ready' = before.ready \o q \o (IF Sched!RecheckReady(ordering, r.bid) THEN <<r.bid>> ELSE <<>>)
  BY <1>7, <1>9
<1> QED
  BY <1>1, <1>2, <1>3, <1>4, <1>5, <1>10, <1>11, <1>12, Zenon DEF Sched!DeferralRequeued

(* A walk that broke off. *)
LEMMA RefuseSeen ==
    ASSUME WInv, NEW f \in File, WantInput(f) \/ WantValidation(f), Closes(f)
    PROVE  Sched!WantTargetRefused \/ \E r \in results \cup deferral : Sched!DeferralWantFails(r)
<1>1. /\ mode = "walking" /\ Refuse(f)
  BY DEF WantInput, WantValidation, Visit, Call
<1>2. /\ deferral' = {}
      /\ UNCHANGED <<graph, keepGoing, ordering, state, pending, ready, noDefer,
                     threads, results, running, emitted, todo, before>>
  BY <1>1 DEF Refuse
<1>3. ~Acyclic(ToMark, WalkDeps(ordering))
  BY KnotMet
<1>4. CASE deferral = {}
  <2>1. mode' = "refused" /\ phase' = "abort" /\ failed' = failed
    BY <1>1, <1>4 DEF Refuse
  <2>2. Hidden /\ Hidden'
    BY <1>1, <2>1 DEF Hidden
  <2>3. FromTargets
    BY <1>1, <1>4, WalkUnderWay DEF FromDeferral
  <2>4. /\ phase = "want" /\ todo # <<>> /\ before.ordering = ordering /\ Start = {Head(todo)}
    BY <1>4, <2>3 DEF FromTargets, Start
  <2>5. ~Sched!Acyclic(Sched!NewlyWanted(ordering, {Head(todo)}), Sched!WalkDeps(ordering))
    BY <1>1, <1>3, <2>4, SeenWalk
  <2>6. Sched!WantTargetRefused
    BY <1>2, <1>4, <2>1, <2>2, <2>4, <2>5 DEF Sched!WantTargetRefused
  <2> QED
    BY <2>6
<1>5. CASE deferral # {}
  <2>1. /\ mode' = "idle" /\ failed' = failed + 1 /\ phase' = IF keepGoing THEN "run" ELSE "abort"
    BY <1>1, <1>5 DEF Refuse
  <2>2. PICK r : r \in deferral
    BY <1>5
  <2>3. /\ Sched!Receive(r) /\ r.kind = "deferred"
        /\ Sched!NewIds(r) # {} /\ Start = Sched!NewIds(r)
        /\ ~Sched!ProducerCycle(r.bid, Sched!Producers(Sched!NewIds(r)))
        /\ ordering = Sched!WithImplicitInputs(r.bid, Sched!NewIds(r))
        /\ Hidden /\ ~Hidden'
    BY <1>1, <1>2, <2>1, <2>2, DeferralSeen
  <2>4. Sched!NewlyWanted(ordering, Sched!NewIds(r)) = ToMark
    BY <1>1, <2>3, SeenWalk
  <2>5. ~Sched!Acyclic(ToMark, Sched!WalkDeps(ordering))
    BY <1>1, <1>3, SeenWalk
  <2>6. /\ Marked \in Sched!PartlyWalked(ordering, ToMark)
        /\ state = Sched!MarkedState(ordering, Marked)
        /\ pending = Sched!PendingWith(Marked)
        /\ \E q \in Sched!SetToSeqs(Sched!MarkedReady(ordering, Marked)) : ready = before.ready \o q
    BY <1>1, MarkedAsOne
  <2>7. Sched!DeferralFails(r)
    BY <2>1 DEF Sched!DeferralFails
  <2>8. /\ (IF Hidden THEN before.ordering ELSE ordering)' = ordering
        /\ (IF Hidden THEN before.state ELSE state)' = state
        /\ (IF Hidden THEN before.ready ELSE ready)' = ready
        /\ (IF Hidden THEN before.pending ELSE pending)' = pending
        /\ (IF Hidden THEN before.ready ELSE ready) = before.ready
    BY <1>2, <2>3
  <2>9. Sched!DeferralWantFails(r)
    BY <1>2, <2>3, <2>4, <2>5, <2>6, <2>7, <2>8, Zenon DEF Sched!DeferralWantFails
  <2> QED
    BY <2>2, <2>9
<1> QED
  BY <1>4, <1>5

(* Between walks Scheduler sees the state as it is. *)
LEMMA SeenIdle ==
    ASSUME TypeOK, ~Hidden, ~Hidden', deferral = {}, deferral' = {}, running' \in Nat
    PROVE  /\ (IF Hidden THEN before.state ELSE state) = state
           /\ (IF Hidden THEN before.state ELSE state)' = state'
           /\ (IF Hidden THEN before.pending ELSE pending) = pending
           /\ (IF Hidden THEN before.pending ELSE pending)' = pending'
           /\ (IF Hidden THEN before.ready ELSE ready) = ready
           /\ (IF Hidden THEN before.ready ELSE ready)' = ready'
           /\ (IF Hidden THEN before.ordering ELSE ordering) = ordering
           /\ (IF Hidden THEN before.ordering ELSE ordering)' = ordering'
           /\ results \cup deferral = results /\ (results \cup deferral)' = results'
           /\ running + Cardinality(deferral) = running
           /\ (running + Cardinality(deferral))' = running'
  BY FS_EmptySet DEF TypeOK

LEMMA ReadIdle ==
    ASSUME ~Hidden
    PROVE  /\ \A b : Sched!NowReady(b) = NowReady(b)
           /\ \A r : Sched!NewIds(r) = NewIds(r)
           /\ \A b, F : Sched!ProducerCycle(b, Sched!Producers(F)) <=> ProducerCycle(b, Producers(F))
           /\ \A b : Sched!Suppress(b) = Suppress(b)
<1>1. \A F : Sched!Producers(F) = Producers(F)
  BY DEF Sched!Producers, Producers
<1>2. \A ord : Sched!WalkDeps(ord) = WalkDeps(ord) /\ Sched!OrderDeps(ord) = OrderDeps(ord)
  BY <1>1 DEF Sched!OrderDeps, OrderDeps, Sched!WalkDeps, WalkDeps
<1>3. \A S, dep : Sched!Reach(S, dep) = Reach(S, dep)
  BY DEF Sched!Reach, Reach
<1>4. \A b : Sched!NowReady(b) = NowReady(b)
  BY <1>1, <1>2 DEF Sched!NowReady, NowReady
<1>5. \A r : Sched!NewIds(r) = NewIds(r)
  BY DEF Sched!NewIds, NewIds
<1>6. \A b, F : Sched!ProducerCycle(b, Sched!Producers(F)) <=> ProducerCycle(b, Producers(F))
  BY <1>1, <1>2, <1>3 DEF Sched!ProducerCycle, ProducerCycle
<1>7. \A b : Sched!Suppress(b) = Suppress(b)
  BY DEF Sched!Suppress, Suppress
<1> QED
  BY <1>4, <1>5, <1>6, <1>7

(* The run loop's other steps are Scheduler's own. *)
LEMMA IdleSeen == WInv /\ MainIdle => Sched!Next
<1> SUFFICES ASSUME WInv, MainIdle PROVE Sched!Next
  OBVIOUS
<1>1. ~Hidden /\ ~Hidden' /\ deferral = {} /\ deferral' = {}
  BY DEF WInv, MainIdle, Quiet, Hidden, wvars
<1>2. TypeOK /\ TypeOK'
  BY IdleKept DEF WInv, BInv
<1>3. /\ (IF Hidden THEN before.state ELSE state) = state
      /\ (IF Hidden THEN before.state ELSE state)' = state'
      /\ (IF Hidden THEN before.pending ELSE pending) = pending
      /\ (IF Hidden THEN before.pending ELSE pending)' = pending'
      /\ (IF Hidden THEN before.ready ELSE ready) = ready
      /\ (IF Hidden THEN before.ready ELSE ready)' = ready'
      /\ (IF Hidden THEN before.ordering ELSE ordering) = ordering
      /\ (IF Hidden THEN before.ordering ELSE ordering)' = ordering'
      /\ results \cup deferral = results /\ (results \cup deferral)' = results'
      /\ running + Cardinality(deferral) = running
      /\ (running + Cardinality(deferral))' = running'
  BY <1>1, <1>2, SeenIdle DEF TypeOK
<1>4. /\ \A b : Sched!NowReady(b) = NowReady(b)
      /\ \A r : Sched!NewIds(r) = NewIds(r)
      /\ \A b, F : Sched!ProducerCycle(b, Sched!Producers(F)) <=> ProducerCycle(b, Producers(F))
      /\ \A b : Sched!Suppress(b) = Suppress(b)
  BY <1>1, ReadIdle
<1>5. CASE BeginRun
  BY <1>3, <1>5, Zenon DEF BeginRun, Sched!BeginRun, Sched!Next, Sched!Main
<1>6. CASE StartEdge
  <2>1. \A b : Sched!Answer(b, "ok", {}) = Answer(b, "ok", {})
    BY DEF Sched!Answer, Answer
  <2>2. Sched!StartEdge
    BY <1>3, <1>6, <2>1 DEF StartEdge, Sched!StartEdge
  <2> QED
    BY <2>2 DEF Sched!Next, Sched!Main
<1>7. CASE StartFails
  <2>1. Sched!StartFails
    BY <1>3, <1>7 DEF StartFails, Sched!StartFails
  <2> QED
    BY <2>1 DEF Sched!Next, Sched!Main
<1>8. CASE EndRun
  <2>1. Sched!EndRun
    BY <1>3, <1>8 DEF EndRun, Sched!EndRun
  <2> QED
    BY <2>1 DEF Sched!Next, Sched!Main
<1>9. ASSUME NEW r \in results,
             HandleDone(r) \/ HandleFailure(r) \/ DeferralAddsNothing(r) \/ DeferralRefused(r)
      PROVE  Sched!Next
  <2>1. Receive(r)
    BY <1>9 DEF HandleDone, HandleFailure, DeferralAddsNothing, DeferralRefused
  <2>2. Sched!Receive(r)
    BY <1>3, <2>1 DEF Receive, Sched!Receive
  <2>3. CASE HandleDone(r)
    <3>1. /\ r.kind = "ok" /\ pending' = pending - 1
          /\ UNCHANGED <<ordering, noDefer, failed, phase>>
          /\ state' = [b \in Build |-> CASE b \in NowReady(r.bid) -> "Ready"
                                         [] b = r.bid             -> "Done"
                                         [] OTHER                 -> state[b]]
          /\ \E s \in Sched!SetToSeqs(NowReady(r.bid)) : ready' = ready \o s
      BY <2>3, SameOrders DEF HandleDone
    <3>2. Sched!NowReady(r.bid) = NowReady(r.bid)
      BY <1>4
    <3>3. (IF Hidden THEN before.state ELSE state)'
             = [b \in Build |-> CASE b \in Sched!NowReady(r.bid) -> "Ready"
                                  [] b = r.bid                    -> "Done"
                                  [] OTHER -> (IF Hidden THEN before.state ELSE state)[b]]
      BY <1>3, <3>1, <3>2
    <3>4. \E s \in Sched!SetToSeqs(Sched!NowReady(r.bid)) :
             (IF Hidden THEN before.ready ELSE ready)'
                = (IF Hidden THEN before.ready ELSE ready) \o s
      BY <1>3, <3>1, <3>2
    <3>5. /\ (IF Hidden THEN before.pending ELSE pending)'
                = (IF Hidden THEN before.pending ELSE pending) - 1
          /\ (IF Hidden THEN before.ordering ELSE ordering)'
                = (IF Hidden THEN before.ordering ELSE ordering)
          /\ UNCHANGED <<noDefer, failed, phase>>
      BY <1>3, <3>1
    <3>6. Sched!HandleDone(r)
      BY <2>2, <3>1, <3>3, <3>4, <3>5, Zenon DEF Sched!HandleDone
    <3> QED
      BY <1>3, <3>6 DEF Sched!Next, Sched!Main, Sched!Handle
  <2>4. CASE HandleFailure(r)
    <3>1. Sched!HandleFailure(r)
      BY <1>3, <2>2, <2>4 DEF HandleFailure, Sched!HandleFailure
    <3> QED
      BY <1>3, <3>1 DEF Sched!Next, Sched!Main, Sched!Handle
  <2>5. CASE DeferralAddsNothing(r)
    <3>1. Sched!DeferralAddsNothing(r)
      BY <1>3, <1>4, <2>2, <2>5 DEF DeferralAddsNothing, Sched!DeferralAddsNothing
    <3> QED
      BY <1>3, <3>1 DEF Sched!Next, Sched!Main, Sched!Handle
  <2>6. CASE DeferralRefused(r)
    <3>1. Sched!DeferralFails(r)
      BY <2>6 DEF DeferralRefused, DeferralFails, Sched!DeferralFails
    <3>2. Sched!DeferralRefused(r)
      BY <1>3, <1>4, <2>2, <2>6, <3>1 DEF DeferralRefused, Sched!DeferralRefused
    <3> QED
      BY <1>3, <3>2 DEF Sched!Next, Sched!Main, Sched!Handle
  <2> QED
    BY <1>9, <2>3, <2>4, <2>5, <2>6
<1> QED
  BY <1>5, <1>6, <1>7, <1>8, <1>9 DEF MainIdle

(* So is the end of a task, whatever the main thread is doing. *)
LEMMA TaskSeen ==
    ASSUME WInv, NEW b \in Build, Task(b), UNCHANGED wvars
    PROVE  Sched!Next
<1>1. /\ mode' = mode /\ deferral' = deferral /\ before' = before
      /\ UNCHANGED <<state, pending, ready, ordering, running>>
  BY DEF wvars, Task, TaskEmits, TaskFails, TaskDefers
<1>2. Hidden' <=> Hidden
  BY <1>1 DEF Hidden
<1>3. /\ (IF Hidden THEN before.state ELSE state)' = (IF Hidden THEN before.state ELSE state)
      /\ (IF Hidden THEN before.pending ELSE pending)' = (IF Hidden THEN before.pending ELSE pending)
      /\ (IF Hidden THEN before.ready ELSE ready)' = (IF Hidden THEN before.ready ELSE ready)
      /\ (IF Hidden THEN before.ordering ELSE ordering)'
            = (IF Hidden THEN before.ordering ELSE ordering)
      /\ (running + Cardinality(deferral))' = running + Cardinality(deferral)
  BY <1>1, <1>2
<1>4. \A a : results' = results \cup {a} => (results \cup deferral)' = (results \cup deferral) \cup {a}
  BY <1>1
<1>5. \A k, F : Sched!Answer(b, k, F) = Answer(b, k, F)
  BY DEF Sched!Answer, Answer
<1>6. CASE TaskEmits(b)
  <2>1. Sched!TaskEmits(b)
    BY <1>3, <1>4, <1>5, <1>6, Zenon DEF TaskEmits, Sched!TaskEmits
  <2> QED
    BY <2>1 DEF Sched!Next, Sched!Task
<1>7. CASE TaskFails(b)
  <2>1. Sched!TaskFails(b)
    BY <1>3, <1>4, <1>5, <1>7, Zenon DEF TaskFails, Sched!TaskFails
  <2> QED
    BY <2>1 DEF Sched!Next, Sched!Task
<1>8. ASSUME NEW F \in graph.miss[b], TaskDefers(b, F) PROVE Sched!Next
  <2>1. Sched!WrittenOnDeferral(b) = WrittenOnDeferral(b)
    BY DEF Sched!WrittenOnDeferral, WrittenOnDeferral
  <2>2. Sched!TaskDefers(b, F)
    BY <1>3, <1>4, <1>5, <1>8, <2>1, Zenon DEF TaskDefers, Sched!TaskDefers
  <2> QED
    BY <1>8, <2>2 DEF Sched!Next, Sched!Task
<1> QED
  BY <1>6, <1>7, <1>8 DEF Task

LEMMA SchedStep == WInv /\ [WNext]_allVars => [Sched!Next]_(Sched!vars)
<1> SUFFICES ASSUME WInv, [WNext]_allVars PROVE [Sched!Next]_(Sched!vars)
  OBVIOUS
<1>1. CASE UNCHANGED allVars \/ (Stopped /\ UNCHANGED wvars)
  <2>1. UNCHANGED <<vars, mode, deferral, before>>
    BY <1>1 DEF allVars, wvars, Stopped
  <2>2. Hidden' <=> Hidden
    BY <2>1 DEF Hidden
  <2> QED
    BY <2>1, <2>2 DEF vars, Sched!vars
<1>2. ASSUME NEW b \in Build, Task(b), UNCHANGED wvars PROVE Sched!Next
  BY <1>2, TaskSeen
<1>3. CASE MainIdle
  BY <1>3, IdleSeen
<1>4. CASE WantNextTarget \/ \E r \in results : WantDeferred(r)
  BY <1>4, StartUnseen
<1>5. ASSUME NEW f \in File, Begin(f) PROVE UNCHANGED Sched!vars
  BY <1>5, Unseen DEF Begin, Call, vars
<1>6. ASSUME NEW f \in File, WantInput(f) \/ WantValidation(f)
      PROVE  [Sched!Next]_(Sched!vars)
  <2>1. CASE Closes(f)
    <3>1. Sched!WantTargetRefused \/ \E r \in results \cup deferral : Sched!DeferralWantFails(r)
      BY <1>6, <2>1, RefuseSeen
    <3> QED
      BY <3>1 DEF Sched!Next, Sched!Main, Sched!Handle
  <2>2. CASE ~Closes(f)
    <3>1. mode = "walking" /\ UNCHANGED <<vars, mode, deferral, before>>
      BY <1>6, <2>2 DEF WantInput, WantValidation, Visit, Refuse, Call
    <3> QED
      BY <3>1, Unseen DEF vars
  <2> QED
    BY <2>1, <2>2
<1>7. CASE Mark \/ Return
  <2>1. /\ mode = "walking" /\ mode' = "walking"
        /\ UNCHANGED <<graph, keepGoing, noDefer, threads, results, running, failed, emitted,
                       todo, phase, deferral, before>>
    BY <1>7 DEF Mark, Return, vars
  <2> QED
    BY <2>1, Unseen
<1>8. CASE TargetWanted
  BY <1>8, TargetSeen DEF Sched!Next, Sched!Main
<1>9. ASSUME NEW r \in deferral, DeferredWanted(r) PROVE Sched!Next
  BY <1>9, RequeueSeen DEF Sched!Next, Sched!Main, Sched!Handle
<1> QED
  BY <1>1, <1>2, <1>3, <1>4, <1>5, <1>6, <1>7, <1>8, <1>9 DEF WNext, Walk

(* Every walk of want_file and want_build, in whatever order it takes the  *)
(* inputs, over however many repeated visits, and wherever it breaks off,  *)
(* marks, counts and queues what Scheduler says in one step, while the     *)
(* task threads answer beside it.                                          *)
THEOREM WalksAsScheduled == WSpec => SchedulerSpec
  BY WalkAlways, SchedInit, SchedStep, PTL DEF WSpec, SchedulerSpec, Sched!Spec

-----------------------------------------------------------------------------
(* Targets refused.                                                        *)

(* A refused target has met a cycle, of either kind of input. *)
RefusalMet ==
    /\ phase = "want" => ordering = graph.ordering
    /\ mode = "refused" =>
          /\ phase = "abort" /\ ordering = graph.ordering
          /\ ~Acyclic(Sched!NewlyWanted(ordering, {Head(todo)}), WalkDeps(ordering))

(* What Scheduler sees newly wanted stays as long as it sees the same. *)
LEMMA SameWanted ==
    ASSUME Hidden, Hidden', UNCHANGED <<graph, ordering, todo, before>>
    PROVE  Acyclic(Sched!NewlyWanted(ordering, {Head(todo)}), WalkDeps(ordering))'
              <=> Acyclic(Sched!NewlyWanted(ordering, {Head(todo)}), WalkDeps(ordering))
<1>1. /\ graph' = graph /\ ordering' = ordering /\ todo' = todo
      /\ (IF Hidden THEN before.state ELSE state)' = before.state
      /\ (IF Hidden THEN before.state ELSE state) = before.state
  OBVIOUS
<1>2. Sched!Unneeded' = Sched!Unneeded
  BY <1>1 DEF Sched!Unneeded
<1>3. PICK F, ord : F = {Head(todo)} /\ ord = ordering
  OBVIOUS
<1>4. /\ Sched!WalkDeps(ord)' = Sched!WalkDeps(ord) /\ WalkDeps(ord)' = WalkDeps(ord)
      /\ Sched!Producers(F)' = Sched!Producers(F)
  BY <1>1 DEF Sched!WalkDeps, Sched!Producers, WalkDeps, Producers
<1>5. PICK D : D = [b \in Build |-> Sched!WalkDeps(ord)[b] \cap Sched!Unneeded]
  OBVIOUS
<1>6. PICK S : S = Sched!Producers(F) \cap Sched!Unneeded
  OBVIOUS
<1>7. Sched!NewlyWanted(ord, F) = Sched!Reach(S, D)
  BY <1>5, <1>6 DEF Sched!NewlyWanted
<1>8. Sched!NewlyWanted(ord, F)' = Sched!Reach(S, D)'
  BY <1>2, <1>4, <1>5, <1>6 DEF Sched!NewlyWanted
<1>9. Sched!Reach(S, D)' = Sched!Reach(S, D)
  BY DEF Sched!Reach
<1>10. Sched!NewlyWanted(ordering, {Head(todo)})' = Sched!NewlyWanted(ordering, {Head(todo)})
  BY <1>1, <1>3, <1>7, <1>8, <1>9
<1>11. WalkDeps(ordering)' = WalkDeps(ordering)
  BY <1>1, <1>3, <1>4
<1> QED
  BY <1>10, <1>11, Zenon

LEMMA RefusalStep == WInv /\ RefusalMet /\ [WNext]_allVars => RefusalMet' /\ graph' = graph
<1> SUFFICES ASSUME WInv, RefusalMet, [WNext]_allVars PROVE RefusalMet' /\ graph' = graph
  OBVIOUS
<1>1. ASSUME UNCHANGED <<graph, ordering, todo, before, mode, phase>> PROVE RefusalMet'
  <2>1. CASE mode = "refused"
    <3>1. Hidden /\ Hidden'
      BY <1>1, <2>1 DEF Hidden
    <3> QED
      BY <1>1, <2>1, <3>1, SameWanted DEF RefusalMet
  <2>2. CASE mode # "refused"
    BY <1>1, <2>2 DEF RefusalMet
  <2> QED
    BY <2>1, <2>2
<1>2. ASSUME mode' # "refused", phase' = "want" => phase = "want" /\ ordering' = ordering,
             graph' = graph
      PROVE  RefusalMet'
  BY <1>2 DEF RefusalMet
<1>3. CASE UNCHANGED allVars \/ (Stopped /\ UNCHANGED wvars)
  <2>1. UNCHANGED <<graph, ordering, todo, before, mode, phase>>
    BY <1>3 DEF allVars, vars, wvars, Stopped
  <2> QED
    BY <1>1, <2>1
<1>4. ASSUME NEW b \in Build, Task(b), UNCHANGED wvars PROVE RefusalMet' /\ graph' = graph
  <2>1. UNCHANGED <<graph, ordering, todo, before, mode, phase>>
    BY <1>4 DEF wvars, Task, TaskEmits, TaskFails, TaskDefers
  <2> QED
    BY <1>1, <2>1
<1>5. CASE MainIdle
  <2>1. mode' # "refused" /\ graph' = graph
    BY <1>5 DEF MainIdle, wvars, BeginRun, StartEdge, StartFails, Receive, HandleDone,
                HandleFailure, DeferralAddsNothing, DeferralRefused, DeferralFails, EndRun
  <2>2. phase' = "want" => phase = "want" /\ ordering' = ordering
    BY <1>5 DEF MainIdle, BeginRun, StartEdge, StartFails, Receive, HandleDone,
                HandleFailure, DeferralAddsNothing, DeferralRefused, DeferralFails, EndRun
  <2> QED
    BY <1>2, <2>1, <2>2
<1>6. CASE WantNextTarget \/ Mark \/ Return \/ TargetWanted
  <2>1. mode' # "refused" /\ graph' = graph /\ phase' = phase /\ ordering' = ordering
    BY <1>6 DEF WantNextTarget, Mark, Return, TargetWanted, vars
  <2> QED
    BY <1>2, <2>1
<1>7. ASSUME NEW r, WantDeferred(r) \/ DeferredWanted(r) PROVE RefusalMet' /\ graph' = graph
  <2>1. CASE WantDeferred(r)
    <3>1. mode' # "refused" /\ graph' = graph /\ phase' = phase /\ phase = "run"
      BY <2>1 DEF WantDeferred, Receive
    <3> QED
      BY <1>2, <3>1
  <2>2. CASE DeferredWanted(r)
    <3>1. mode' # "refused" /\ graph' = graph /\ phase' = phase /\ ordering' = ordering
      BY <2>2 DEF DeferredWanted
    <3> QED
      BY <1>2, <3>1
  <2> QED
    BY <1>7, <2>1, <2>2
<1>8. ASSUME NEW f \in File, Begin(f) PROVE RefusalMet' /\ graph' = graph
  <2>1. mode' # "refused" /\ graph' = graph /\ phase' = phase /\ ordering' = ordering
    BY <1>8 DEF Begin, Call, vars
  <2> QED
    BY <1>2, <2>1
<1>9. ASSUME NEW f \in File, WantInput(f) \/ WantValidation(f)
      PROVE  RefusalMet' /\ graph' = graph
  <2>1. mode = "walking"
    BY <1>9 DEF WantInput, WantValidation
  <2>2. CASE ~Closes(f)
    <3>1. UNCHANGED <<vars, mode>>
      BY <1>9, <2>2 DEF WantInput, WantValidation, Visit, Refuse, Call
    <3> QED
      BY <1>2, <2>1, <3>1 DEF vars
  <2>3. CASE Closes(f) /\ deferral # {}
    <3>1. /\ mode' # "refused" /\ graph' = graph
          /\ phase' = IF keepGoing THEN "run" ELSE "abort"
      BY <1>9, <2>3 DEF WantInput, WantValidation, Visit, Call, Refuse
    <3> QED
      BY <1>2, <3>1
  <2>4. CASE Closes(f) /\ deferral = {}
    <3>1. /\ mode' = "refused" /\ phase' = "abort"
          /\ UNCHANGED <<graph, ordering, todo, before>>
      BY <1>9, <2>4 DEF WantInput, WantValidation, Visit, Call, Refuse
    <3>2. FromTargets
      BY <2>1, <2>4, WalkUnderWay DEF FromDeferral
    <3>3. phase = "want" /\ Start = {Head(todo)}
      BY <2>4, <3>2 DEF FromTargets, Start
    <3>4. Hidden /\ Hidden'
      BY <2>1, <3>1 DEF Hidden
    <3>5. ~Acyclic(Sched!NewlyWanted(ordering, {Head(todo)}), WalkDeps(ordering))
      BY <1>9, <2>1, <2>4, <3>3, KnotMet, SeenWalk
    <3> QED
      BY <3>1, <3>3, <3>4, <3>5, SameWanted DEF RefusalMet
  <2> QED
    BY <2>2, <2>3, <2>4
<1> QED
  BY <1>3, <1>4, <1>5, <1>6, <1>7, <1>8, <1>9 DEF WNext, Walk, allVars, vars, Stopped

(* A target is refused only where ordering inputs go round, in a graph     *)
(* where validation inputs close no cycle of their own.                    *)
THEOREM RefusedOnCycle == WSpec /\ CyclesThroughInputs(graph) => []RefusedOnlyOnCycle
<1> DEFINE Inv == WInv /\ RefusalMet /\ CyclesThroughInputs(graph)
<1>1. WInit /\ CyclesThroughInputs(graph) => Inv
  BY WalkInit DEF WInit, Init, Fresh, RefusalMet
<1>2. Inv /\ [WNext]_allVars => Inv'
  BY WalkStep, RefusalStep
<1>3. Inv => RefusedOnlyOnCycle
  <2> SUFFICES ASSUME RefusalMet, CyclesThroughInputs(graph), mode = "refused"
               PROVE  ~Acyclic(Sched!NewlyWanted(ordering, {Head(todo)}), OrderDeps(ordering))
    BY DEF RefusedOnlyOnCycle
  <2> DEFINE W == Sched!NewlyWanted(ordering, {Head(todo)})
  <2>1. ordering = graph.ordering /\ W \subseteq Build
    BY DEF RefusalMet, Sched!NewlyWanted, Sched!Reach
  <2>2. PICK C \in SUBSET W : C # {} /\ \A b \in C : WalkDeps(ordering)[b] \cap C # {}
    BY DEF RefusalMet, Acyclic, Knots
  <2>3. \A b \in C : \E f \in graph.ordering[b] \cup graph.validation[b] : graph.producer[f] \in C
    BY <2>1, <2>2 DEF WalkDeps, Producers
  <2>4. PICK D \in (SUBSET C) \ {{}} :
           \A b \in D : \E f \in graph.ordering[b] : graph.producer[f] \in D
    BY <2>1, <2>2, <2>3 DEF CyclesThroughInputs
  <2>5. \A b \in D : OrderDeps(ordering)[b] \cap D # {}
    BY <2>1, <2>4, NoBuildAssumption DEF OrderDeps, Producers
  <2>6. D \in Knots(W, OrderDeps(ordering))
    BY <2>4, <2>5 DEF Knots
  <2> QED
    BY <2>6 DEF Acyclic
<1> QED
  BY <1>1, <1>2, <1>3, PTL DEF WSpec

-----------------------------------------------------------------------------
(***************************************************************************)
(* DyndepPass: no amendment takes an output over; and for a plan whose     *)
(* dyndep files can be built without the edges they speak of, no edge      *)
(* starts before its amendments and a run that is ok has built the         *)
(* targets, amended, over both passes.                                     *)
(***************************************************************************)

(* What the passes carry, whatever the plan.                               *)

SaidTyped == /\ unread \subseteq DyndepFiles
             /\ \A x \in said : /\ x[1] \in DyndepFiles
                                /\ x[2] \in Entry
                                /\ x[2] \in plan.says[x[1]]

Given == /\ plan \in Plans
         /\ graph \in Graph
         /\ SaidTyped

(* The parts of a plan. *)
LEMMA PlanParts ==
    ASSUME plan \in Plans
    PROVE  /\ plan.graph \in Graph
           /\ DyndepFiles \subseteq File /\ IsFiniteSet(DyndepFiles)
           /\ \A f \in DyndepFiles : /\ plan.bound[f] \subseteq Build
                                     /\ plan.says[f] \subseteq Entry
  BY PlansAssumption, GraphsAssumption DEF IsPlan, DyndepFiles

(* An output with a producer keeps it, and what is given one is an output  *)
(* of the entry.                                                           *)
LEMMA AmendedGraph ==
    ASSUME Given, NEW x \in said, ApplyEntry(x)
    PROVE  /\ graph' \in Graph
           /\ graph'.validation = graph.validation
           /\ graph'.targets = graph.targets
           /\ \A f \in File : graph'.producer[f] # graph.producer[f]
                => graph.producer[f] = NoBuild /\ f \in x[2].outs
<1> DEFINE b == graph.producer[x[2].out]
           p == ProducerWith(b, x[2].outs)
<1>1. /\ graph \in Graph /\ x[1] \in DyndepFiles
      /\ b \in plan.bound[x[1]]
      /\ graph' = [graph EXCEPT !.producer = p]
  BY DEF Given, SaidTyped, ApplyEntry
<1>2. b \in Build
  BY <1>1, PlanParts DEF Given
<1>3. graph.producer \in [File -> Build \cup {NoBuild}]
  BY <1>1 DEF Graph
<1> HIDE DEF b
<1>4. /\ p \in [File -> Build \cup {NoBuild}]
      /\ \A f \in File : p[f] # graph.producer[f]
            => graph.producer[f] = NoBuild /\ f \in x[2].outs
  BY <1>2, <1>3 DEF ProducerWith
<1> HIDE DEF p
<1>5. /\ graph' \in Graph
      /\ graph'.validation = graph.validation
      /\ graph'.targets = graph.targets
      /\ graph'.producer = p
  BY <1>1, <1>4 DEF Graph
<1> QED
  BY <1>4, <1>5

(* The scheduler leaves the graph alone, and nothing changes the plan. *)
LEMMA SchedulerStep ==
    ASSUME DNext, ~Amending
    PROVE  UNCHANGED dvars /\ [Next]_vars /\ graph' = graph
  BY GraphFixed DEF DNext, Next, Stopped

LEMMA PlanFixed == [DNext]_passVars => plan' = plan
  BY DEF DNext, passVars, dvars, Amending, ReadDyndep, ReadFails, SkipEntry, RefuseEntry,
         ApplyEntry, BeginTargets

LEMMA GivenInit == DInit => Given
  BY PlanParts, GraphsAssumption DEF DInit, Fresh, Given, SaidTyped

LEMMA GivenStep == Given /\ [DNext]_passVars => Given'
<1> SUFFICES ASSUME Given, [DNext]_passVars PROVE Given'
  OBVIOUS
<1>1. plan' = plan
  BY PlanFixed
<1>2. CASE UNCHANGED passVars \/ (DNext /\ ~Amending)
  <2>1. UNCHANGED dvars /\ graph' = graph
    BY <1>2, SchedulerStep DEF passVars, vars
  <2> QED
    BY <2>1 DEF Given, SaidTyped, DyndepFiles, dvars
<1>3. ASSUME NEW f \in unread, ReadDyndep(f) PROVE Given'
  <2>1. unread' = unread \ {f} /\ said' = {f} \X plan.says[f] /\ graph' = graph
    BY <1>3 DEF ReadDyndep, vars
  <2>2. f \in DyndepFiles /\ plan.says[f] \subseteq Entry
    BY PlanParts DEF Given, SaidTyped
  <2> QED
    BY <1>1, <2>1, <2>2 DEF Given, SaidTyped, DyndepFiles
<1>4. ASSUME NEW x \in said, ApplyEntry(x) PROVE Given'
  <2>1. graph' \in Graph
    BY <1>4, AmendedGraph
  <2> QED
    BY <1>1, <1>4, <2>1 DEF ApplyEntry, Given, SaidTyped, DyndepFiles
<1>5. CASE \/ \E f \in unread : ReadFails(f)
           \/ \E x \in said : SkipEntry(x) \/ RefuseEntry(x)
           \/ BeginTargets
  <2>1. graph' = graph /\ unread' = unread /\ said' \subseteq said
    BY <1>5 DEF ReadFails, SkipEntry, RefuseEntry, BeginTargets, vars, dvars
  <2> QED
    BY <1>1, <2>1 DEF Given, SaidTyped, DyndepFiles
<1> QED
  BY <1>2, <1>3, <1>4, <1>5 DEF Amending

LEMMA GivenAlways == DSpec => []Given
  BY GivenInit, GivenStep, PTL DEF DSpec

(* What a dyndep file names as an output of one edge is never taken from   *)
(* another: a file that has a producer keeps it through every read, every  *)
(* amendment and both runs.                                                *)
THEOREM ProducersStay == DSpec => ProducersKept
<1> DEFINE Kept == \A f \in File : graph.producer[f] # NoBuild
                      => graph'.producer[f] = graph.producer[f]
<1>1. Given /\ [DNext]_passVars => [Kept]_passVars
  <2> SUFFICES ASSUME Given, DNext PROVE Kept
    OBVIOUS
  <2>1. CASE ~Amending
    BY <2>1, SchedulerStep
  <2>2. CASE \E x \in said : ApplyEntry(x)
    BY <2>2, AmendedGraph
  <2>3. CASE Amending /\ \A x \in said : ~ApplyEntry(x)
    <3>1. graph' = graph
      BY <2>3 DEF Amending, ReadDyndep, ReadFails, SkipEntry, RefuseEntry, BeginTargets, vars
    <3> QED
      BY <3>1
  <2> QED
    BY <2>1, <2>2, <2>3
<1> QED
  BY <1>1, GivenAlways, PTL DEF DSpec, ProducersKept

-----------------------------------------------------------------------------
(* The first pass stays inside the edges that come first.                  *)

Ahead(C) ==
    /\ Wanted \subseteq C
    /\ phase \in {"want", "run"} => graph = plan.graph
    /\ \A b \in C : ordering[b] \subseteq Reads(plan, b)
    /\ \A b \in C : \A f \in Reads(plan, b) : graph.producer[f] = plan.graph.producer[f]
    /\ \A r \in results : r.fids \subseteq Reads(plan, r.bid)
    /\ phase = "want" => ToSet(todo) \subseteq DyndepFiles

InFirst == \E C \in SUBSET Build : ComesFirst(C, plan) /\ Ahead(C)

Passed == \/ pass = "dyndep" /\ InFirst
          \/ pass = "build" /\ unread = {} /\ said = {} /\ TargetsTaken

SepInv == Given /\ OInv /\ OkPaid /\ Passed

(* What an edge of C reads is made in C. *)
LEMMA ReadsInside ==
    ASSUME plan \in Plans, NEW C \in SUBSET Build, ComesFirst(C, plan),
           graph = plan.graph, NEW b \in C, NEW F \in SUBSET Reads(plan, b)
    PROVE  Producers(F) \subseteq C
  BY DEF ComesFirst, Producers

(* A walk from producers in C along what C reads stays in C. *)
LEMMA WalkInside ==
    ASSUME plan \in Plans, NEW C \in SUBSET Build, ComesFirst(C, plan),
           graph = plan.graph, NEW ord \in [Build -> SUBSET File],
           \A b \in C : ord[b] \subseteq Reads(plan, b),
           NEW files, Producers(files) \subseteq C
    PROVE  NewlyWanted(ord, files) \subseteq C
<1> DEFINE dep == [b \in Build |-> WalkDeps(ord)[b] \cap Unneeded]
           S   == Producers(files) \cap Unneeded
<1>1. ASSUME NEW b \in C PROVE dep[b] \subseteq C
  <2>1. WalkDeps(ord)[b] = Producers(ord[b]) \cup Producers(graph.validation[b])
    BY DEF WalkDeps
  <2>2. ord[b] \subseteq Reads(plan, b) /\ graph.validation[b] \subseteq Reads(plan, b)
    BY DEF Reads
  <2>3. Producers(ord[b]) \subseteq C /\ Producers(graph.validation[b]) \subseteq C
    BY <2>2, ReadsInside
  <2> QED
    BY <2>1, <2>3
<1>2. S \subseteq C
  OBVIOUS
<1>3. NewlyWanted(ord, files) = Reach(S, dep)
  BY DEF NewlyWanted
<1> HIDE DEF dep, S
<1> QED
  BY <1>1, <1>2, <1>3 DEF Reach

(* What such a walk marks is all that a step wants anew. *)
LEMMA MarkedInside ==
    ASSUME NEW C \in SUBSET Build, Wanted \subseteq C, NEW ord, NEW D \in SUBSET C,
           \A b \in Build : state'[b] = MarkedState(ord, D)[b] \/ state[b] # "Unneeded"
    PROVE  Wanted' \subseteq C
<1> SUFFICES ASSUME NEW b \in Build, state'[b] # "Unneeded", b \notin C PROVE FALSE
  BY DEF Wanted, Unneeded
<1>1. state[b] = "Unneeded"
  BY DEF Wanted, Unneeded
<1>2. b \notin D /\ b \notin MarkedReady(ord, D)
  BY DEF MarkedReady
<1>3. MarkedState(ord, D)[b] = state[b]
  BY <1>2 DEF MarkedState
<1> QED
  BY <1>1, <1>3

(* The initial states. *)
LEMMA SepInit == DInit /\ Separate(plan) => SepInv
<1> SUFFICES ASSUME DInit, Separate(plan) PROVE SepInv
  OBVIOUS
<1>1. Given
  BY GivenInit
<1>2. DyndepFiles \subseteq File /\ IsFiniteSet(DyndepFiles) /\ plan \in Plans
  BY PlanParts DEF DInit
<1>3. Lists(todo, DyndepFiles)
  BY <1>2, SetToSeqsLists DEF DInit, WantedFirst
<1>4. todo \in Seq(File) /\ ToSet(todo) = DyndepFiles
  BY <1>2, <1>3, ListsSize, SeqMonotonic DEF Lists
<1>5. OInv
  BY <1>4, OrderFresh DEF DInit
<1>6. OkPaid
  BY DEF DInit, Fresh, OkPaid
<1>7. PICK C \in SUBSET Build : ComesFirst(C, plan)
  BY DEF Separate
<1>8. Ahead(C)
  BY <1>4 DEF DInit, Fresh, Ahead, Wanted, Unneeded, Reads
<1> QED
  BY <1>1, <1>5, <1>6, <1>7, <1>8 DEF SepInv, Passed, InFirst, DInit

(* A step of the scheduler in the first pass. *)
LEMMA AheadStep ==
    ASSUME Given, OInv, NEW C \in SUBSET Build, ComesFirst(C, plan), Ahead(C),
           plan' = plan, Main \/ \E b \in Build : Task(b)
    PROVE  Ahead(C)'
<1>1. /\ phase \in {"want", "run"} /\ graph' = graph /\ graph = plan.graph
      /\ plan \in Plans /\ plan.graph \in Graph
      /\ ordering \in [Build -> SUBSET File] /\ results \subseteq Result
      /\ state \in [Build -> BuildState] /\ todo \in Seq(File) /\ ready \in Seq(Build)
      /\ BInv
  <2>1. phase \in {"want", "run"}
    BY DEF Main, WantTarget, WantTargetRefused, BeginRun, StartEdge, StartFails, Handle,
           Receive, HandleDone, HandleFailure, DeferralAddsNothing, DeferralRefused,
           DeferralRequeued, DeferralWantFails, EndRun, Task, TaskEmits, TaskFails, TaskDefers
  <2> QED
    BY <2>1, GraphFixed, PlanParts DEF Next, Ahead, Given, OInv, BInv, TypeOK
<1> DEFINE Within == /\ Wanted' \subseteq C
                     /\ \A b \in C : ordering'[b] \subseteq Reads(plan, b)
                     /\ \A r \in results' : r.fids \subseteq Reads(plan, r.bid)
                     /\ phase' = "want" => ToSet(todo') \subseteq DyndepFiles
<1>2. SUFFICES Within
  BY <1>1 DEF Ahead, DyndepFiles, Reads
<1>3. CASE WantTarget
  <2> DEFINE D == NewlyWanted(ordering, {Head(todo)})
  <2>1. /\ todo # <<>> /\ todo' = Tail(todo) /\ phase = "want"
        /\ state' = MarkedState(ordering, D)
        /\ ordering' = ordering /\ results' = results
    BY <1>3 DEF WantTarget
  <2>2. Head(todo) \in ToSet(todo) /\ ToSet(todo') \subseteq ToSet(todo)
    <3>1. /\ Head(todo) = todo[1] /\ 1 \in DOMAIN todo
          /\ \A i \in DOMAIN todo' : i + 1 \in DOMAIN todo /\ todo'[i] = todo[i + 1]
      BY <1>1, <2>1
    <3> QED
      BY <3>1 DEF ToSet
  <2>3. Producers({Head(todo)}) \subseteq C
    BY <1>1, <2>1, <2>2 DEF Ahead, ComesFirst, Producers, DyndepFiles
  <2>4. D \subseteq C
    BY <1>1, <2>3, WalkInside DEF Ahead
  <2> HIDE DEF D
  <2>5. Wanted' \subseteq C
    BY <2>1, <2>4, MarkedInside DEF Ahead
  <2> QED
    BY <2>1, <2>2, <2>5 DEF Ahead
<1>4. CASE WantTargetRefused \/ BeginRun \/ EndRun
  <2>1. /\ state' = state /\ ordering' = ordering /\ results' = results /\ phase' # "want"
    BY <1>4 DEF WantTargetRefused, BeginRun, EndRun
  <2> QED
    BY <2>1 DEF Ahead, Wanted, Unneeded
<1>5. CASE StartEdge \/ StartFails
  <2>1. /\ ready # <<>> /\ state' = [state EXCEPT ![Head(ready)] = "Running"]
        /\ ready' = Tail(ready) /\ pending' = pending
        /\ ordering' = ordering /\ phase' # "want"
        /\ results' = results \/ results' = results \cup {Answer(Head(ready), "ok", {})}
    BY <1>5 DEF StartEdge, StartFails
  <2>2. Head(ready) \in Build /\ state[Head(ready)] = "Ready"
    BY <1>1, <2>1, Starting DEF BInv
  <2>3. Wanted' \subseteq C
    BY <1>1, <2>1, <2>2 DEF Ahead, Wanted, Unneeded
  <2>4. \A r \in results' : r.fids \subseteq Reads(plan, r.bid)
    BY <2>1 DEF Ahead, Answer
  <2> QED
    BY <2>1, <2>3, <2>4 DEF Ahead
<1>6. ASSUME NEW b \in Build, Task(b) PROVE Within
  <2>1. /\ state' = state /\ ordering' = ordering /\ phase' # "want"
        /\ \A r \in results' \ results : r.bid = b /\ r.fids \in {{}} \cup graph.miss[b]
    BY <1>6 DEF Task, TaskEmits, TaskFails, TaskDefers, Answer
  <2>2. \A r \in results' : r.fids \subseteq Reads(plan, r.bid)
    BY <1>1, <2>1 DEF Ahead, Reads
  <2> QED
    BY <2>1, <2>2 DEF Ahead, Wanted, Unneeded
<1>7. ASSUME NEW r \in results, Handle(r) PROVE Within
  <2>1. /\ Receive(r) /\ results' = results \ {r} /\ phase' # "want"
    BY <1>7 DEF Handle, Receive, HandleDone, HandleFailure, DeferralFails,
           DeferralAddsNothing, DeferralRefused, DeferralRequeued, DeferralWantFails
  <2>2. /\ r.bid \in Build /\ state[r.bid] = "Running" /\ r.fids \subseteq File
        /\ r.bid \in C
    BY <1>1, <2>1, Taking DEF BInv, Ahead, Wanted, Unneeded
  <2>3. SUFFICES /\ Wanted' \subseteq C
                 /\ \A b \in C : ordering'[b] \subseteq Reads(plan, b)
    BY <2>1 DEF Ahead
  <2>4. CASE HandleDone(r)
    <3>1. Wanted' = Wanted
      BY <2>4, DoneFinishes
    <3> QED
      BY <2>4, <3>1 DEF Ahead, HandleDone
  <2>5. CASE HandleFailure(r) \/ DeferralRefused(r) \/ DeferralAddsNothing(r)
    <3>1. ordering' = ordering /\ (state' = state \/ state' = [state EXCEPT ![r.bid] = "Ready"])
      BY <2>5 DEF HandleFailure, DeferralRefused, DeferralAddsNothing
    <3> QED
      BY <1>1, <2>2, <3>1 DEF Ahead, Wanted, Unneeded
  <2>6. ASSUME ordering' = WithImplicitInputs(r.bid, NewIds(r)),
               NEW D \in SUBSET NewlyWanted(ordering', NewIds(r)),
               \A b \in Build : state'[b] = MarkedState(ordering', D)[b] \/ state[b] # "Unneeded"
        PROVE  /\ Wanted' \subseteq C
               /\ \A b \in C : ordering'[b] \subseteq Reads(plan, b)
    <3>1. /\ ordering' \in [Build -> SUBSET File]
          /\ \A b \in Build : b # r.bid => ordering'[b] = ordering[b]
          /\ ordering'[r.bid] \subseteq ordering[r.bid] \cup NewIds(r)
      BY <1>1, <2>1, <2>6, EditTypes
    <3>2. NewIds(r) \subseteq Reads(plan, r.bid)
      BY DEF NewIds, Ahead
    <3>3. \A b \in C : ordering'[b] \subseteq Reads(plan, b)
      BY <3>1, <3>2 DEF Ahead
    <3>4. Producers(NewIds(r)) \subseteq C
      BY <1>1, <2>2, <3>2, ReadsInside
    <3>5. NewlyWanted(ordering', NewIds(r)) \subseteq C
      BY <1>1, <3>1, <3>3, <3>4, WalkInside
    <3>6. Wanted' \subseteq C
      BY <2>6, <3>5, MarkedInside DEF Ahead
    <3> QED
      BY <3>3, <3>6
  <2>7. CASE DeferralRequeued(r)
    <3> DEFINE D == NewlyWanted(ordering', NewIds(r))
    <3>1. /\ ordering' = WithImplicitInputs(r.bid, NewIds(r))
          /\ state' = [MarkedState(ordering', D) EXCEPT
                           ![r.bid] = IF RecheckReady(ordering', r.bid) THEN "Ready" ELSE "Want"]
      BY <2>7 DEF DeferralRequeued
    <3> HIDE DEF D
    <3>2. \A b \in Build : state'[b] = MarkedState(ordering', D)[b] \/ state[b] # "Unneeded"
      BY <2>2, <3>1 DEF MarkedState
    <3> QED
      BY <2>6, <3>1, <3>2 DEF D
  <2>8. CASE DeferralWantFails(r)
    <3>1. PICK D \in PartlyWalked(ordering', NewlyWanted(ordering', NewIds(r))) :
             state' = MarkedState(ordering', D)
      BY <2>8 DEF DeferralWantFails
    <3>2. D \in SUBSET NewlyWanted(ordering', NewIds(r))
      BY DEF PartlyWalked
    <3>3. ordering' = WithImplicitInputs(r.bid, NewIds(r))
      BY <2>8 DEF DeferralWantFails
    <3> QED
      BY <2>6, <3>1, <3>2, <3>3
  <2> QED
    BY <1>7, <2>4, <2>5, <2>7, <2>8 DEF Handle
<1> QED
  BY <1>3, <1>4, <1>5, <1>6, <1>7 DEF Main

(* An amendment leaves the finished edges and what they wait on alone.     *)
LEMMA ApplyKeeps ==
    ASSUME Given, OInv, OkPaid, NEW C \in SUBSET Build, ComesFirst(C, plan), Ahead(C),
           NEW x \in said, ApplyEntry(x)
    PROVE  OInv' /\ OkPaid' /\ Ahead(C)'
<1> DEFINE b == graph.producer[x[2].out]
<1>1. /\ phase = "ok" /\ phase' \in {"ok", "abort"}
      /\ b \in plan.bound[x[1]] /\ ordering' = WithImplicitInputs(b, x[2].ins)
      /\ UNCHANGED <<keepGoing, state, pending, ready, noDefer, threads, results,
                     running, failed, emitted, todo, plan, pass, unread>>
  BY DEF ApplyEntry, Reading, GiveUp
<1>2. /\ x[1] \in DyndepFiles /\ x[2] \in plan.says[x[1]] /\ plan \in Plans
      /\ x[2] \in Entry /\ DyndepFiles = DOMAIN plan.bound
  BY DEF Given, SaidTyped, DyndepFiles
<1>3. b \in Build /\ b \notin C
  BY <1>1, <1>2, PlanParts DEF ComesFirst
<1>4. /\ Wanted = Done /\ results = {} /\ Wanted \subseteq C /\ Stuck = {}
      /\ Wanted' = Wanted /\ Done' = Done /\ Stuck' = Stuck
  BY <1>1 DEF OkPaid, Ahead, Wanted, Done, Unneeded, Stuck, Answered
<1>5. /\ graph' \in Graph
      /\ \A f \in File : graph'.producer[f] # graph.producer[f]
            => graph.producer[f] = NoBuild /\ f \in x[2].outs
  BY AmendedGraph
<1>6. /\ ordering \in [Build -> SUBSET File] /\ graph \in Graph /\ BInv /\ TypeOK
      /\ plan.graph \in Graph
  BY PlanParts DEF OInv, BInv, TypeOK, Given
<1>7. x[2].ins \subseteq File
  BY <1>2 DEF Entry
<1> HIDE DEF b
<1>8. /\ ordering' \in [Build -> SUBSET File]
      /\ \A c \in C : ordering'[c] = ordering[c]
  BY <1>1, <1>3, <1>6, <1>7 DEF WithImplicitInputs
<1>9. ASSUME NEW c \in C, NEW f \in Reads(plan, c)
      PROVE  graph'.producer[f] = graph.producer[f]
  <2>1. f \in File
    BY <1>6 DEF Reads, Graph
  <2>2. graph.producer[f] = plan.graph.producer[f]
    BY DEF Ahead
  <2>3. plan.graph.producer[f] = NoBuild => f \notin x[2].outs
    BY <1>2 DEF ComesFirst
  <2> QED
    BY <1>5, <2>1, <2>2, <2>3
<1>10. Ahead(C)'
  BY <1>1, <1>4, <1>8, <1>9 DEF Ahead, Reads
<1>11. OkPaid'
  BY <1>1, <1>4 DEF OkPaid
<1>12. TypeOK'
  BY <1>1, <1>5, <1>6, <1>8 DEF TypeOK
<1>13. PendingExact' /\ QueueExact' /\ OutExact'
  BY <1>1, <1>6 DEF BInv, PendingExact, Owed, QueueExact, ReadySet, ReadyIn, OutExact
<1>14. \A c \in C : Producers(ordering[c])' = Producers(ordering[c])
  <2>1. ASSUME NEW c \in C PROVE \A f \in ordering[c] : graph'.producer[f] = graph.producer[f]
    BY <1>9, <2>1 DEF Ahead
  <2> QED
    BY <1>8, <2>1 DEF Producers
<1>15. \A c \in Wanted : OrderDeps(ordering)'[c] = OrderDeps(ordering)[c]
  BY <1>4, <1>14 DEF OrderDeps
<1>16. OrderRespected'
  <2>1. ASSUME NEW c \in Wanted PROVE RecheckReady(ordering, c)
    BY <1>4, <2>1 DEF OInv, OrderRespected, Done
  <2>2. ASSUME NEW c \in Wanted PROVE RecheckReady(ordering, c)'
    BY <1>1, <1>4, <1>14, <2>1, <2>2 DEF RecheckReady
  <2>3. \A c \in Build : state[c] # "Unneeded" => c \in Wanted /\ state[c] = "Done"
    BY <1>4 DEF Wanted, Unneeded, Done
  <2> QED
    BY <1>1, <2>2, <2>3 DEF OrderRespected
<1>17. NoKnots'
  <2>1. Acyclic(Wanted, OrderDeps(ordering))
    BY <1>4 DEF OInv, NoKnots
  <2>2. Acyclic(Wanted', OrderDeps(ordering)')
    BY <1>4, <1>15, <2>1, AcyclicPart
  <2>3. Wanted' \ Stuck' = Wanted'
    BY <1>4
  <2> QED
    BY <2>2, <2>3 DEF NoKnots
<1>18. Closed'
  BY <1>4, <1>15 DEF OInv, Closed
<1>19. NoneStuck'
  BY <1>4 DEF NoneStuck
<1> QED
  BY <1>10, <1>11, <1>12, <1>13, <1>16, <1>17, <1>18, <1>19 DEF OInv, BInv

(* A step that ends the passes on an error. *)
LEMMA GiveUpKeeps ==
    ASSUME OInv, GiveUp, phase = "ok",
           UNCHANGED <<graph, keepGoing, ordering, state, pending, ready, noDefer,
                       threads, results, running, failed, emitted, todo>>
    PROVE  OInv' /\ OkPaid'
<1>1. Still /\ phase' = "abort"
  BY DEF GiveUp, Still
<1> QED
  BY <1>1, OrderStill DEF OkPaid

(* The second run starts on a clean slate. *)
LEMMA BeginKeeps ==
    ASSUME OInv, OkPaid, BeginTargets
    PROVE  OInv' /\ OkPaid' /\ TargetsTaken'
<1>1. /\ phase = "ok" /\ phase' = "want" /\ todo' = graph.targets
      /\ running' = 0 /\ failed' = 0
      /\ UNCHANGED <<graph, keepGoing, ordering, state, pending, ready, noDefer,
                     threads, results, emitted>>
  BY DEF BeginTargets, Reading
<1>2. /\ Wanted = Done /\ results = {} /\ BInv /\ TypeOK /\ OutExact
  BY <1>1 DEF OkPaid, OInv, BInv
<1>3. threads = {} /\ Stuck = {}
  BY <1>2 DEF OutExact, TypeOK, Wanted, Done, Unneeded, Stuck
<1>4. todo' \in Seq(File)
  BY <1>1, <1>2 DEF TypeOK, Graph
<1>5. TypeOK'
  BY <1>1, <1>2, <1>4 DEF TypeOK
<1>6. PendingExact' /\ QueueExact'
  BY <1>1 DEF OInv, BInv, PendingExact, Owed, QueueExact, ReadySet, ReadyIn
<1>7. OutExact'
  BY <1>1, <1>2, <1>3, FS_EmptySet DEF OutExact
<1>8. /\ Wanted' = Wanted /\ Done' = Done /\ Stuck' = Stuck
      /\ OrderDeps(ordering)' = OrderDeps(ordering)
      /\ \A b \in Build : RecheckReady(ordering, b)' <=> RecheckReady(ordering, b)
  BY <1>1 DEF Wanted, Done, Unneeded, Stuck, Answered, OrderDeps, Producers, RecheckReady
<1>9. OrderRespected' /\ NoKnots' /\ Closed' /\ NoneStuck'
  BY <1>1, <1>3, <1>8 DEF OInv, OrderRespected, NoKnots, Closed, NoneStuck
<1>10. OkPaid' /\ TargetsTaken'
  BY <1>1 DEF OkPaid, TargetsTaken, Producers
<1> QED
  BY <1>5, <1>6, <1>7, <1>9, <1>10 DEF OInv, BInv

(* Every step, of either pass or between them. *)
LEMMA SepStep == SepInv /\ [DNext]_passVars => SepInv'
<1> SUFFICES ASSUME SepInv, [DNext]_passVars PROVE SepInv'
  OBVIOUS
<1>1. /\ Given /\ OInv /\ OkPaid /\ Passed
      /\ Given' /\ plan' = plan
  BY GivenStep, PlanFixed DEF SepInv
<1>2. CASE UNCHANGED passVars
  <2>1. UNCHANGED vars /\ UNCHANGED dvars
    BY <1>2 DEF passVars
  <2>2. OInv' /\ OkPaid' /\ (TargetsTaken => TargetsTaken')
    BY <1>1, <2>1, OrderStep, PaidStep, TakenStep
  <2>3. InFirst => InFirst'
    BY <2>1 DEF vars, dvars, InFirst, Ahead, Wanted, Unneeded, DyndepFiles
  <2> QED
    BY <1>1, <2>1, <2>2, <2>3 DEF SepInv, Passed, dvars
<1>3. CASE DNext /\ ~Amending
  <2>1. UNCHANGED dvars /\ [Next]_vars
    BY <1>3, SchedulerStep
  <2>2. OInv' /\ OkPaid' /\ (TargetsTaken => TargetsTaken')
    BY <1>1, <2>1, OrderStep, PaidStep, TakenStep
  <2>3. InFirst => InFirst'
    <3>1. CASE Main \/ \E b \in Build : Task(b)
      <4> SUFFICES ASSUME NEW C \in SUBSET Build, ComesFirst(C, plan), Ahead(C)
                   PROVE  ComesFirst(C, plan') /\ Ahead(C)'
        BY DEF InFirst
      <4> QED
        BY <1>1, <3>1, AheadStep
    <3>2. CASE Stopped
      BY <2>1, <3>2 DEF Stopped, vars, dvars, InFirst, Ahead, Wanted, Unneeded, DyndepFiles
    <3> QED
      BY <1>3, <3>1, <3>2 DEF DNext
  <2> QED
    BY <1>1, <2>1, <2>2, <2>3 DEF SepInv, Passed, dvars
<1>4. CASE Amending
  <2>1. /\ pass = "dyndep" /\ phase = "ok"
        /\ InFirst
    BY <1>1, <1>4 DEF Amending, ReadDyndep, ReadFails, SkipEntry, RefuseEntry, ApplyEntry,
           BeginTargets, Reading, Passed
  <2>2. PICK C \in SUBSET Build : ComesFirst(C, plan) /\ Ahead(C)
    BY <2>1 DEF InFirst
  <2>3. SUFFICES /\ OInv' /\ OkPaid'
                 /\ \/ pass' = "dyndep" /\ Ahead(C)'
                    \/ pass' = "build" /\ unread' = {} /\ said' = {} /\ TargetsTaken'
    BY <1>1, <2>2 DEF SepInv, Passed, InFirst
  <2>4. CASE \/ \E f \in unread : ReadDyndep(f)
             \/ \E x \in said : SkipEntry(x)
    <3>1. UNCHANGED vars /\ pass' = pass /\ plan' = plan
      BY <2>4 DEF ReadDyndep, SkipEntry
    <3>2. OInv' /\ OkPaid'
      BY <1>1, <3>1, OrderStep, PaidStep
    <3>3. Ahead(C)'
      BY <2>2, <3>1 DEF vars, Ahead, Wanted, Unneeded, DyndepFiles
    <3> QED
      BY <2>1, <3>1, <3>2, <3>3
  <2>5. CASE \/ \E f \in unread : ReadFails(f)
             \/ \E x \in said : RefuseEntry(x)
    <3>1. /\ GiveUp /\ UNCHANGED dvars
          /\ UNCHANGED <<graph, keepGoing, ordering, state, pending, ready, noDefer,
                         threads, results, running, failed, emitted, todo>>
      BY <2>5 DEF ReadFails, RefuseEntry
    <3>2. OInv' /\ OkPaid'
      BY <1>1, <2>1, <3>1, GiveUpKeeps
    <3>3. Ahead(C)'
      BY <2>2, <3>1 DEF GiveUp, dvars, Ahead, Wanted, Unneeded, DyndepFiles
    <3> QED
      BY <2>1, <3>1, <3>2, <3>3 DEF dvars
  <2>6. CASE \E x \in said : ApplyEntry(x)
    <3>1. PICK x \in said : ApplyEntry(x)
      BY <2>6
    <3>2. pass' = pass
      BY <3>1 DEF ApplyEntry
    <3> QED
      BY <1>1, <2>1, <2>2, <3>1, <3>2, ApplyKeeps
  <2>7. CASE BeginTargets
    <3>1. pass' = "build" /\ unread' = {} /\ said' = {}
      BY <2>7 DEF BeginTargets
    <3> QED
      BY <1>1, <2>7, <3>1, BeginKeeps
  <2> QED
    BY <1>4, <2>4, <2>5, <2>6, <2>7 DEF Amending
<1> QED
  BY <1>2, <1>3, <1>4

LEMMA SepAlways == DSpec /\ Separate(plan) => []SepInv
  BY SepInit, SepStep, PTL DEF DSpec

(* While a dyndep file is not read, or an entry of it not applied, no edge *)
(* that names the file has started: the first pass stays inside the edges  *)
(* the dyndep files are built from, deferrals included.                    *)
THEOREM AmendedFirst == DSpec /\ Separate(plan) => []AmendedBeforeRun
<1>1. SepInv => AmendedBeforeRun
  <2> SUFFICES ASSUME SepInv, NEW f \in Unapplied, NEW b \in plan.bound[f]
               PROVE  state[b] \notin {"Running", "Done"}
    BY DEF AmendedBeforeRun
  <2>1. f \in DyndepFiles /\ ~(unread = {} /\ said = {})
    BY DEF SepInv, Given, SaidTyped, Unapplied
  <2>2. PICK C \in SUBSET Build : ComesFirst(C, plan) /\ Ahead(C)
    BY <2>1 DEF SepInv, Passed, InFirst
  <2>3. b \in Build /\ b \notin C
    BY <2>1, <2>2, PlanParts DEF ComesFirst, DyndepFiles, SepInv, Given
  <2> QED
    BY <2>2, <2>3 DEF Ahead, Wanted, Unneeded
<1> QED
  BY <1>1, SepAlways, PTL

(* A run that is ok after both passes has built every target, and every    *)
(* edge it built came after the makers of its inputs, those the dyndep     *)
(* files gave it and those that turned out to be made by an amended edge   *)
(* included.                                                               *)
THEOREM BothPassesBuild == DSpec /\ Separate(plan) => []TargetsBuilt
<1>1. SepInv => TargetsBuilt
  <2> SUFFICES ASSUME SepInv, pass = "build", phase = "ok"
               PROVE  /\ Wanted = Done
                      /\ Producers(ToSet(graph.targets)) \subseteq Done
                      /\ \A b \in Done : OrderDeps(ordering)[b] \subseteq Done
    BY DEF TargetsBuilt
  <2>1. Wanted = Done /\ todo = <<>> /\ TargetsTaken
    BY DEF SepInv, OkPaid, Passed, TargetsTaken
  <2>2. Producers(ToSet(graph.targets)) \subseteq Done
    BY <2>1 DEF TargetsTaken, ToSet, Producers
  <2>3. Stuck = {}
    BY <2>1 DEF Stuck, Wanted, Done, Unneeded
  <2>4. \A b \in Done : OrderDeps(ordering)[b] \subseteq Done
    BY <2>1, <2>3 DEF SepInv, OInv, Closed
  <2> QED
    BY <2>1, <2>2, <2>4
<1> QED
  BY <1>1, SepAlways, PTL

(* The scheduler's own promises, over both passes and the amendments       *)
(* between them: the books balance, the order is respected, and neither    *)
(* run starves with no failure on record.                                  *)
THEOREM OrderedOverBoth ==
    DSpec /\ Separate(plan) => [](Bookkeeping /\ OrderRespected /\ NoSilentStall)
<1>1. SepInv => Bookkeeping /\ OrderRespected /\ NoSilentStall
  BY BooksFromInv, StallFromInv DEF SepInv, OInv
<1> QED
  BY <1>1, SepAlways, PTL

=============================================================================
