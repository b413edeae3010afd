----------------------- MODULE AllocationSearchProofs -----------------------
(***************************************************************************)
(* Proofs about AllocationSearch, for every table of devices and every     *)
(* request: the one record that all levels of the recursion share always   *)
(* holds the score and the counters of the chosen devices; every request   *)
(* that makes sense is answered; the lower bounds are admissible; and the  *)
(* search implements BranchAndBound and answers with the optimum.          *)
(***************************************************************************)
EXTENDS AllocationSearchLemmas

-----------------------------------------------------------------------------
(* The search record *)

\* The first n elements of a list.
Upto(q, n) == {q[i] : i \in 1 .. n}

Distinct(q) == \A i, j \in 1 .. Len(q) : i # j => q[i] # q[j]

\* An allocationSearch has the fields it has.
Fields(t) ==
    t = [candidates |-> t.candidates, minDistance |-> t.minDistance,
         minSeparateRoots |-> t.minSeparateRoots, chosen |-> t.chosen,
         sidCounts |-> t.sidCounts, numaCounts |-> t.numaCounts,
         score |-> t.score, best |-> t.best, bestScore |-> t.bestScore]

\* The counters of the groups and the nodes of a set of devices.
GroupCounts(tab, avail, S) ==
    [k \in {sidKey(tab, d) : d \in avail} |-> Cardinality({d \in S : sidKey(tab, d) = k})]
NodeCounts(tab, avail, S) ==
    [n \in {tab[d].numa : d \in avail} \ {-1} |-> Cardinality({d \in S : tab[d].numa = n})]

\* Score and counters of t are those of its chosen devices.
Consistent(tab, avail, t) ==
    /\ Fields(t)
    /\ t.chosen \in Seq(avail)
    /\ Distinct(t.chosen)
    /\ t.sidCounts = GroupCounts(tab, avail, ToSet(t.chosen))
    /\ t.numaCounts = NodeCounts(tab, avail, ToSet(t.chosen))
    /\ t.score = Score(tab, ToSet(t.chosen))

\* newTopologyAllocator of a table.
Allocator(tab, avail) ==
    LET endpoint == [d \in avail |-> pciDeviceAncestors(tab[d].link)]
    IN  [sid |-> [d \in avail |-> sidKey(tab, d)],
         numa |-> [d \in avail |-> tab[d].numa],
         path |-> endpoint,
         pairs |-> [d \in avail |-> [e \in avail |-> distance(endpoint[d], endpoint[e])]]]

-----------------------------------------------------------------------------
(* The inductive invariant *)

\* The table and the request are what the program can be given.
Asked ==
    /\ devices \in Seq(Device)
    /\ request \in [available : Seq(Nat), must : Seq(Nat), size : Int]

\* There is something to search for, and what is chosen begins with the
\* mandatory devices.
Searching ==
    /\ ~Rejected
    /\ Len(selected) < request.size
    /\ a = Allocator(devices, Available)
    /\ Consistent(devices, Available, s)
    /\ s.candidates = Sorted(Available \ ToSet(selected))
    /\ s.best \in Seq(Available)
    /\ \A i \in 1 .. Len(s.chosen) : i <= Len(selected) => s.chosen[i] = selected[i]

\* What an open call may remember.
Frame == [i : 1 .. Len(s.candidates), previous : {Score(devices, S) : S \in SUBSET Available}]

\* Every open call has chosen the candidate its loop variable names and
\* remembers the score from before; loop variables increase.
Stacked ==
    /\ frames \in Seq(Frame)
    /\ Len(s.chosen) = Len(selected) + Len(frames)
    /\ \A j \in 1 .. Len(frames) :
        /\ frames[j].i < next
        /\ s.chosen[Len(selected) + j] = s.candidates[frames[j].i]
        /\ frames[j].previous = Score(devices, Upto(s.chosen, Len(selected) + j - 1))
        /\ \A k \in 1 .. Len(frames) : j < k => frames[j].i < frames[k].i

SearchInv ==
    /\ Asked
    /\ pc \in {"request", "must", "enter", "loop", "done"}
    /\ answer \in Seq(Available)
    /\ pc \in {"request", "must"} => frames = <<>>
    /\ pc \in {"must", "enter", "loop"} => Searching
    /\ pc = "must" => Len(s.chosen) <= Len(selected)
    /\ pc \in {"enter", "loop"} => Stacked /\ next \in 1 .. Len(s.candidates) + 1
    /\ pc = "enter" => Len(s.chosen) <= request.size
    /\ pc = "loop" => Len(s.chosen) < request.size

-----------------------------------------------------------------------------
(* add and undo *)

\* A counter of f goes up, and down again.
Up(f, k) == [f EXCEPT ![k] = @ + 1]
Down(f, k) == [f EXCEPT ![k] = @ - 1]

\* One more element in a set.
LEMMA CountAdd ==
    ASSUME NEW S, IsFiniteSet(S), NEW d, d \notin S, NEW A \in SUBSET S, NEW B,
           NEW c \in BOOLEAN, B = IF c THEN A \cup {d} ELSE A
    PROVE  Cardinality(B) = Cardinality(A) + One(c)
<1>1. IsFiniteSet(A) /\ d \notin A
  BY FS_Subset
<1> QED
  BY <1>1, OneMore

LEMMA GroupCountsAdd ==
    ASSUME NEW tab, NEW avail, NEW S, IsFiniteSet(S), NEW d \in avail, d \notin S
    PROVE  GroupCounts(tab, avail, S \cup {d}) =
             Up(GroupCounts(tab, avail, S), sidKey(tab, d))
<1> DEFINE K == {sidKey(tab, e) : e \in avail}
           Of(k, T) == {e \in T : sidKey(tab, e) = k}
<1>1. \A k \in K : Cardinality(Of(k, S)) \in Nat
  BY FS_Subset, FS_CardinalityType
<1>2. \A k \in K : Cardinality(Of(k, S \cup {d})) =
                     IF k = sidKey(tab, d) THEN Cardinality(Of(k, S)) + 1 ELSE Cardinality(Of(k, S))
  <2>1. SUFFICES ASSUME NEW k \in K
                 PROVE  Cardinality(Of(k, S \cup {d})) =
                          IF k = sidKey(tab, d) THEN Cardinality(Of(k, S)) + 1 ELSE Cardinality(Of(k, S))
    OBVIOUS
  <2> DEFINE A == Of(k, S)
             B == Of(k, S \cup {d})
             c == k = sidKey(tab, d)
  <2>2. A \in SUBSET S /\ c \in BOOLEAN /\ B = IF c THEN A \cup {d} ELSE A
    OBVIOUS
  <2>3. Cardinality(A) \in Nat
    BY <1>1
  <2> HIDE DEF A, B, c
  <2>4. Cardinality(B) = Cardinality(A) + One(c)
    BY <2>2, CountAdd
  <2>5. Cardinality(B) = IF c THEN Cardinality(A) + 1 ELSE Cardinality(A)
    BY <2>3, <2>4 DEF One
  <2> QED BY <2>5 DEF A, B, c
<1>3. GroupCounts(tab, avail, S) = [k \in K |-> Cardinality(Of(k, S))]
  BY DEF GroupCounts
<1>4. GroupCounts(tab, avail, S \cup {d}) = [k \in K |-> Cardinality(Of(k, S \cup {d}))]
  BY DEF GroupCounts
<1>5. sidKey(tab, d) \in K
  OBVIOUS
<1> HIDE DEF K, Of
<1> QED
  BY <1>2, <1>3, <1>4, <1>5 DEF Up

LEMMA NodeCountsAdd ==
    ASSUME NEW tab, NEW avail, NEW S, IsFiniteSet(S), NEW d \in avail, d \notin S
    PROVE  NodeCounts(tab, avail, S \cup {d}) =
             IF tab[d].numa = -1 THEN NodeCounts(tab, avail, S)
             ELSE Up(NodeCounts(tab, avail, S), tab[d].numa)
<1> DEFINE N == {tab[e].numa : e \in avail} \ {-1}
           Of(n, T) == {e \in T : tab[e].numa = n}
<1>1. \A n \in N : Cardinality(Of(n, S)) \in Nat
  BY FS_Subset, FS_CardinalityType
<1>2. \A n \in N : Cardinality(Of(n, S \cup {d})) =
                     IF n = tab[d].numa THEN Cardinality(Of(n, S)) + 1 ELSE Cardinality(Of(n, S))
  <2>1. SUFFICES ASSUME NEW n \in N
                 PROVE  Cardinality(Of(n, S \cup {d})) =
                          IF n = tab[d].numa THEN Cardinality(Of(n, S)) + 1 ELSE Cardinality(Of(n, S))
    OBVIOUS
  <2> DEFINE A == Of(n, S)
             B == Of(n, S \cup {d})
             c == n = tab[d].numa
  <2>2. A \in SUBSET S /\ c \in BOOLEAN /\ B = IF c THEN A \cup {d} ELSE A
    OBVIOUS
  <2>3. Cardinality(A) \in Nat
    BY <1>1
  <2> HIDE DEF A, B, c
  <2>4. Cardinality(B) = Cardinality(A) + One(c)
    BY <2>2, CountAdd
  <2>5. Cardinality(B) = IF c THEN Cardinality(A) + 1 ELSE Cardinality(A)
    BY <2>3, <2>4 DEF One
  <2> QED BY <2>5 DEF A, B, c
<1>3. NodeCounts(tab, avail, S) = [n \in N |-> Cardinality(Of(n, S))]
  BY DEF NodeCounts
<1>4. NodeCounts(tab, avail, S \cup {d}) = [n \in N |-> Cardinality(Of(n, S \cup {d}))]
  BY DEF NodeCounts
<1>5. tab[d].numa \in N <=> tab[d].numa # -1
  OBVIOUS
<1> HIDE DEF N, Of
<1> QED
  BY <1>2, <1>3, <1>4, <1>5 DEF Up

LEMMA AppendFacts ==
    ASSUME NEW A, NEW q \in Seq(A), NEW d \in A, Distinct(q), d \notin ToSet(q)
    PROVE  /\ Append(q, d) \in Seq(A)
           /\ Distinct(Append(q, d))
           /\ ToSet(Append(q, d)) = ToSet(q) \cup {d}
           /\ \A n \in 0 .. Len(q) : Upto(Append(q, d), n) = Upto(q, n)
           /\ Upto(q, Len(q)) = ToSet(q)
<1> DEFINE r == Append(q, d)
<1>1. /\ r \in Seq(A) /\ Len(q) \in Nat /\ Len(r) = Len(q) + 1
      /\ DOMAIN q = 1 .. Len(q) /\ DOMAIN r = 1 .. Len(q) + 1
      /\ \A i \in 1 .. Len(q) : r[i] = q[i]
      /\ r[Len(q) + 1] = d
  OBVIOUS
<1>2. \A i \in 1 .. Len(q) : q[i] # d
  BY <1>1 DEF ToSet
<1> HIDE DEF r
<1>3. Distinct(r)
  <2>1. SUFFICES ASSUME NEW i \in 1 .. Len(r), NEW j \in 1 .. Len(r), i # j PROVE r[i] # r[j]
    BY DEF Distinct
  <2>2. CASE i = Len(q) + 1
    BY <1>1, <1>2, <2>1, <2>2
  <2>3. CASE j = Len(q) + 1
    BY <1>1, <1>2, <2>1, <2>3
  <2>4. CASE i \in 1 .. Len(q) /\ j \in 1 .. Len(q)
    BY <1>1, <2>1, <2>4 DEF Distinct
  <2> QED BY <1>1, <2>2, <2>3, <2>4
<1>4. ToSet(r) = ToSet(q) \cup {d}
  <2>1. \A i \in 1 .. Len(q) + 1 : i \in 1 .. Len(q) \/ i = Len(q) + 1
    BY <1>1
  <2>2. \A i \in 1 .. Len(q) : i \in 1 .. Len(q) + 1
    BY <1>1
  <2>3. Len(q) + 1 \in 1 .. Len(q) + 1
    BY <1>1
  <2> QED BY <1>1, <2>1, <2>2, <2>3 DEF ToSet
<1>5. \A n \in 0 .. Len(q) : Upto(r, n) = Upto(q, n)
  <2>1. SUFFICES ASSUME NEW n \in 0 .. Len(q) PROVE Upto(r, n) = Upto(q, n)
    OBVIOUS
  <2>2. \A i \in 1 .. n : r[i] = q[i]
    BY <1>1
  <2> QED BY <2>2 DEF Upto
<1>6. Upto(q, Len(q)) = ToSet(q)
  BY <1>1 DEF Upto, ToSet
<1> QED
  BY <1>1, <1>3, <1>4, <1>5, <1>6 DEF r

FieldNames == {"candidates", "minDistance", "minSeparateRoots", "chosen", "sidCounts",
               "numaCounts", "score", "best", "bestScore"}

\* The search record with another choice of devices.
Updated(t, chosen, sidCounts, numaCounts, score) ==
    [candidates |-> t.candidates, minDistance |-> t.minDistance,
     minSeparateRoots |-> t.minSeparateRoots, chosen |-> chosen,
     sidCounts |-> sidCounts, numaCounts |-> numaCounts,
     score |-> score, best |-> t.best, bestScore |-> t.bestScore]

\* The same, as add and undo write it.
Changed(t, chosen, sidCounts, numaCounts, score) ==
    [t EXCEPT !.chosen = chosen, !.sidCounts = sidCounts, !.numaCounts = numaCounts, !.score = score]

LEMMA ChangedFields ==
    ASSUME NEW t, Fields(t), NEW c, NEW g, NEW n, NEW v
    PROVE  LET r == Changed(t, c, g, n, v)
           IN  /\ Fields(r)
               /\ r.candidates = t.candidates /\ r.best = t.best /\ r.bestScore = t.bestScore
               /\ r.minDistance = t.minDistance /\ r.minSeparateRoots = t.minSeparateRoots
               /\ r.chosen = c /\ r.sidCounts = g /\ r.numaCounts = n /\ r.score = v
<1> DEFINE r == Updated(t, c, g, n, v)
           q == [t EXCEPT !.chosen = c, !.sidCounts = g, !.numaCounts = n, !.score = v]
<1>1. DOMAIN t = FieldNames /\ t = [x \in FieldNames |-> t[x]]
  <2> DEFINE t1 == t.candidates
             t2 == t.minDistance
             t3 == t.minSeparateRoots
             t4 == t.chosen
             t5 == t.sidCounts
             t6 == t.numaCounts
             t7 == t.score
             t8 == t.best
             t9 == t.bestScore
  <2>1. t = [candidates |-> t1, minDistance |-> t2, minSeparateRoots |-> t3,
             chosen |-> t4, sidCounts |-> t5, numaCounts |-> t6,
             score |-> t7, best |-> t8, bestScore |-> t9]
    BY DEF Fields
  <2> HIDE DEF t1, t2, t3, t4, t5, t6, t7, t8, t9
  <2>2. DOMAIN t = FieldNames
    BY <2>1 DEF FieldNames
  <2> QED BY <2>1, <2>2 DEF FieldNames
<1>2. DOMAIN r = FieldNames /\ r = [x \in FieldNames |-> r[x]]
  BY DEF Updated, FieldNames
<1>3. DOMAIN q = FieldNames /\ q = [x \in FieldNames |-> q[x]]
  BY <1>1
<1>4. /\ r.candidates = t.candidates /\ r.best = t.best /\ r.bestScore = t.bestScore
      /\ r.chosen = c /\ r.sidCounts = g /\ r.numaCounts = n /\ r.score = v
      /\ r.minDistance = t.minDistance /\ r.minSeparateRoots = t.minSeparateRoots
  BY DEF Updated
<1>5. /\ q.candidates = t.candidates /\ q.best = t.best /\ q.bestScore = t.bestScore
      /\ q.chosen = c /\ q.sidCounts = g /\ q.numaCounts = n /\ q.score = v
      /\ q.minDistance = t.minDistance /\ q.minSeparateRoots = t.minSeparateRoots
  BY <1>1 DEF FieldNames
<1>6. r = [candidates |-> t.candidates, minDistance |-> t.minDistance,
           minSeparateRoots |-> t.minSeparateRoots, chosen |-> c,
           sidCounts |-> g, numaCounts |-> n,
           score |-> v, best |-> t.best, bestScore |-> t.bestScore]
  BY DEF Updated
<1> HIDE DEF r, q
<1>7. Fields(r)
  BY Zenon, <1>4, <1>6 DEF Fields
<1>8. \A x \in FieldNames : r[x] = q[x]
  BY <1>4, <1>5 DEF FieldNames
<1>9. r = q
  BY <1>2, <1>3, <1>8
<1> QED
  BY <1>4, <1>7, <1>9 DEF q, Changed

\* The score that add computes.
NewScore(al, t, d) ==
    LET node == al.numa[d]
        S == ToSet(t.chosen)
    IN  [unknownNUMA |-> t.score.unknownNUMA + One(node < 0),
         numaNodes |-> t.score.numaNodes + One(node >= 0 /\ t.numaCounts[node] = 0),
         sidGroups |-> t.score.sidGroups + One(t.sidCounts[al.sid[d]] = 0),
         unknownPCI |-> t.score.unknownPCI + One(al.path[d] = NoPath),
         separateRoots |-> t.score.separateRoots + Cardinality({e \in S : al.pairs[d][e].separateRoots}),
         maxDistance |-> Max({t.score.maxDistance} \cup {al.pairs[d][e].hops : e \in S}),
         totalDistance |-> t.score.totalDistance + Sum([e \in S |-> al.pairs[d][e].hops])]

\* What add does to each field.
LEMMA AddFields ==
    ASSUME NEW al, NEW t, NEW d, Fields(t)
    PROVE  /\ Fields(add(al, t, d))
           /\ add(al, t, d).candidates = t.candidates
           /\ add(al, t, d).best = t.best
           /\ add(al, t, d).bestScore = t.bestScore
           /\ add(al, t, d).minDistance = t.minDistance
           /\ add(al, t, d).minSeparateRoots = t.minSeparateRoots
           /\ add(al, t, d).chosen = Append(t.chosen, d)
           /\ add(al, t, d).sidCounts = Up(t.sidCounts, al.sid[d])
           /\ add(al, t, d).numaCounts = IF al.numa[d] < 0 THEN t.numaCounts ELSE Up(t.numaCounts, al.numa[d])
           /\ add(al, t, d).score = NewScore(al, t, d)
<1> DEFINE chosen == Append(t.chosen, d)
           sidCounts == Up(t.sidCounts, al.sid[d])
           numaCounts == IF al.numa[d] < 0 THEN t.numaCounts ELSE Up(t.numaCounts, al.numa[d])
           r == add(al, t, d)
<1>1. r = Changed(t, chosen, sidCounts, numaCounts, NewScore(al, t, d))
  BY Zenon DEF add, Changed, Up, NewScore
<1> HIDE DEF chosen, sidCounts, numaCounts, r
<1>2. /\ Fields(r) /\ r.candidates = t.candidates /\ r.best = t.best /\ r.bestScore = t.bestScore
      /\ r.minDistance = t.minDistance /\ r.minSeparateRoots = t.minSeparateRoots
      /\ r.chosen = chosen /\ r.sidCounts = sidCounts /\ r.numaCounts = numaCounts
      /\ r.score = NewScore(al, t, d)
  BY <1>1, ChangedFields
<1> QED
  BY Zenon, <1>2 DEF r, chosen, sidCounts, numaCounts

\* What undo does to each field.
LEMMA UndoFields ==
    ASSUME NEW t, NEW previous, Fields(t), NEW d, d = Last(t.chosen)
    PROVE  /\ Fields(undo(t, previous))
           /\ undo(t, previous).candidates = t.candidates
           /\ undo(t, previous).best = t.best
           /\ undo(t, previous).bestScore = t.bestScore
           /\ undo(t, previous).minDistance = t.minDistance
           /\ undo(t, previous).minSeparateRoots = t.minSeparateRoots
           /\ undo(t, previous).chosen = Front(t.chosen)
           /\ undo(t, previous).sidCounts = Down(t.sidCounts, a.sid[d])
           /\ undo(t, previous).numaCounts = IF a.numa[d] < 0 THEN t.numaCounts ELSE Down(t.numaCounts, a.numa[d])
           /\ undo(t, previous).score = previous
<1> DEFINE chosen == Front(t.chosen)
           sidCounts == Down(t.sidCounts, a.sid[d])
           numaCounts == IF a.numa[d] < 0 THEN t.numaCounts ELSE Down(t.numaCounts, a.numa[d])
           r == undo(t, previous)
<1>1. r = Changed(t, chosen, sidCounts, numaCounts, previous)
  BY Zenon DEF undo, Changed, Down
<1> HIDE DEF chosen, sidCounts, numaCounts, r
<1>2. /\ Fields(r) /\ r.candidates = t.candidates /\ r.best = t.best /\ r.bestScore = t.bestScore
      /\ r.minDistance = t.minDistance /\ r.minSeparateRoots = t.minSeparateRoots
      /\ r.chosen = chosen /\ r.sidCounts = sidCounts /\ r.numaCounts = numaCounts
      /\ r.score = previous
  BY <1>1, ChangedFields
<1> QED
  BY Zenon, <1>2 DEF r, chosen, sidCounts, numaCounts

\* What the allocator knows of a device and of two of them.
LEMMA AllocatorFacts ==
    ASSUME NEW tab \in Seq(Device), NEW avail \in SUBSET DOMAIN tab, NEW d \in avail
    PROVE  LET al == Allocator(tab, avail)
           IN  /\ al.sid[d] = sidKey(tab, d)
               /\ al.numa[d] = tab[d].numa
               /\ tab[d].numa \in Int /\ (tab[d].numa < 0 <=> tab[d].numa = -1)
               /\ al.path[d] = Path(tab, d)
               /\ \A e \in avail : al.pairs[d][e] = Between(tab, d, e)
<1>1. \A e \in avail : Path(tab, e) = pciDeviceAncestors(tab[e].link)
  BY TableFacts
<1>2. tab[d] \in Device
  BY TableFacts
<1>3. tab[d].numa \in Nat \cup {-1}
  BY <1>2 DEF Device
<1>4. tab[d].numa \in Int /\ (tab[d].numa < 0 <=> tab[d].numa = -1)
  BY <1>3
<1> DEFINE endpoint == [e \in avail |-> pciDeviceAncestors(tab[e].link)]
<1>5. \A e \in avail : endpoint[e] = Path(tab, e)
  BY <1>1
<1> DEFINE al == Allocator(tab, avail)
<1>6. /\ al.sid = [e \in avail |-> sidKey(tab, e)]
      /\ al.numa = [e \in avail |-> tab[e].numa]
      /\ al.path = endpoint
      /\ al.pairs = [x \in avail |-> [e \in avail |-> distance(endpoint[x], endpoint[e])]]
  BY DEF Allocator
<1> HIDE DEF endpoint, al
<1>7. \A e \in avail : al.pairs[d][e] = distance(endpoint[d], endpoint[e])
  BY <1>6
<1>8. \A e \in avail : al.pairs[d][e] = Between(tab, d, e)
  BY <1>5, <1>7 DEF Between
<1> QED
  BY <1>4, <1>5, <1>6, <1>8 DEF al

\* add keeps score and counters those of the chosen devices.
LEMMA AddConsistent ==
    ASSUME NEW tab \in Seq(Device), NEW avail \in SUBSET DOMAIN tab, NEW t, Consistent(tab, avail, t),
           NEW d \in avail, d \notin ToSet(t.chosen)
    PROVE  LET r == add(Allocator(tab, avail), t, d)
           IN  /\ Consistent(tab, avail, r)
               /\ r.chosen = Append(t.chosen, d)
               /\ r.candidates = t.candidates /\ r.best = t.best /\ r.bestScore = t.bestScore
<1> DEFINE al == Allocator(tab, avail)
           r == add(al, t, d)
           S == ToSet(t.chosen)
           node == al.numa[d]
           key == al.sid[d]
<1>1. /\ Fields(t) /\ t.chosen \in Seq(avail) /\ Distinct(t.chosen)
      /\ t.sidCounts = GroupCounts(tab, avail, S)
      /\ t.numaCounts = NodeCounts(tab, avail, S)
      /\ t.score = Score(tab, S)
  BY DEF Consistent
<1>2. S \in SUBSET avail /\ S \in SUBSET DOMAIN tab /\ IsFiniteSet(S) /\ d \notin S /\ d \in DOMAIN tab
  <2>1. S \in SUBSET avail
    BY <1>1 DEF ToSet
  <2>2. S \in SUBSET DOMAIN tab
    BY <2>1
  <2> HIDE DEF S
  <2>3. IsFiniteSet(S)
    BY <2>2, TableFacts
  <2> QED BY <2>1, <2>2, <2>3 DEF S
<1>3. /\ key = sidKey(tab, d) /\ node = tab[d].numa /\ node \in Int /\ (node < 0 <=> node = -1)
      /\ al.path[d] = Path(tab, d)
      /\ \A e \in S : al.pairs[d][e] = Between(tab, d, e)
  BY <1>2, AllocatorFacts
<1>4. /\ Fields(r)
      /\ r.candidates = t.candidates /\ r.best = t.best /\ r.bestScore = t.bestScore
      /\ r.chosen = Append(t.chosen, d)
      /\ r.sidCounts = Up(t.sidCounts, key)
      /\ r.numaCounts = IF node < 0 THEN t.numaCounts ELSE Up(t.numaCounts, node)
      /\ r.score = NewScore(al, t, d)
  <2> HIDE DEF al
  <2> QED BY <1>1, AddFields
<1>5. r.chosen \in Seq(avail) /\ Distinct(r.chosen) /\ ToSet(r.chosen) = S \cup {d}
  BY <1>1, <1>4, AppendFacts
<1> HIDE DEF al, r, S
<1>6. r.sidCounts = GroupCounts(tab, avail, S \cup {d})
  BY <1>1, <1>2, <1>3, <1>4, GroupCountsAdd
<1>7. r.numaCounts = NodeCounts(tab, avail, S \cup {d})
  BY <1>1, <1>2, <1>3, <1>4, NodeCountsAdd
<1>8. t.sidCounts[key] = Cardinality({e \in S : sidKey(tab, e) = sidKey(tab, d)})
  BY <1>1, <1>2, <1>3 DEF GroupCounts
<1>9. node >= 0 => t.numaCounts[node] = Cardinality({e \in S : tab[e].numa = tab[d].numa})
  <2>1. node >= 0 => tab[d].numa \in {tab[e].numa : e \in avail} \ {-1}
    BY <1>3
  <2> HIDE DEF node
  <2> QED BY <1>1, <1>3, <2>1 DEF NodeCounts
<1>10. /\ {e \in S : al.pairs[d][e].separateRoots} = Apart(tab, S, d)
       /\ {al.pairs[d][e].hops : e \in S} = {Between(tab, d, e).hops : e \in S}
       /\ [e \in S |-> al.pairs[d][e].hops] = [e \in S |-> Between(tab, d, e).hops]
  BY <1>3 DEF Apart
<1>11. One(node >= 0 /\ t.numaCounts[node] = 0)
         = One(tab[d].numa >= 0 /\ Cardinality({e \in S : tab[e].numa = tab[d].numa}) = 0)
  BY <1>3, <1>9 DEF One
<1>12. r.score = Score(tab, S \cup {d})
  <2>1. Score(tab, S \cup {d}) =
             [unknownNUMA |-> Score(tab, S).unknownNUMA + One(tab[d].numa < 0),
              numaNodes |-> Score(tab, S).numaNodes
                  + One(tab[d].numa >= 0 /\ Cardinality({e \in S : tab[e].numa = tab[d].numa}) = 0),
              sidGroups |-> Score(tab, S).sidGroups
                  + One(Cardinality({e \in S : sidKey(tab, e) = sidKey(tab, d)}) = 0),
              unknownPCI |-> Score(tab, S).unknownPCI + One(Path(tab, d) = NoPath),
              separateRoots |-> Score(tab, S).separateRoots + Cardinality(Apart(tab, S, d)),
              maxDistance |-> Max({Score(tab, S).maxDistance} \cup {Between(tab, d, e).hops : e \in S}),
              totalDistance |-> Score(tab, S).totalDistance + Sum([e \in S |-> Between(tab, d, e).hops])]
    BY <1>2, AddScore
  <2>2. One(node < 0) = One(tab[d].numa < 0) /\ One(al.path[d] = NoPath) = One(Path(tab, d) = NoPath)
    BY <1>3
  <2>3. One(t.sidCounts[key] = 0) = One(Cardinality({e \in S : sidKey(tab, e) = sidKey(tab, d)}) = 0)
    BY <1>8
  <2>4. NewScore(al, t, d) =
             [unknownNUMA |-> t.score.unknownNUMA + One(node < 0),
              numaNodes |-> t.score.numaNodes + One(node >= 0 /\ t.numaCounts[node] = 0),
              sidGroups |-> t.score.sidGroups + One(t.sidCounts[key] = 0),
              unknownPCI |-> t.score.unknownPCI + One(al.path[d] = NoPath),
              separateRoots |-> t.score.separateRoots + Cardinality({e \in S : al.pairs[d][e].separateRoots}),
              maxDistance |-> Max({t.score.maxDistance} \cup {al.pairs[d][e].hops : e \in S}),
              totalDistance |-> t.score.totalDistance + Sum([e \in S |-> al.pairs[d][e].hops])]
    BY Zenon DEF NewScore, S
  <2> HIDE DEF node, key
  <2> QED BY Zenon, <1>1, <1>4, <1>10, <1>11, <2>1, <2>2, <2>3, <2>4
<1>13. Consistent(tab, avail, r)
  BY <1>4, <1>5, <1>6, <1>7, <1>12 DEF Consistent
<1> QED
  BY <1>4, <1>13 DEF r, al

LEMMA DownUp ==
    ASSUME NEW D, NEW f, f = [x \in D |-> f[x]], NEW k \in D, f[k] \in Int
    PROVE  Down(Up(f, k), k) = f
BY DEF Down, Up

LEMMA FrontOf ==
    ASSUME NEW A, NEW q \in Seq(A), Len(q) >= 1
    PROVE  /\ Front(q) \in Seq(A) /\ Len(Front(q)) = Len(q) - 1
           /\ \A i \in 1 .. Len(q) - 1 : Front(q)[i] = q[i]
<1> DEFINE r == Front(q)
           m == Len(q) - 1
<1>1. m \in Nat /\ Len(q) = m + 1
  OBVIOUS
<1>2. r = SubSeq(q, 1, m)
  BY DEF Front
<1> HIDE DEF r, m
<1>3. r \in Seq(A) /\ Len(r) = m /\ \A i \in 1 .. m : r[i] = q[i]
  BY <1>1, <1>2
<1> QED
  BY <1>3 DEF r, m

LEMMA FrontFacts ==
    ASSUME NEW A, NEW q \in Seq(A), Len(q) > 0, Distinct(q)
    PROVE  /\ Front(q) \in Seq(A) /\ Len(Front(q)) = Len(q) - 1
           /\ \A i \in 1 .. Len(q) - 1 : Front(q)[i] = q[i]
           /\ Distinct(Front(q))
           /\ Last(q) \in A /\ Last(q) = q[Len(q)] /\ Last(q) \notin ToSet(Front(q))
           /\ ToSet(q) = ToSet(Front(q)) \cup {Last(q)}
           /\ \A n \in 0 .. Len(q) - 1 : Upto(Front(q), n) = Upto(q, n)
           /\ Upto(q, Len(q) - 1) = ToSet(Front(q))
<1> DEFINE r == Front(q)
           m == Len(q) - 1
<1>1. /\ m \in Nat /\ Len(q) = m + 1 /\ r \in Seq(A) /\ Len(r) = m
      /\ DOMAIN q = 1 .. m + 1 /\ DOMAIN r = 1 .. m
      /\ \A i \in 1 .. m : r[i] = q[i]
      /\ Last(q) = q[m + 1] /\ q[m + 1] \in A
  <2>1. m \in Nat /\ Len(q) = m + 1 /\ DOMAIN q = 1 .. m + 1
    OBVIOUS
  <2>2. Last(q) = q[m + 1] /\ q[m + 1] \in A
    BY <2>1 DEF Last
  <2>3. r \in Seq(A) /\ Len(r) = m /\ \A i \in 1 .. m : r[i] = q[i]
    BY FrontOf
  <2> HIDE DEF r, m
  <2>4. DOMAIN r = 1 .. m
    BY <2>1, <2>3
  <2> QED BY <2>1, <2>2, <2>3, <2>4
<1> HIDE DEF r, m
<1>2. \A i \in 1 .. m : i \in 1 .. m + 1 /\ i # m + 1
  BY <1>1
<1>3. m + 1 \in 1 .. m + 1
  BY <1>1
<1>4. \A i \in 1 .. m + 1 : i \in 1 .. m \/ i = m + 1
  BY <1>1
<1>5. Distinct(r)
  <2>1. SUFFICES ASSUME NEW i \in 1 .. m, NEW j \in 1 .. m, i # j PROVE r[i] # r[j]
    BY <1>1 DEF Distinct
  <2> QED BY <1>1, <1>2, <2>1 DEF Distinct
<1>6. \A i \in 1 .. m : r[i] # q[m + 1]
  BY <1>1, <1>2, <1>3 DEF Distinct
<1>7. Last(q) \notin ToSet(r)
  BY <1>1, <1>6 DEF ToSet
<1>8. ToSet(q) = ToSet(r) \cup {Last(q)}
  BY <1>1, <1>2, <1>3, <1>4 DEF ToSet
<1>9. \A n \in 0 .. m : Upto(r, n) = Upto(q, n)
  <2>1. SUFFICES ASSUME NEW n \in 0 .. m PROVE Upto(r, n) = Upto(q, n)
    OBVIOUS
  <2>2. \A i \in 1 .. n : r[i] = q[i]
    BY <1>1
  <2> QED BY <2>2 DEF Upto
<1>10. Upto(q, m) = ToSet(r)
  BY <1>1 DEF Upto, ToSet
<1> QED
  BY <1>1, <1>5, <1>7, <1>8, <1>9, <1>10 DEF r, m

\* undo of the last choice, with the score from before it, does the same.
LEMMA UndoConsistent ==
    ASSUME NEW tab \in Seq(Device), NEW avail \in SUBSET DOMAIN tab, NEW t, Consistent(tab, avail, t),
           a = Allocator(tab, avail), Len(t.chosen) > 0,
           NEW previous, previous = Score(tab, ToSet(Front(t.chosen)))
    PROVE  /\ Consistent(tab, avail, undo(t, previous))
           /\ undo(t, previous).chosen = Front(t.chosen)
           /\ undo(t, previous).candidates = t.candidates
           /\ undo(t, previous).best = t.best
           /\ undo(t, previous).bestScore = t.bestScore
<1> DEFINE d == Last(t.chosen)
           q == Front(t.chosen)
           S == ToSet(q)
           r == undo(t, previous)
<1>1. /\ Fields(t) /\ t.chosen \in Seq(avail) /\ Distinct(t.chosen)
      /\ t.sidCounts = GroupCounts(tab, avail, ToSet(t.chosen))
      /\ t.numaCounts = NodeCounts(tab, avail, ToSet(t.chosen))
  BY DEF Consistent
<1>2. q \in Seq(avail) /\ Distinct(q) /\ d \in avail /\ d \notin S /\ ToSet(t.chosen) = S \cup {d}
  BY <1>1, FrontFacts
<1>3. S \in SUBSET DOMAIN tab
  BY <1>2 DEF ToSet
<1> HIDE DEF S
<1>4. IsFiniteSet(S)
  BY <1>3, TableFacts
<1>5. /\ Fields(r)
      /\ r.candidates = t.candidates /\ r.best = t.best /\ r.bestScore = t.bestScore
      /\ r.chosen = q
      /\ r.sidCounts = Down(t.sidCounts, a.sid[d])
      /\ r.numaCounts = IF a.numa[d] < 0 THEN t.numaCounts ELSE Down(t.numaCounts, a.numa[d])
      /\ r.score = previous
  <2> HIDE DEF d, q
  <2> QED BY <1>1, UndoFields DEF d, q
<1> HIDE DEF d, q, r
<1>6. a.sid[d] = sidKey(tab, d) /\ a.numa[d] = tab[d].numa /\ (tab[d].numa < 0 <=> tab[d].numa = -1)
  BY <1>2, AllocatorFacts
<1>7. r.sidCounts = GroupCounts(tab, avail, S)
  <2> DEFINE G == GroupCounts(tab, avail, S)
             D == {sidKey(tab, e) : e \in avail}
             k == sidKey(tab, d)
  <2>1. G = [x \in D |-> Cardinality({e \in S : sidKey(tab, e) = x})] /\ k \in D
    BY <1>2 DEF GroupCounts
  <2>2. Cardinality({e \in S : sidKey(tab, e) = k}) \in Nat
    BY <1>4, FS_Subset, FS_CardinalityType
  <2>3. G[k] \in Int /\ G = [x \in D |-> G[x]]
    <3> HIDE DEF G, D, k
    <3> QED BY <2>1, <2>2
  <2>4. t.sidCounts = Up(G, k)
    BY <1>1, <1>2, <1>4, GroupCountsAdd
  <2> HIDE DEF G, D, k
  <2>5. Down(Up(G, k), k) = G
    BY <2>1, <2>3, DownUp
  <2> QED BY <1>5, <1>6, <2>4, <2>5 DEF G, k
<1>8. r.numaCounts = NodeCounts(tab, avail, S)
  <2> DEFINE G == NodeCounts(tab, avail, S)
             D == {tab[e].numa : e \in avail} \ {-1}
             k == tab[d].numa
  <2>1. t.numaCounts = IF k = -1 THEN G ELSE Up(G, k)
    <3>1. NodeCounts(tab, avail, S \cup {d}) = IF k = -1 THEN G ELSE Up(G, k)
      BY ONLY <1>2, <1>4, NodeCountsAdd
    <3> QED BY ONLY <1>1, <1>2, <3>1
  <2>2. CASE k = -1
    BY <1>5, <1>6, <2>1, <2>2
  <2>3. CASE k # -1
    <3>1. G = [x \in D |-> Cardinality({e \in S : tab[e].numa = x})] /\ k \in D
      BY <1>2, <2>3 DEF NodeCounts
    <3>2. Cardinality({e \in S : tab[e].numa = k}) \in Nat
      BY <1>4, FS_Subset, FS_CardinalityType
    <3>3. G[k] \in Int /\ G = [x \in D |-> G[x]]
      <4> HIDE DEF G, D, k
      <4> QED BY <3>1, <3>2
    <3>4. t.numaCounts = Up(G, k)
      BY <2>1, <2>3
    <3> HIDE DEF G, D, k
    <3>5. Down(Up(G, k), k) = G
      BY <3>1, <3>3, DownUp
    <3> QED BY <1>5, <1>6, <2>3, <3>4, <3>5 DEF G, k
  <2> QED BY <2>2, <2>3
<1>9. r.score = Score(tab, S)
  BY <1>5 DEF S, q
<1>10. Consistent(tab, avail, r)
  BY <1>2, <1>5, <1>7, <1>8, <1>9 DEF Consistent, S
<1> QED
  BY <1>5, <1>10 DEF r, q

-----------------------------------------------------------------------------
(* The start of a search *)

LEMMA EmptyScore ==
    ASSUME NEW tab
    PROVE  Score(tab, {}) = Zero
<1>1. Known(tab, {}) = {} /\ Pairs(tab, {}) = {} /\ Linked(tab, {}) = {}
  BY DEF Known, Pairs, Linked
<1>2. Max({0}) = 0
  BY MaxIs
<1>3. Sum([p \in {} |-> HopsOf(tab, p)]) = 0
  <2> DEFINE f == [p \in {} |-> HopsOf(tab, p)]
  <2>1. DOMAIN f = {} /\ \A p \in {} : f[p] \in Nat
    OBVIOUS
  <2> HIDE DEF f
  <2>2. SumFunctionOnSet(f, {}) = Cardinality(Units(f, {}))
    BY <2>1, FS_EmptySet, SumIsCount
  <2>3. Units(f, {}) = {}
    BY DEF Units
  <2>4. Sum(f) = 0
    BY <2>1, <2>2, <2>3, FS_EmptySet DEF Sum
  <2> QED BY <2>4 DEF f
<1>4. Cardinality({}) = 0
  BY FS_EmptySet
<1>5. /\ {d \in {} : tab[d].numa < 0} = {}
      /\ {tab[d].numa : d \in {}} \ {-1} = {}
      /\ {sidKey(tab, d) : d \in {}} = {}
      /\ {} \ Known(tab, {}) = {}
      /\ Pairs(tab, {}) \ Linked(tab, {}) = {}
      /\ {0} \cup {HopsOf(tab, p) : p \in Linked(tab, {})} = {0}
  BY <1>1
<1>6. Score(tab, {}) =
             [unknownNUMA |-> Cardinality({d \in {} : tab[d].numa < 0}),
              numaNodes |-> Cardinality({tab[d].numa : d \in {}} \ {-1}),
              sidGroups |-> Cardinality({sidKey(tab, d) : d \in {}}),
              unknownPCI |-> Cardinality({} \ Known(tab, {})),
              separateRoots |-> Cardinality(Pairs(tab, {}) \ Linked(tab, {})),
              maxDistance |-> Max({0} \cup {HopsOf(tab, p) : p \in Linked(tab, {})}),
              totalDistance |-> Sum([p \in Linked(tab, {}) |-> HopsOf(tab, p)])]
  BY ScoreParts
<1> QED
  BY Zenon, <1>1, <1>2, <1>3, <1>4, <1>5, <1>6 DEF Zero

\* A request that is not rejected names devices of the table, and its mandatory
\* devices are among the available ones.
LEMMA RequestFacts ==
    ASSUME Asked, ~Rejected
    PROVE  /\ devices \in Seq(Device) /\ Available \in SUBSET DOMAIN devices
           /\ IsFiniteSet(Available) /\ Available \subseteq Nat \ {0}
           /\ request.size \in Nat
           /\ selected \in Seq(Available) /\ Distinct(selected) /\ Len(selected) <= request.size
           /\ Enumerates(Sorted(Available \ ToSet(selected)), Available \ ToSet(selected))
<1>1. devices \in Seq(Device) /\ Available \in SUBSET DOMAIN devices
  BY DEF Asked, Rejected
<1>2. IsFiniteSet(Available) /\ Available \subseteq Nat \ {0}
  BY <1>1, TableFacts
<1>3. request.size \in Nat /\ request.must \in Seq(Nat) /\ ToSet(request.must) \subseteq Available
      /\ ~(Cardinality(ToSet(request.must)) > request.size)
  BY DEF Asked, Rejected
<1>4. selected \in Seq(ToSet(request.must)) /\ Distinct(selected) /\ ToSet(selected) = ToSet(request.must)
  BY <1>3, NormalizedMust DEF selected, Distinct
<1>5. Cardinality(ToSet(selected)) = Len(selected)
  BY <1>4, LengthIsCardinality DEF Distinct
<1>6. selected \in Seq(Available) /\ Len(selected) \in Nat
  BY <1>3, <1>4
<1> DEFINE T == Available \ ToSet(selected)
<1>7. IsFiniteSet(T) /\ T \subseteq Nat \ {0}
  BY <1>2, FS_Difference
<1>8. Enumerates(Sorted(T), T)
  <2> HIDE DEF T
  <2> QED BY <1>7, SortedEnumerates
<1>9. Len(selected) <= request.size
  BY <1>3, <1>4, <1>5, <1>6
<1> QED
  BY <1>1, <1>2, <1>3, <1>4, <1>6, <1>8, <1>9

\* The record SelectDevices starts with.
LEMMA NewSearchConsistent ==
    ASSUME Asked, ~Rejected
    PROVE  LET t == NewSearch(Allocator(devices, Available))
           IN  /\ Consistent(devices, Available, t)
               /\ t.chosen = <<>> /\ t.best = <<>>
               /\ t.candidates = Sorted(Available \ ToSet(selected))
<1> DEFINE al == Allocator(devices, Available)
           t == NewSearch(al)
<1>1. /\ al.sid = [e \in Available |-> sidKey(devices, e)]
      /\ al.numa = [e \in Available |-> devices[e].numa]
      /\ DOMAIN al.path = Available
  BY DEF Allocator
<1>2. /\ DOMAIN al.sid = Available /\ {al.sid[d] : d \in Available} = {sidKey(devices, d) : d \in Available}
      /\ DOMAIN al.numa = Available /\ {al.numa[d] : d \in Available} = {devices[d].numa : d \in Available}
  <2> HIDE DEF al
  <2> QED BY <1>1
<1> HIDE DEF al
<1>3. /\ t.candidates = Sorted(DOMAIN al.path \ ToSet(selected))
      /\ t.chosen = <<>> /\ t.best = <<>> /\ t.score = Zero
      /\ t.sidCounts = [k \in {al.sid[d] : d \in DOMAIN al.sid} |-> 0]
      /\ t.numaCounts = [n \in {al.numa[d] : d \in DOMAIN al.numa} \ {-1} |-> 0]
  BY DEF NewSearch
<1>4. Fields(t)
  BY DEF NewSearch, Fields
<1> HIDE DEF t
<1>5. ToSet(t.chosen) = {} /\ t.chosen \in Seq(Available) /\ Distinct(t.chosen)
  BY <1>3 DEF ToSet, Distinct
<1>6. /\ \A k : {d \in {} : sidKey(devices, d) = k} = {}
      /\ \A n : {d \in {} : devices[d].numa = n} = {}
      /\ Cardinality({}) = 0
  BY FS_EmptySet
<1>7. t.sidCounts = GroupCounts(devices, Available, {})
  BY <1>2, <1>3, <1>6 DEF GroupCounts
<1>8. t.numaCounts = NodeCounts(devices, Available, {})
  BY <1>2, <1>3, <1>6 DEF NodeCounts
<1>9. Consistent(devices, Available, t)
  BY <1>3, <1>4, <1>5, <1>7, <1>8, EmptyScore DEF Consistent
<1> QED
  BY <1>1, <1>3, <1>9 DEF t, al

-----------------------------------------------------------------------------
(* Invariance *)

\* The table and the request stay what they are.
LEMMA Fixed ==
    ASSUME UNCHANGED <<devices, request>>
    PROVE  /\ Available' = Available /\ selected' = selected
           /\ Asked' <=> Asked
           /\ Rejected' <=> Rejected
<1>1. Available' = Available
  BY DEF Available
<1>2. selected' = selected
  BY DEF selected
<1> QED
  BY <1>1, <1>2 DEF Asked, Rejected

LEMMA InitSearchInv == Init => SearchInv
<1>1. SUFFICES ASSUME Init PROVE SearchInv
  OBVIOUS
<1>2. Asked
  <2>1. PICK p \in Problems : devices = p.devices /\ request = p.request
    BY <1>1 DEF Init
  <2>2. p \in AnyProblem
    BY ProblemsAssumption
  <2> QED BY <2>1, <2>2 DEF AnyProblem, Asked, Device
<1> QED
  BY <1>1, <1>2 DEF Init, SearchInv

LEMMA FallbackInv ==
    ASSUME SearchInv, Fallback
    PROVE  SearchInv'
<1>1. UNCHANGED <<devices, request>> /\ pc' = "done" /\ answer' = <<>>
  BY DEF Fallback, Respond
<1>2. Asked' /\ Available' = Available
  BY <1>1, Fixed DEF SearchInv
<1> QED
  BY <1>1, <1>2 DEF SearchInv

LEMMA Concatenated ==
    ASSUME NEW A, NEW p \in Seq(A), NEW q \in Seq(A)
    PROVE  /\ p \o q \in Seq(A) /\ Len(p \o q) = Len(p) + Len(q)
           /\ \A i \in 1 .. Len(p) : (p \o q)[i] = p[i]
           /\ \A i \in Len(p) + 1 .. Len(p) + Len(q) : (p \o q)[i] = q[i - Len(p)]
OBVIOUS

LEMMA NoChoiceInv ==
    ASSUME SearchInv, NoChoice
    PROVE  SearchInv'
<1>1. UNCHANGED <<devices, request>> /\ pc' = "done"
  BY DEF NoChoice, Respond
<1>2. Asked' /\ Available' = Available
  BY <1>1, Fixed DEF SearchInv
<1>3. Asked /\ ~Rejected
  BY DEF SearchInv, NoChoice
<1> DEFINE q == Sorted(Available \ ToSet(selected))
<1>4. selected \in Seq(Available) /\ q \in Seq(Available)
  <2>1. selected \in Seq(Available) /\ q \in Seq(Available \ ToSet(selected))
    BY <1>3, RequestFacts DEF Enumerates
  <2> HIDE DEF q
  <2>2. Available \ ToSet(selected) \subseteq Available
    OBVIOUS
  <2> QED BY <2>1, <2>2
<1>5. answer' = selected \/ answer' = selected \o q
  BY DEF NoChoice, Respond
<1> HIDE DEF q
<1>6. answer' \in Seq(Available)
  <2>1. selected \o q \in Seq(Available)
    BY <1>4, Concatenated
  <2> QED BY <1>4, <1>5, <2>1
<1> QED
  BY <1>1, <1>2, <1>6 DEF SearchInv

LEMMA SelectDevicesInv ==
    ASSUME SearchInv, SelectDevices
    PROVE  SearchInv'
<1>1. /\ UNCHANGED <<devices, request>> /\ answer' = answer /\ frames' = frames /\ pc' = "must"
      /\ a' = newTopologyAllocator /\ s' = NewSearch(a')
      /\ Asked /\ ~Rejected /\ Len(selected) < request.size
      /\ frames = <<>> /\ answer \in Seq(Available)
  BY DEF SelectDevices, SearchInv
<1>2. Asked' /\ Available' = Available /\ selected' = selected /\ ~Rejected'
  BY <1>1, Fixed
<1>3. a' = Allocator(devices, Available)
  BY <1>1 DEF newTopologyAllocator, Allocator
<1>4. /\ Consistent(devices, Available, s')
      /\ s'.chosen = <<>> /\ s'.best = <<>>
      /\ s'.candidates = Sorted(Available \ ToSet(selected))
  BY <1>1, <1>3, NewSearchConsistent
<1>5. selected \in Seq(Available)
  BY <1>1, RequestFacts
<1>6. Searching'
  <2>1. Len(selected') < request'.size /\ a' = Allocator(devices', Available')
    BY <1>1, <1>2, <1>3
  <2>2. Consistent(devices', Available', s') /\ s'.candidates = Sorted(Available' \ ToSet(selected'))
    BY <1>1, <1>2, <1>4
  <2>3. s'.best \in Seq(Available') /\ \A i \in 1 .. Len(s'.chosen) : i <= Len(selected') => s'.chosen[i] = selected'[i]
    BY <1>4
  <2> QED BY <1>2, <2>1, <2>2, <2>3 DEF Searching
<1> QED
  BY <1>1, <1>2, <1>4, <1>5, <1>6 DEF SearchInv

\* One more device, a mandatory one first.
LEMMA Adding ==
    ASSUME Asked, Searching, UNCHANGED <<devices, request, a>>,
           NEW d \in Available, d \notin ToSet(s.chosen), s' = add(a, s, d),
           Len(s.chosen) < Len(selected) => d = selected[Len(s.chosen) + 1]
    PROVE  /\ Searching'
           /\ s'.chosen = Append(s.chosen, d) /\ s'.candidates = s.candidates
           /\ s'.chosen \in Seq(Available) /\ Len(s'.chosen) = Len(s.chosen) + 1
           /\ \A n \in 0 .. Len(s.chosen) : Upto(s'.chosen, n) = Upto(s.chosen, n)
           /\ Upto(s.chosen, Len(s.chosen)) = ToSet(s.chosen)
<1>1. Asked' /\ Available' = Available /\ selected' = selected /\ Rejected' = Rejected
  <2>1. Rejected' <=> Rejected
    BY Fixed
  <2>2. Rejected' \in BOOLEAN /\ Rejected \in BOOLEAN
    BY DEF Rejected
  <2> QED BY <2>1, <2>2, Fixed
<1>2. devices \in Seq(Device) /\ Available \in SUBSET DOMAIN devices /\ selected \in Seq(Available)
  BY RequestFacts DEF Searching
<1>3. /\ ~Rejected /\ Len(selected) < request.size /\ a = Allocator(devices, Available)
      /\ Consistent(devices, Available, s)
      /\ s.candidates = Sorted(Available \ ToSet(selected))
      /\ s.best \in Seq(Available)
      /\ \A i \in 1 .. Len(s.chosen) : i <= Len(selected) => s.chosen[i] = selected[i]
  BY DEF Searching
<1>4. /\ Consistent(devices, Available, s')
      /\ s'.chosen = Append(s.chosen, d)
      /\ s'.candidates = s.candidates /\ s'.best = s.best
  BY <1>2, <1>3, AddConsistent
<1>5. s.chosen \in Seq(Available) /\ Distinct(s.chosen)
  BY <1>3 DEF Consistent
<1>6. /\ \A n \in 0 .. Len(s.chosen) : Upto(s'.chosen, n) = Upto(s.chosen, n)
      /\ Upto(s.chosen, Len(s.chosen)) = ToSet(s.chosen)
      /\ s'.chosen \in Seq(Available)
  BY <1>4, <1>5, AppendFacts
<1> DEFINE q == s.chosen
           r == s'.chosen
           m == selected
<1>7. \A i \in 1 .. Len(r) : i <= Len(m) => r[i] = m[i]
  <2>1. r = Append(q, d) /\ q \in Seq(Available) /\ m \in Seq(Available)
        /\ (\A i \in 1 .. Len(q) : i <= Len(m) => q[i] = m[i])
        /\ (Len(q) < Len(m) => d = m[Len(q) + 1])
    BY <1>2, <1>3, <1>4, <1>5
  <2> HIDE DEF q, r, m
  <2> QED BY <2>1
<1>8. Len(s'.chosen) = Len(s.chosen) + 1
  BY <1>4, <1>5
<1>9. Searching'
  <2>1. ~Rejected' /\ Len(selected') < request'.size /\ a' = Allocator(devices', Available')
    BY <1>1, <1>3
  <2>2. Consistent(devices', Available', s') /\ s'.candidates = Sorted(Available' \ ToSet(selected'))
    BY <1>1, <1>3, <1>4
  <2>3. s'.best \in Seq(Available') /\ \A i \in 1 .. Len(s'.chosen) : i <= Len(selected') => s'.chosen[i] = selected'[i]
    BY <1>1, <1>3, <1>4, <1>7
  <2> QED BY <2>1, <2>2, <2>3 DEF Searching
<1> QED
  BY <1>4, <1>6, <1>8, <1>9

LEMMA AddMandatoryInv ==
    ASSUME SearchInv, AddMandatory
    PROVE  SearchInv'
<1> DEFINE n == Len(s.chosen)
           d == selected[n + 1]
<1>1. /\ pc = "must" /\ n < Len(selected) /\ s' = add(a, s, d)
      /\ UNCHANGED <<devices, request, a>> /\ pc' = "must" /\ frames' = frames /\ answer' = answer
      /\ Asked /\ Searching /\ frames = <<>> /\ answer \in Seq(Available)
  BY DEF AddMandatory, SearchInv
<1>2. selected \in Seq(Available) /\ Distinct(selected)
  BY <1>1, RequestFacts DEF Searching
<1>3. /\ s.chosen \in Seq(Available)
      /\ \A i \in 1 .. Len(s.chosen) : i <= Len(selected) => s.chosen[i] = selected[i]
  BY <1>1 DEF Searching, Consistent
<1>4. n \in Nat /\ Len(selected) \in Nat /\ n + 1 \in 1 .. Len(selected) /\ d \in Available
  BY <1>1, <1>2, <1>3
<1>5. \A i \in 1 .. n : s.chosen[i] # d
  <2>1. SUFFICES ASSUME NEW i \in 1 .. n PROVE s.chosen[i] # d
    OBVIOUS
  <2>2. i \in 1 .. Len(selected) /\ i # n + 1 /\ i <= Len(selected)
    BY <1>1, <1>4
  <2> QED BY <1>2, <1>3, <1>4, <2>2 DEF Distinct
<1>6. d \notin ToSet(s.chosen)
  BY <1>3, <1>5 DEF ToSet
<1>7. Searching' /\ Len(s'.chosen) = n + 1
  <2> HIDE DEF n, d
  <2> QED BY <1>1, <1>4, <1>6, Adding DEF n, d
<1>8. Asked' /\ Available' = Available /\ selected' = selected
  BY <1>1, Fixed
<1>9. Len(s'.chosen) <= Len(selected')
  BY <1>1, <1>4, <1>7, <1>8
<1> QED
  BY <1>1, <1>7, <1>8, <1>9 DEF SearchInv

LEMMA SearchKept ==
    ASSUME UNCHANGED <<devices, request, a, s>>, Searching
    PROVE  Searching'
<1>1. Available' = Available /\ selected' = selected /\ (Rejected' <=> Rejected)
  BY Fixed
<1> QED
  BY <1>1 DEF Searching

LEMMA CallSearchInv ==
    ASSUME SearchInv, CallSearch
    PROVE  SearchInv'
<1>1. /\ pc = "must" /\ Len(s.chosen) = Len(selected) /\ next' = 1 /\ pc' = "enter"
      /\ UNCHANGED <<devices, request, a, s>> /\ frames' = frames /\ answer' = answer
      /\ Asked /\ Searching /\ frames = <<>> /\ answer \in Seq(Available)
  BY DEF CallSearch, SearchInv
<1>2. Asked' /\ Available' = Available /\ selected' = selected
  BY <1>1, Fixed
<1>3. Searching'
  BY <1>1, SearchKept
<1>4. s.candidates \in Seq(Available \ ToSet(selected)) /\ selected \in Seq(Available) /\ request.size \in Nat
  BY <1>1, RequestFacts DEF Searching, Enumerates
<1>5. Len(s.candidates) \in Nat /\ Len(selected) \in Nat
  BY <1>4
<1>6. Stacked'
  BY <1>1, <1>2, <1>5 DEF Stacked
<1>7. 1 \in 1 .. Len(s.candidates) + 1
  BY <1>5
<1>8. Len(s.chosen) <= request.size
  BY <1>1, <1>4, <1>5 DEF Searching
<1> QED
  BY <1>1, <1>2, <1>3, <1>6, <1>7, <1>8 DEF SearchInv

LEMMA OpenInv ==
    ASSUME SearchInv, Open
    PROVE  SearchInv'
<1>1. /\ pc = "enter" /\ remaining > 0 /\ pc' = "loop"
      /\ UNCHANGED <<devices, request, a, s>> /\ frames' = frames /\ answer' = answer /\ next' = next
      /\ Asked /\ Searching /\ Stacked /\ answer \in Seq(Available) /\ next \in 1 .. Len(s.candidates) + 1
  BY DEF Open, SearchInv
<1>2. Asked' /\ Available' = Available /\ selected' = selected
  BY <1>1, Fixed
<1>3. Searching'
  BY <1>1, SearchKept
<1>4. Stacked'
  <2>1. Frame' = Frame
    BY <1>1, <1>2 DEF Frame
  <2> QED BY <1>1, <1>2, <2>1 DEF Stacked
<1>5. Len(s.chosen) < request.size
  <2>1. s.chosen \in Seq(Available) /\ request.size \in Nat
    BY <1>1, RequestFacts DEF Searching, Consistent
  <2>2. Len(s.chosen) \in Nat
    BY <2>1
  <2> QED BY <1>1, <2>1, <2>2 DEF remaining
<1> QED
  BY <1>1, <1>2, <1>3, <1>4, <1>5 DEF SearchInv

\* A candidate from next on is not chosen yet: it is not mandatory, and the open
\* calls have chosen earlier ones.
LEMMA CandidateIsNew ==
    ASSUME Asked, Searching, Stacked, NEW c \in 1 .. Len(s.candidates), next \in 1 .. c
    PROVE  s.candidates[c] \in Available /\ s.candidates[c] \notin ToSet(s.chosen)
<1> DEFINE d == s.candidates[c]
           T == Available \ ToSet(selected)
           n == Len(selected)
<1>1. Enumerates(s.candidates, T) /\ selected \in Seq(Available) /\ Available \subseteq Nat \ {0}
  BY RequestFacts DEF Searching
<1>2. d \in T
  BY <1>1 DEF Enumerates
<1>3. /\ s.chosen \in Seq(Available)
      /\ \A i \in 1 .. Len(s.chosen) : i <= n => s.chosen[i] = selected[i]
  BY DEF Searching, Consistent
<1>4. /\ frames \in Seq(Frame)
      /\ Len(s.chosen) = n + Len(frames)
      /\ \A j \in 1 .. Len(frames) : frames[j].i < next /\ s.chosen[n + j] = s.candidates[frames[j].i]
  BY DEF Stacked
<1>5. /\ Len(frames) \in Nat /\ n \in Nat
      /\ \A j \in 1 .. Len(frames) : frames[j].i \in 1 .. Len(s.candidates)
  <2>1. Len(frames) \in Nat /\ n \in Nat /\ \A j \in 1 .. Len(frames) : frames[j] \in Frame
    BY <1>1, <1>4
  <2> QED BY <2>1 DEF Frame
<1>6. SUFFICES ASSUME NEW i \in 1 .. Len(s.chosen) PROVE s.chosen[i] # d
  BY <1>2, <1>3 DEF ToSet
<1>7. CASE i <= n
  <2>1. i \in DOMAIN selected
    BY <1>1, <1>5, <1>7
  <2>2. selected[i] \in ToSet(selected)
    BY <2>1 DEF ToSet
  <2> QED BY <1>2, <1>3, <1>7, <2>2
<1>8. CASE ~(i <= n)
  <2>1. i - n \in 1 .. Len(frames) /\ i = n + (i - n)
    BY <1>4, <1>5, <1>8
  <2> DEFINE j == i - n
             k == frames[j].i
  <2>2. k \in 1 .. Len(s.candidates) /\ k < c /\ s.chosen[i] = s.candidates[k]
    BY <1>4, <1>5, <2>1
  <2>3. \A x, y \in 1 .. Len(s.candidates) : x < y => s.candidates[x] < s.candidates[y]
    BY <1>1 DEF Enumerates
  <2> HIDE DEF k
  <2>4. s.candidates[k] < d
    BY <2>2, <2>3
  <2>5. d \in Nat
    BY <1>1, <1>2
  <2> QED BY <2>2, <2>4, <2>5
<1> QED
  BY <1>7, <1>8

LEMMA ChooseInv ==
    ASSUME SearchInv, Choose
    PROVE  SearchInv'
<1> DEFINE d == s.candidates[next]
           n == Len(selected)
           h == Len(frames)
           f == [i |-> next, previous |-> s.score]
<1>1. /\ pc = "loop" /\ next <= Len(s.candidates) - remaining + 1
      /\ s' = add(a, s, d) /\ frames' = Append(frames, f)
      /\ next' = next + 1 /\ pc' = "enter"
      /\ UNCHANGED <<devices, request, a>> /\ answer' = answer
      /\ Asked /\ Searching /\ Stacked /\ answer \in Seq(Available)
      /\ next \in 1 .. Len(s.candidates) + 1 /\ Len(s.chosen) < request.size
  BY DEF Choose, SearchInv
<1>2. Asked' /\ Available' = Available /\ selected' = selected
  BY <1>1, Fixed
<1>3. /\ s.candidates \in Seq(Available \ ToSet(selected)) /\ selected \in Seq(Available) /\ request.size \in Nat
      /\ s.chosen \in Seq(Available) /\ s.score = Score(devices, ToSet(s.chosen))
  BY <1>1, RequestFacts DEF Searching, Enumerates, Consistent
<1>4. /\ Len(s.candidates) \in Nat /\ n \in Nat /\ Len(s.chosen) \in Nat
      /\ next \in 1 .. Len(s.candidates)
  <2>1. Len(s.candidates) \in Nat /\ n \in Nat /\ Len(s.chosen) \in Nat
    BY <1>3
  <2>2. remaining \in Nat /\ remaining >= 1
    BY <1>1, <1>3, <2>1 DEF remaining
  <2> QED BY <1>1, <2>1, <2>2
<1>5. d \in Available /\ d \notin ToSet(s.chosen)
  <2>1. next \in 1 .. next
    BY <1>4
  <2> QED BY <1>1, <1>4, <2>1, CandidateIsNew
<1>6. /\ frames \in Seq(Frame) /\ h \in Nat /\ Len(s.chosen) = n + h
      /\ \A j \in 1 .. h :
            /\ frames[j].i < next
            /\ s.chosen[n + j] = s.candidates[frames[j].i]
            /\ frames[j].previous = Score(devices, Upto(s.chosen, n + j - 1))
            /\ \A k \in 1 .. h : j < k => frames[j].i < frames[k].i
  BY <1>1 DEF Stacked
<1>7. /\ Searching'
      /\ s'.chosen = Append(s.chosen, d) /\ s'.candidates = s.candidates
      /\ Len(s'.chosen) = Len(s.chosen) + 1
      /\ \A m \in 0 .. Len(s.chosen) : Upto(s'.chosen, m) = Upto(s.chosen, m)
      /\ Upto(s.chosen, Len(s.chosen)) = ToSet(s.chosen)
  <2>1. ~(Len(s.chosen) < n)
    BY <1>4, <1>6
  <2> HIDE DEF d, n
  <2> QED BY <1>1, <1>5, <2>1, Adding DEF n
<1>8. f \in Frame
  <2>1. ToSet(s.chosen) \in SUBSET Available
    BY <1>3 DEF ToSet
  <2> QED BY <1>3, <1>4, <2>1 DEF Frame
<1>9. Frame' = Frame
  BY <1>1, <1>2, <1>7 DEF Frame
<1>10. /\ frames' \in Seq(Frame) /\ Len(frames') = h + 1
       /\ \A j \in 1 .. h : frames'[j] = frames[j]
       /\ frames'[h + 1] = f
  <2> HIDE DEF f
  <2> QED BY <1>1, <1>6, <1>8
<1>11. \A j \in 1 .. h : /\ n + j \in 1 .. Len(s.chosen) /\ s'.chosen[n + j] = s.chosen[n + j]
                         /\ Upto(s'.chosen, n + j - 1) = Upto(s.chosen, n + j - 1)
  <2>1. \A j \in 1 .. h : n + j \in 1 .. Len(s.chosen) /\ n + j - 1 \in 0 .. Len(s.chosen)
    BY <1>4, <1>6
  <2>2. \A i \in 1 .. Len(s.chosen) : s'.chosen[i] = s.chosen[i]
    <3> HIDE DEF d
    <3> QED BY <1>3, <1>5, <1>7
  <2> QED BY <1>7, <2>1, <2>2
<1>12. /\ s'.chosen[n + (h + 1)] = s'.candidates[f.i]
       /\ f.previous = Score(devices, Upto(s'.chosen, n + (h + 1) - 1))
       /\ f.i = next
  <2>1. n + (h + 1) = Len(s.chosen) + 1 /\ n + (h + 1) - 1 = Len(s.chosen) /\ Len(s.chosen) \in 0 .. Len(s.chosen)
    BY <1>4, <1>6
  <2>2. s'.chosen[Len(s.chosen) + 1] = d
    <3> HIDE DEF d
    <3> QED BY <1>3, <1>5, <1>7
  <2> QED BY <1>3, <1>7, <2>1, <2>2
<1> HIDE DEF f
<1>13. \A j \in 1 .. h + 1 :
        /\ frames'[j].i < next'
        /\ s'.chosen[n + j] = s'.candidates[frames'[j].i]
        /\ frames'[j].previous = Score(devices, Upto(s'.chosen, n + j - 1))
        /\ \A k \in 1 .. h + 1 : j < k => frames'[j].i < frames'[k].i
  <2>1. SUFFICES ASSUME NEW j \in 1 .. h + 1
                 PROVE  /\ frames'[j].i < next'
                        /\ s'.chosen[n + j] = s'.candidates[frames'[j].i]
                        /\ frames'[j].previous = Score(devices, Upto(s'.chosen, n + j - 1))
                        /\ \A k \in 1 .. h + 1 : j < k => frames'[j].i < frames'[k].i
    OBVIOUS
  <2>2. CASE j = h + 1
    <3>1. \A k \in 1 .. h + 1 : ~(j < k)
      BY <1>6, <2>2
    <3> QED BY <1>1, <1>4, <1>10, <1>12, <2>2, <3>1
  <2>3. CASE j # h + 1
    <3>1. j \in 1 .. h
      BY <1>6, <2>3
    <3>2. frames[j].i \in Nat /\ frames[j].i < next /\ next \in Nat
      <4>1. frames[j] \in Frame
        BY <1>6, <3>1
      <4>2. frames[j].i \in 1 .. Len(s.candidates)
        BY <4>1 DEF Frame
      <4> QED BY <1>4, <1>6, <3>1, <4>2
    <3>3. frames'[j].i < next'
      BY <1>1, <1>10, <3>1, <3>2
    <3>4. \A k \in 1 .. h + 1 : j < k => frames'[j].i < frames'[k].i
      <4>1. SUFFICES ASSUME NEW k \in 1 .. h + 1, j < k PROVE frames'[j].i < frames'[k].i
        OBVIOUS
      <4>2. CASE k = h + 1
        BY <1>10, <1>12, <3>1, <3>2, <4>2
      <4>3. CASE k \in 1 .. h
        BY <1>6, <1>10, <3>1, <4>1, <4>3
      <4> QED BY <1>6, <4>2, <4>3
    <3> QED BY <1>6, <1>7, <1>10, <1>11, <3>1, <3>3, <3>4
  <2> QED BY <2>2, <2>3
<1>14. Stacked'
  <2>1. Len(s'.chosen) = n + (h + 1)
    BY <1>4, <1>6, <1>7
  <2> QED BY <1>1, <1>2, <1>9, <1>10, <1>13, <2>1 DEF Stacked
<1>15. next' \in 1 .. Len(s'.candidates) + 1 /\ Len(s'.chosen) <= request'.size
  BY <1>1, <1>3, <1>4, <1>7
<1> QED
  BY <1>1, <1>2, <1>7, <1>14, <1>15 DEF SearchInv

\* A call returns with the chosen devices it was entered with.
LEMMA ReturnInv ==
    ASSUME SearchInv, pc \in {"enter", "loop"}, NEW t, Consistent(devices, Available, t),
           t.chosen = s.chosen, t.candidates = s.candidates, t.best \in Seq(Available), Return(t)
    PROVE  SearchInv'
<1> DEFINE n == Len(selected)
           h == Len(frames)
           f == frames[h]
<1>1. /\ Asked /\ Searching /\ Stacked /\ answer \in Seq(Available)
      /\ next \in 1 .. Len(s.candidates) + 1 /\ Len(s.chosen) <= request.size
  <2>1. /\ Asked /\ Searching /\ Stacked /\ answer \in Seq(Available)
        /\ next \in 1 .. Len(s.candidates) + 1 /\ (pc = "enter" => Len(s.chosen) <= request.size)
        /\ (pc = "loop" => Len(s.chosen) < request.size)
    BY DEF SearchInv
  <2>2. s.chosen \in Seq(Available) /\ request.size \in Nat
    BY <2>1, RequestFacts DEF Searching, Consistent
  <2>3. Len(s.chosen) \in Nat
    BY <2>2
  <2> QED BY <2>1, <2>2, <2>3
<1>2. UNCHANGED <<devices, request>>
  BY DEF Return, Respond
<1>3. Asked' /\ Available' = Available /\ selected' = selected /\ (Rejected' <=> Rejected)
  BY <1>1, <1>2, Fixed
<1>4. CASE frames = <<>>
  <2>1. pc' = "done" /\ (answer' = t.best \/ answer' = <<>>)
    BY <1>4 DEF Return, Respond
  <2>2. <<>> \in Seq(Available)
    OBVIOUS
  <2>3. answer' \in Seq(Available)
    BY <2>1, <2>2
  <2> QED BY <1>3, <2>1, <2>3 DEF SearchInv
<1>5. CASE frames # <<>>
  <2>1. /\ s' = undo(t, Last(frames).previous) /\ next' = Last(frames).i + 1
        /\ frames' = Front(frames) /\ pc' = "loop" /\ a' = a /\ answer' = answer
    BY <1>5 DEF Return
  <2>2. /\ frames \in Seq(Frame) /\ Len(s.chosen) = n + h
        /\ \A j \in 1 .. h :
              /\ s.chosen[n + j] = s.candidates[frames[j].i]
              /\ frames[j].previous = Score(devices, Upto(s.chosen, n + j - 1))
              /\ \A k \in 1 .. h : j < k => frames[j].i < frames[k].i
    BY <1>1 DEF Stacked
  <2>3. /\ ~Rejected /\ n < request.size /\ a = Allocator(devices, Available)
        /\ s.candidates = Sorted(Available \ ToSet(selected))
        /\ \A i \in 1 .. Len(s.chosen) : i <= n => s.chosen[i] = selected[i]
    BY <1>1 DEF Searching
  <2>4. /\ devices \in Seq(Device) /\ Available \in SUBSET DOMAIN devices
        /\ selected \in Seq(Available) /\ request.size \in Nat
    BY <1>1, <2>3, RequestFacts
  <2>5. s.chosen \in Seq(Available) /\ Distinct(s.chosen)
    BY DEF Consistent
  <2>6. h \in Nat /\ h >= 1 /\ h \in 1 .. h /\ n \in Nat /\ Len(s.chosen) \in Nat /\ Len(s.chosen) > 0
    BY <1>5, <2>2, <2>4, <2>5
  <2>7. /\ frames' \in Seq(Frame) /\ Len(frames') = h - 1 /\ Last(frames) = f /\ f \in Frame
        /\ \A j \in 1 .. h - 1 : frames'[j] = frames[j]
    <3>1. /\ Front(frames) \in Seq(Frame) /\ Len(Front(frames)) = h - 1
          /\ \A j \in 1 .. h - 1 : Front(frames)[j] = frames[j]
      BY <2>2, <2>6, FrontOf
    <3>2. Last(frames) = f /\ f \in Frame
      BY <2>2, <2>6 DEF Last
    <3> QED BY <2>1, <3>1, <3>2
  <2>8. /\ Front(s.chosen) \in Seq(Available) /\ Len(Front(s.chosen)) = Len(s.chosen) - 1
        /\ \A i \in 1 .. Len(s.chosen) - 1 : Front(s.chosen)[i] = s.chosen[i]
        /\ \A m \in 0 .. Len(s.chosen) - 1 : Upto(Front(s.chosen), m) = Upto(s.chosen, m)
        /\ Upto(s.chosen, Len(s.chosen) - 1) = ToSet(Front(s.chosen))
    BY <2>5, <2>6, FrontFacts
  <2>9. f.previous = Score(devices, ToSet(Front(s.chosen)))
    <3>1. n + h - 1 = Len(s.chosen) - 1
      BY <2>2, <2>6
    <3> QED BY <2>2, <2>6, <2>8, <3>1
  <2>10. /\ Consistent(devices, Available, s') /\ s'.chosen = Front(s.chosen)
         /\ s'.candidates = s.candidates /\ s'.best = t.best
    <3> DEFINE previous == f.previous
    <3>1. s' = undo(t, previous) /\ previous = Score(devices, ToSet(Front(t.chosen))) /\ Len(t.chosen) > 0
      BY <2>1, <2>6, <2>7, <2>9
    <3> HIDE DEF previous
    <3>2. /\ Consistent(devices, Available, s') /\ s'.chosen = Front(t.chosen)
          /\ s'.candidates = t.candidates /\ s'.best = t.best
      BY <2>3, <2>4, <3>1, UndoConsistent
    <3> QED BY <3>2
  <2>11. Searching'
    <3>1. ~Rejected' /\ Len(selected') < request'.size /\ a' = Allocator(devices', Available')
      BY <1>2, <1>3, <2>1, <2>3
    <3>2. Consistent(devices', Available', s') /\ s'.candidates = Sorted(Available' \ ToSet(selected'))
      BY <1>2, <1>3, <2>3, <2>10
    <3>3. \A i \in 1 .. Len(s'.chosen) : i <= n => s'.chosen[i] = selected[i]
      <4>1. \A i \in 1 .. Len(s.chosen) - 1 : i \in 1 .. Len(s.chosen)
        BY <2>6
      <4> QED BY <2>3, <2>8, <2>10, <4>1
    <3> QED BY <1>3, <2>10, <3>1, <3>2, <3>3 DEF Searching
  <2>12. Frame' = Frame
    BY <1>2, <1>3, <2>10 DEF Frame
  <2>13. \A j \in 1 .. h - 1 :
            /\ frames'[j].i < next'
            /\ s'.chosen[n + j] = s'.candidates[frames'[j].i]
            /\ frames'[j].previous = Score(devices, Upto(s'.chosen, n + j - 1))
            /\ \A k \in 1 .. h - 1 : j < k => frames'[j].i < frames'[k].i
    <3>1. SUFFICES ASSUME NEW j \in 1 .. h - 1
                   PROVE  /\ frames'[j].i < next'
                          /\ s'.chosen[n + j] = s'.candidates[frames'[j].i]
                          /\ frames'[j].previous = Score(devices, Upto(s'.chosen, n + j - 1))
                          /\ \A k \in 1 .. h - 1 : j < k => frames'[j].i < frames'[k].i
      OBVIOUS
    <3>2. /\ j \in 1 .. h /\ j < h /\ n + j \in 1 .. Len(s.chosen) - 1 /\ n + j - 1 \in 0 .. Len(s.chosen) - 1
          /\ \A k \in 1 .. h - 1 : k \in 1 .. h
      BY <2>2, <2>6
    <3>3. frames[j].i \in Nat /\ f.i \in Nat
      <4>1. frames[j] \in Frame
        BY <2>2, <3>2
      <4>2. frames[j].i \in 1 .. Len(s.candidates) /\ f.i \in 1 .. Len(s.candidates)
        BY <2>7, <4>1 DEF Frame
      <4> QED BY <4>2
    <3>4. frames[j].i < f.i
      BY <2>2, <2>6, <3>2
    <3>5. frames'[j].i < next'
      BY <2>1, <2>7, <3>3, <3>4
    <3>6. \A k \in 1 .. h - 1 : j < k => frames'[j].i < frames'[k].i
      BY <2>2, <2>7, <3>2
    <3>7. s'.chosen[n + j] = s'.candidates[frames'[j].i]
      <4>1. s'.chosen[n + j] = s.chosen[n + j]
        BY <2>8, <2>10, <3>2
      <4>2. s.chosen[n + j] = s.candidates[frames[j].i]
        BY <2>2, <3>2
      <4>3. frames'[j] = frames[j]
        BY <2>7
      <4> QED BY Zenon, <2>10, <4>1, <4>2, <4>3
    <3>8. frames'[j].previous = Score(devices, Upto(s'.chosen, n + j - 1))
      <4>1. Upto(s'.chosen, n + j - 1) = Upto(s.chosen, n + j - 1)
        BY <2>8, <2>10, <3>2
      <4>2. frames[j].previous = Score(devices, Upto(s.chosen, n + j - 1))
        BY <2>2, <3>2
      <4> QED BY <2>7, <4>1, <4>2
    <3> QED BY <3>5, <3>6, <3>7, <3>8
  <2>14. Stacked'
    <3>1. Len(s'.chosen) = n + (h - 1)
      BY <2>2, <2>6, <2>8, <2>10
    <3> QED BY <1>2, <1>3, <2>7, <2>12, <2>13, <3>1 DEF Stacked
  <2>15. next' \in 1 .. Len(s'.candidates) + 1
    <3>1. f.i \in 1 .. Len(s.candidates)
      BY <2>7 DEF Frame
    <3>2. s.candidates \in Seq(Available \ ToSet(selected))
      BY <1>1, <2>3, RequestFacts DEF Enumerates
    <3>3. Len(s.candidates) \in Nat
      BY <3>2
    <3> QED BY <2>1, <2>7, <2>10, <3>1, <3>3
  <2>16. Len(s'.chosen) < request'.size
    BY <1>1, <1>2, <2>4, <2>6, <2>8, <2>10
  <2> QED BY <1>3, <1>1, <2>1, <2>11, <2>14, <2>15, <2>16 DEF SearchInv
<1> QED
  BY <1>4, <1>5

\* A new best leaves the rest of the record alone.
WithBest(t, best, bestScore) == [t EXCEPT !.best = best, !.bestScore = bestScore]

LEMMA WithBestConsistent ==
    ASSUME NEW tab, NEW avail, NEW t, Consistent(tab, avail, t), NEW b, NEW v
    PROVE  LET r == WithBest(t, b, v)
           IN  /\ Consistent(tab, avail, r)
               /\ r.chosen = t.chosen /\ r.candidates = t.candidates /\ r.best = b
               /\ r.bestScore = v
               /\ r.minDistance = t.minDistance /\ r.minSeparateRoots = t.minSeparateRoots
<1> DEFINE q == WithBest(t, b, v)
           t1 == t.candidates
           t2 == t.minDistance
           t3 == t.minSeparateRoots
           t4 == t.chosen
           t5 == t.sidCounts
           t6 == t.numaCounts
           t7 == t.score
           t8 == t.best
           t9 == t.bestScore
           r == [candidates |-> t1, minDistance |-> t2, minSeparateRoots |-> t3,
                 chosen |-> t4, sidCounts |-> t5, numaCounts |-> t6,
                 score |-> t7, best |-> b, bestScore |-> v]
<1>1. t = [candidates |-> t1, minDistance |-> t2, minSeparateRoots |-> t3,
           chosen |-> t4, sidCounts |-> t5, numaCounts |-> t6,
           score |-> t7, best |-> t8, bestScore |-> t9]
  BY DEF Consistent, Fields
<1>2. /\ t4 \in Seq(avail) /\ Distinct(t4) /\ t7 = Score(tab, ToSet(t4))
      /\ t5 = GroupCounts(tab, avail, ToSet(t4)) /\ t6 = NodeCounts(tab, avail, ToSet(t4))
  BY DEF Consistent
<1> HIDE DEF t1, t2, t3, t4, t5, t6, t7, t8, t9
<1>3. DOMAIN t = FieldNames /\ t = [x \in FieldNames |-> t[x]]
  BY <1>1 DEF FieldNames
<1>4. DOMAIN q = FieldNames /\ q = [x \in FieldNames |-> q[x]]
  BY <1>3 DEF WithBest
<1>5. DOMAIN r = FieldNames /\ r = [x \in FieldNames |-> r[x]]
  BY DEF FieldNames
<1>6. /\ q.candidates = t1 /\ q.minDistance = t2 /\ q.minSeparateRoots = t3
      /\ q.chosen = t4 /\ q.sidCounts = t5 /\ q.numaCounts = t6
      /\ q.score = t7 /\ q.best = b /\ q.bestScore = v
  BY <1>3 DEF WithBest, FieldNames, t1, t2, t3, t4, t5, t6, t7
<1>7. /\ r.candidates = t1 /\ r.minDistance = t2 /\ r.minSeparateRoots = t3
      /\ r.chosen = t4 /\ r.sidCounts = t5 /\ r.numaCounts = t6
      /\ r.score = t7 /\ r.best = b /\ r.bestScore = v
  OBVIOUS
<1>8. r = [candidates |-> t1, minDistance |-> t2, minSeparateRoots |-> t3,
           chosen |-> t4, sidCounts |-> t5, numaCounts |-> t6,
           score |-> t7, best |-> b, bestScore |-> v]
  OBVIOUS
<1> HIDE DEF q, r
<1>9. \A x \in FieldNames : q[x] = r[x]
  BY <1>6, <1>7 DEF FieldNames
<1>10. q = r
  BY <1>4, <1>5, <1>9
<1>11. Fields(q)
  BY Zenon, <1>6, <1>8, <1>10 DEF Fields
<1>12. Consistent(tab, avail, q)
  BY <1>2, <1>6, <1>11 DEF Consistent
<1> QED
  BY <1>6, <1>12 DEF q, t1, t2, t3, t4

LEMMA LeafInv ==
    ASSUME SearchInv, Leaf
    PROVE  SearchInv'
<1> DEFINE t == IF s.best = <<>> \/ less(s.score, s.bestScore) THEN WithBest(s, s.chosen, s.score) ELSE s
<1>1. pc = "enter" /\ Return(t)
  BY Zenon DEF Leaf, WithBest
<1>2. Consistent(devices, Available, s) /\ s.best \in Seq(Available)
  BY <1>1 DEF SearchInv, Searching
<1>3. s.chosen \in Seq(Available)
  BY <1>2 DEF Consistent
<1>4. /\ Consistent(devices, Available, t)
      /\ t.chosen = s.chosen /\ t.candidates = s.candidates /\ t.best \in Seq(Available)
  <2>1. CASE t = s
    BY <1>2, <2>1
  <2>2. CASE t = WithBest(s, s.chosen, s.score)
    <3> HIDE DEF t
    <3> QED BY <1>2, <1>3, <2>2, WithBestConsistent
  <2> QED BY <2>1, <2>2
<1> HIDE DEF t
<1> QED
  BY <1>1, <1>4, ReturnInv

LEMMA PlainReturnInv ==
    ASSUME SearchInv, Cut \/ Exhausted
    PROVE  SearchInv'
<1>1. pc \in {"enter", "loop"} /\ Return(s)
  BY DEF Cut, Exhausted
<1>2. Consistent(devices, Available, s) /\ s.best \in Seq(Available)
  BY <1>1 DEF SearchInv, Searching
<1> QED
  BY <1>1, <1>2, ReturnInv

LEMMA StutterInv ==
    ASSUME SearchInv, UNCHANGED vars
    PROVE  SearchInv'
<1>1. /\ UNCHANGED <<devices, request, a, s>> /\ pc' = pc /\ frames' = frames
      /\ next' = next /\ answer' = answer
  BY DEF vars
<1>2. Available' = Available /\ selected' = selected /\ (Asked' <=> Asked)
  BY <1>1, Fixed
<1>3. Searching => Searching'
  BY <1>1, SearchKept
<1>4. Frame' = Frame
  BY <1>1, <1>2 DEF Frame
<1>5. Stacked => Stacked'
  BY <1>1, <1>2, <1>4 DEF Stacked
<1> QED
  BY <1>1, <1>2, <1>3, <1>5 DEF SearchInv

\* The search never loses the relation of its one record to its stack of calls:
\* every open call has chosen its candidate and kept the score from before.
THEOREM SearchInvariance == Spec => []SearchInv
<1>1. SearchInv /\ [Next]_vars => SearchInv'
  <2>1. SUFFICES ASSUME SearchInv, [Next]_vars PROVE SearchInv'
    OBVIOUS
  <2>2. CASE Fallback
    BY <2>1, <2>2, FallbackInv
  <2>3. CASE NoChoice
    BY <2>1, <2>3, NoChoiceInv
  <2>4. CASE SelectDevices
    BY <2>1, <2>4, SelectDevicesInv
  <2>5. CASE AddMandatory
    BY <2>1, <2>5, AddMandatoryInv
  <2>6. CASE CallSearch
    BY <2>1, <2>6, CallSearchInv
  <2>7. CASE Leaf
    BY <2>1, <2>7, LeafInv
  <2>8. CASE Cut \/ Exhausted
    BY <2>1, <2>8, PlainReturnInv
  <2>9. CASE Open
    BY <2>1, <2>9, OpenInv
  <2>10. CASE Choose
    BY <2>1, <2>10, ChooseInv
  <2>11. CASE Finished \/ UNCHANGED vars
    BY <2>1, <2>11, StutterInv DEF Finished
  <2> QED
    BY <2>1, <2>2, <2>3, <2>4, <2>5, <2>6, <2>7, <2>8, <2>9, <2>10, <2>11 DEF Next
<1> QED
  BY InitSearchInv, <1>1, PTL DEF Spec

\* Every answer lists available devices only, the counters stay between 0 and
\* the number of devices, and there is one open call per device chosen after the
\* mandatory ones: add and undo are paired on every path through search.
THEOREM TypeCorrect == Spec => []TypeOK
<1>1. SearchInv => TypeOK
  <2>1. SUFFICES ASSUME SearchInv PROVE TypeOK
    OBVIOUS
  <2>2. CASE pc \notin {"enter", "loop"}
    BY <2>1, <2>2 DEF SearchInv, TypeOK
  <2>3. CASE pc \in {"enter", "loop"}
    <3> DEFINE S == ToSet(s.chosen)
    <3>1. Asked /\ Searching /\ Stacked /\ next \in 1 .. Len(s.candidates) + 1
      BY <2>1, <2>3 DEF SearchInv
    <3>2. /\ s.chosen \in Seq(Available) /\ s.best \in Seq(Available)
          /\ s.sidCounts = GroupCounts(devices, Available, S)
          /\ s.numaCounts = NodeCounts(devices, Available, S)
      BY <3>1 DEF Searching, Consistent
    <3>3. IsFiniteSet(Available) /\ S \in SUBSET Available
      BY <3>1, <3>2, RequestFacts DEF Searching, ToSet
    <3>4. \A A \in SUBSET S : Cardinality(A) \in 0 .. Cardinality(Available)
      <4>1. SUFFICES ASSUME NEW A \in SUBSET S PROVE Cardinality(A) \in 0 .. Cardinality(Available)
        OBVIOUS
      <4>2. A \in SUBSET Available
        BY <3>3
      <4>3. IsFiniteSet(A) /\ Cardinality(A) <= Cardinality(Available)
        BY <3>3, <4>2, FS_Subset
      <4>4. Cardinality(A) \in Nat /\ Cardinality(Available) \in Nat
        BY <3>3, <4>3, FS_CardinalityType
      <4> QED BY <4>3, <4>4
    <3> HIDE DEF S
    <3>5. \A k \in DOMAIN s.sidCounts : s.sidCounts[k] \in 0 .. Cardinality(Available)
      BY <3>2, <3>4 DEF GroupCounts
    <3>6. \A n \in DOMAIN s.numaCounts : s.numaCounts[n] \in 0 .. Cardinality(Available)
      BY <3>2, <3>4 DEF NodeCounts
    <3> QED BY <2>1, <3>1, <3>2, <3>5, <3>6 DEF SearchInv, Stacked, TypeOK
  <2> QED BY <2>2, <2>3
<1> QED
  BY SearchInvariance, <1>1, PTL

\* Whatever was chosen and undone before, on any table and any request, the
\* score and the counters that add and undo keep are those of the devices that
\* are chosen now, as the documented policy defines them.
THEOREM ScoreIsExact == Spec => []ScoreMatchesChosen
<1>1. SearchInv => ScoreMatchesChosen
  <2>1. SUFFICES ASSUME SearchInv, pc \in {"must", "enter", "loop"}
                 PROVE  /\ s.score = Score(devices, ToSet(s.chosen))
                        /\ \A k \in DOMAIN s.sidCounts :
                              s.sidCounts[k] = Cardinality({d \in ToSet(s.chosen) : sidKey(devices, d) = k})
                        /\ \A n \in DOMAIN s.numaCounts :
                              s.numaCounts[n] = Cardinality({d \in ToSet(s.chosen) : devices[d].numa = n})
    BY DEF ScoreMatchesChosen
  <2>2. Consistent(devices, Available, s)
    BY <2>1 DEF SearchInv, Searching
  <2> QED BY <2>2 DEF Consistent, GroupCounts, NodeCounts
<1> QED
  BY SearchInvariance, <1>1, PTL

-----------------------------------------------------------------------------
(* Every request that makes sense is answered *)

\* A list of as many devices as asked for: the mandatory ones, then others by ID.
Complete(q) ==
    /\ q \in Seq(Available)
    /\ Len(q) = request.size
    /\ \A i \in 1 .. Len(selected) : q[i] = selected[i]
    /\ \A i \in Len(selected) + 1 .. request.size : q[i] \notin ToSet(selected)
    /\ \A i, j \in Len(selected) + 1 .. request.size : i < j => q[i] < q[j]

\* Until a first set is complete, every open call is in the first turn of its
\* loop.
FirstDescent == next = Len(frames) + 1 /\ \A j \in 1 .. Len(frames) : frames[j].i = j

AnswerInv ==
    /\ pc \in {"must", "enter", "loop"} => request.size < Cardinality(Available)
    /\ pc = "must" => s.best = <<>>
    /\ pc \in {"enter", "loop"} => IF s.best = <<>> THEN FirstDescent ELSE Complete(s.best)
    /\ AnswerValid

\* There is one increasing list of a set.
LEMMA EnumeratesOnce ==
    ASSUME NEW T, T \subseteq Nat, NEW p, NEW q, Enumerates(p, T), Enumerates(q, T)
    PROVE  p = q
<1>1. /\ p \in Seq(T) /\ q \in Seq(T) /\ Len(p) \in Nat /\ Len(q) \in Nat
      /\ \A i \in 1 .. Len(p) : p[i] \in T /\ p[i] \in Nat
      /\ \A i \in 1 .. Len(q) : q[i] \in T /\ q[i] \in Nat
  <2>1. p \in Seq(T) /\ q \in Seq(T)
    BY DEF Enumerates
  <2>2. /\ Len(p) \in Nat /\ Len(q) \in Nat
        /\ \A i \in 1 .. Len(p) : p[i] \in T
        /\ \A i \in 1 .. Len(q) : q[i] \in T
    BY <2>1
  <2> QED BY <2>1, <2>2
<1>2. \A i, j \in 1 .. Len(p) : i < j => p[i] < p[j]
  BY DEF Enumerates
<1>3. \A i, j \in 1 .. Len(q) : i < j => q[i] < q[j]
  BY DEF Enumerates
<1>4. \A x \in T : (\E i \in 1 .. Len(p) : p[i] = x) /\ (\E i \in 1 .. Len(q) : q[i] = x)
  BY DEF Enumerates
<1>5. Len(p) = Len(q)
  <2>1. \A i, j \in 1 .. Len(p) : i # j => p[i] # p[j]
    <3>1. SUFFICES ASSUME NEW i \in 1 .. Len(p), NEW j \in 1 .. Len(p), i # j PROVE p[i] # p[j]
      OBVIOUS
    <3>2. p[i] < p[j] \/ p[j] < p[i]
      BY <1>1, <1>2, <3>1
    <3> QED BY <1>1, <3>2
  <2>2. \A i, j \in 1 .. Len(q) : i # j => q[i] # q[j]
    <3>1. SUFFICES ASSUME NEW i \in 1 .. Len(q), NEW j \in 1 .. Len(q), i # j PROVE q[i] # q[j]
      OBVIOUS
    <3>2. q[i] < q[j] \/ q[j] < q[i]
      BY <1>1, <1>3, <3>1
    <3> QED BY <1>1, <3>2
  <2>3. ToSet(p) = T /\ ToSet(q) = T
    <3>1. DOMAIN p = 1 .. Len(p) /\ DOMAIN q = 1 .. Len(q)
      BY <1>1
    <3>2. ToSet(p) = T
      BY <1>1, <1>4, <3>1 DEF ToSet
    <3>3. ToSet(q) = T
      BY <1>1, <1>4, <3>1 DEF ToSet
    <3> QED BY <3>2, <3>3
  <2>4. Cardinality(ToSet(p)) = Len(p) /\ Cardinality(ToSet(q)) = Len(q)
    BY <1>1, <2>1, <2>2, LengthIsCardinality
  <2> QED BY <2>3, <2>4
<1> DEFINE B == {i \in 1 .. Len(p) : p[i] # q[i]}
<1>6. ASSUME B # {} PROVE FALSE
  <2>1. B \subseteq Nat
    BY <1>1
  <2>2. PICK n \in B : \A m \in B : n <= m
    <3> HIDE DEF B
    <3>1. B \subseteq Nat /\ B # {}
      BY <1>6, <2>1
    <3> QED BY ONLY <3>1, LeastNumber
  <2>3. n \in 1 .. Len(p) /\ n \in 1 .. Len(q) /\ p[n] # q[n] /\ n \in Nat
    BY <1>1, <1>5
  <2>4. \A m \in 1 .. Len(p) : m < n => p[m] = q[m]
    BY <1>1, <2>2, <2>3
  <2>5. ASSUME p[n] < q[n] PROVE FALSE
    <3>1. PICK j \in 1 .. Len(q) : q[j] = p[n]
      BY <1>1, <1>4, <2>3
    <3>2. CASE j < n
      <4>1. p[j] = q[j] /\ p[j] < p[n]
        BY <1>2, <1>5, <2>3, <2>4, <3>2
      <4> QED BY <1>1, <2>3, <3>1, <4>1
    <3>3. CASE j = n
      BY <2>3, <3>1, <3>3
    <3>4. CASE n < j
      <4>1. q[n] < q[j]
        BY <1>3, <2>3, <3>4
      <4> QED BY <1>1, <2>3, <2>5, <3>1, <4>1
    <3> QED BY <2>3, <3>2, <3>3, <3>4
  <2>6. ASSUME q[n] < p[n] PROVE FALSE
    <3>1. PICK j \in 1 .. Len(p) : p[j] = q[n]
      BY <1>1, <1>4, <2>3
    <3>2. CASE j < n
      <4>1. p[j] = q[j] /\ q[j] < q[n]
        BY <1>3, <1>5, <2>3, <2>4, <3>2
      <4> QED BY <1>1, <2>3, <3>1, <4>1
    <3>3. CASE j = n
      BY <2>3, <3>1, <3>3
    <3>4. CASE n < j
      <4>1. p[n] < p[j]
        BY <1>2, <2>3, <3>4
      <4> QED BY <1>1, <2>3, <2>6, <3>1, <4>1
    <3> QED BY <2>3, <3>2, <3>3, <3>4
  <2> QED BY <1>1, <2>3, <2>5, <2>6
<1>7. \A i \in 1 .. Len(p) : p[i] = q[i]
  BY <1>6
<1> QED
  BY <1>1, <1>5, <1>7

\* A complete list is a valid answer.
LEMMA CompleteAnswers ==
    ASSUME Asked, ~Rejected, NEW q, Complete(q)
    PROVE  /\ ToSet(q) \in Answers
           /\ q = selected \o Sorted(ToSet(q) \ ToSet(selected))
<1> DEFINE m == selected
           n == Len(m)
           z == request.size
           T == ToSet(q) \ ToSet(m)
           r == [i \in 1 .. z - n |-> q[n + i]]
<1>1. /\ m \in Seq(Available) /\ Distinct(m) /\ n <= z /\ z \in Nat /\ n \in Nat
      /\ Available \subseteq Nat \ {0} /\ IsFiniteSet(Available)
  BY RequestFacts
<1>2. /\ q \in Seq(Available) /\ Len(q) = z
      /\ \A i \in 1 .. n : q[i] = m[i]
      /\ \A i \in n + 1 .. z : q[i] \notin ToSet(m)
      /\ \A i, j \in n + 1 .. z : i < j => q[i] < q[j]
  BY DEF Complete
<1>3. ToSet(m) = ToSet(request.must)
  BY NormalizedMust DEF selected, Asked
<1> HIDE DEF m, n, z, T, r
<1>4. /\ DOMAIN q = 1 .. z /\ DOMAIN m = 1 .. n
      /\ \A i \in 1 .. z : q[i] \in Available /\ q[i] \in Nat
      /\ \A i \in 1 .. z : i \in 1 .. n \/ i \in n + 1 .. z
      /\ \A i \in 1 .. n : i \in 1 .. z
  <2>1. DOMAIN q = 1 .. z /\ DOMAIN m = 1 .. n /\ \A i \in 1 .. z : q[i] \in Available
    BY <1>1, <1>2 DEF n
  <2>2. \A x \in Available : x \in Nat
    BY <1>1
  <2>3. (\A i \in 1 .. z : i \in 1 .. n \/ i \in n + 1 .. z) /\ (\A i \in 1 .. n : i \in 1 .. z)
    BY <1>1
  <2> QED BY <2>1, <2>2, <2>3
<1>5. \A i \in 1 .. n : m[i] \in ToSet(m)
  BY <1>4 DEF ToSet
<1>6. Distinct(q)
  <2>1. SUFFICES ASSUME NEW i \in 1 .. z, NEW j \in 1 .. z, i < j PROVE q[i] # q[j]
    <3>1. SUFFICES ASSUME NEW i \in 1 .. z, NEW j \in 1 .. z, i # j PROVE q[i] # q[j]
      BY <1>2 DEF Distinct
    <3>2. i < j \/ j < i
      BY <1>1, <3>1
    <3> QED BY <2>1, <3>2
  <2>2. CASE i \in 1 .. n /\ j \in 1 .. n
    <3>1. m[i] # m[j]
      BY <1>1, <2>1, <2>2 DEF Distinct, n
    <3> QED BY <1>2, <2>2, <3>1
  <2>3. CASE i \in 1 .. n /\ j \in n + 1 .. z
    BY <1>2, <1>5, <2>3
  <2>4. CASE i \in n + 1 .. z /\ j \in n + 1 .. z
    <3>1. q[i] < q[j]
      BY <1>2, <2>1, <2>4
    <3> QED BY <1>4, <3>1
  <2>5. CASE i \in n + 1 .. z /\ j \in 1 .. n
    BY <1>1, <2>1, <2>5
  <2> QED BY <1>4, <2>2, <2>3, <2>4, <2>5
<1>7. ToSet(q) \subseteq Available /\ Cardinality(ToSet(q)) = z
  BY <1>2, <1>6, LengthIsCardinality DEF Distinct
<1>8. ToSet(m) \subseteq ToSet(q)
  BY <1>2, <1>4 DEF ToSet
<1>9. ToSet(q) \in Answers
  BY <1>3, <1>7, <1>8 DEF Answers, z
<1>10. /\ r \in Seq(T) /\ Len(r) = z - n /\ z - n \in Nat
       /\ \A i \in 1 .. z - n : r[i] = q[n + i] /\ n + i \in n + 1 .. z /\ n + i \in 1 .. z
  <2>1. z - n \in Nat /\ \A i \in 1 .. z - n : n + i \in n + 1 .. z /\ n + i \in 1 .. z
    BY <1>1
  <2>2. \A i \in 1 .. z - n : q[n + i] \in T
    BY <1>2, <1>4, <2>1 DEF T, ToSet
  <2>3. r = [i \in 1 .. z - n |-> q[n + i]]
    BY DEF r
  <2> QED BY <2>1, <2>2, <2>3
<1>11. Enumerates(r, T)
  <2>1. \A i, j \in 1 .. Len(r) : i < j => r[i] < r[j]
    <3>1. SUFFICES ASSUME NEW i \in 1 .. z - n, NEW j \in 1 .. z - n, i < j PROVE r[i] < r[j]
      BY <1>10
    <3>2. n + i < n + j
      BY <1>1, <3>1
    <3> QED BY <1>2, <1>10, <3>2
  <2>2. \A x \in T : \E i \in 1 .. Len(r) : r[i] = x
    <3>1. SUFFICES ASSUME NEW x \in T PROVE \E i \in 1 .. z - n : r[i] = x
      BY <1>10
    <3>2. PICK k \in 1 .. z : q[k] = x
      BY <1>4 DEF T, ToSet
    <3>3. k \notin 1 .. n
      BY <1>2, <1>5, <3>2 DEF T
    <3>4. k - n \in 1 .. z - n /\ k = n + (k - n)
      BY <1>1, <3>3
    <3>5. r[k - n] = x
      BY <1>10, <3>2, <3>4
    <3> QED BY <3>4, <3>5
  <2> QED BY <1>10, <2>1, <2>2 DEF Enumerates
<1>12. T \subseteq Nat \ {0} /\ T \subseteq Nat /\ IsFiniteSet(T)
  <2>1. T \in SUBSET Available
    BY <1>7 DEF T
  <2>2. IsFiniteSet(T)
    BY <1>1, <2>1, FS_Subset
  <2> QED BY <1>1, <2>1, <2>2
<1>13. Sorted(T) = r
  <2>1. Enumerates(Sorted(T), T)
    BY <1>12, SortedEnumerates
  <2> QED BY <1>11, <1>12, <2>1, EnumeratesOnce
<1>14. q = m \o r
  <2>1. m \in Seq(Available) /\ r \in Seq(Available)
    <3>1. \A i \in 1 .. z - n : r[i] \in Available
      BY <1>4, <1>10
    <3>2. r \in Seq(Available)
      <4>1. r = [i \in 1 .. z - n |-> r[i]]
        BY DEF r
      <4> QED BY <1>10, <3>1, <4>1
    <3> QED BY <1>1, <3>2
  <2>2. /\ m \o r \in Seq(Available) /\ Len(m \o r) = n + (z - n)
        /\ \A i \in 1 .. n : (m \o r)[i] = m[i]
        /\ \A i \in n + 1 .. z : (m \o r)[i] = r[i - n]
    BY <1>1, <1>10, <2>1 DEF n
  <2>3. n + (z - n) = z
    BY <1>1
  <2>4. \A i \in 1 .. z : (m \o r)[i] = q[i]
    <3>1. SUFFICES ASSUME NEW i \in 1 .. z PROVE (m \o r)[i] = q[i]
      OBVIOUS
    <3>2. CASE i \in 1 .. n
      BY <1>2, <2>2, <3>2
    <3>3. CASE i \in n + 1 .. z
      <4>1. i - n \in 1 .. z - n /\ n + (i - n) = i
        BY <1>1, <3>3
      <4> QED BY <1>10, <2>2, <3>3, <4>1
    <3> QED BY <1>4, <3>2, <3>3
  <2> DEFINE w == m \o r
  <2>5. w \in Seq(Available) /\ Len(w) = z /\ \A i \in 1 .. z : w[i] = q[i]
    BY <2>2, <2>3, <2>4
  <2> HIDE DEF w
  <2>6. w = q
    BY <1>1, <1>2, <2>5
  <2> QED BY <2>6 DEF w
<1> QED
  BY <1>9, <1>13, <1>14 DEF m, T

LEMMA SortedLength ==
    ASSUME NEW T, IsFiniteSet(T), T \subseteq Nat \ {0}
    PROVE  Sorted(T) \in Seq(T) /\ Len(Sorted(T)) = Cardinality(T)
<1> DEFINE q == Sorted(T)
<1>1. Enumerates(q, T)
  BY SortedEnumerates
<1> HIDE DEF q
<1>2. q \in Seq(T) /\ (\A i, j \in 1 .. Len(q) : i < j => q[i] < q[j])
      /\ (\A x \in T : \E i \in 1 .. Len(q) : q[i] = x)
  BY <1>1 DEF Enumerates
<1>3. Len(q) \in Nat /\ DOMAIN q = 1 .. Len(q) /\ \A i \in 1 .. Len(q) : q[i] \in T
  BY <1>2
<1>4. \A i, j \in 1 .. Len(q) : i # j => q[i] # q[j]
  <2>1. SUFFICES ASSUME NEW i \in 1 .. Len(q), NEW j \in 1 .. Len(q), i # j PROVE q[i] # q[j]
    OBVIOUS
  <2>2. q[i] < q[j] \/ q[j] < q[i]
    BY <1>2, <1>3, <2>1
  <2>3. q[i] \in Nat /\ q[j] \in Nat
    BY <1>3
  <2> QED BY <2>2, <2>3
<1>5. ToSet(q) = T
  BY <1>2, <1>3 DEF ToSet
<1>6. Cardinality(T) = Len(q)
  BY <1>2, <1>4, <1>5, LengthIsCardinality
<1> QED
  BY <1>2, <1>6 DEF q

\* As many devices of A as are not in M.
LEMMA WithoutCardinality ==
    ASSUME NEW A, IsFiniteSet(A), NEW M \in SUBSET A
    PROVE  /\ IsFiniteSet(A \ M) /\ Cardinality(A \ M) = Cardinality(A) - Cardinality(M)
           /\ Cardinality(A) \in Nat /\ Cardinality(M) \in Nat
<1>1. A \cap M = M
  OBVIOUS
<1>2. IsFiniteSet(M)
  BY FS_Subset
<1> QED
  BY <1>1, <1>2, FS_Difference, FS_CardinalityType

LEMMA CandidatesLength ==
    ASSUME Asked, ~Rejected
    PROVE  LET q == Sorted(Available \ ToSet(selected))
           IN  Len(q) = Cardinality(Available) - Len(selected) /\ Cardinality(Available) \in Nat
<1> DEFINE M == ToSet(selected)
           T == Available \ M
<1>1. IsFiniteSet(Available) /\ Available \subseteq Nat \ {0} /\ selected \in Seq(Available) /\ Distinct(selected)
  BY RequestFacts
<1>2. M \in SUBSET Available /\ Cardinality(M) = Len(selected)
  BY <1>1, LengthIsCardinality DEF Distinct
<1> HIDE DEF M
<1>3. /\ IsFiniteSet(T) /\ Cardinality(T) = Cardinality(Available) - Cardinality(M)
      /\ Cardinality(Available) \in Nat
  BY <1>1, <1>2, WithoutCardinality
<1>4. T \subseteq Nat \ {0}
  BY <1>1
<1> HIDE DEF T
<1>5. Len(Sorted(T)) = Cardinality(T)
  BY <1>3, <1>4, SortedLength
<1> QED
  BY <1>2, <1>3, <1>5 DEF T, M

\* What an open call has chosen when nothing is missing is complete.
LEMMA ChosenComplete ==
    ASSUME Asked, Searching, Stacked, Len(s.chosen) = request.size
    PROVE  Complete(s.chosen)
<1> DEFINE n == Len(selected)
           z == request.size
           q == s.chosen
           c == s.candidates
           T == Available \ ToSet(selected)
<1>1. ~Rejected /\ selected \in Seq(Available) /\ z \in Nat /\ Available \subseteq Nat \ {0}
  BY RequestFacts DEF Searching
<1>2. Enumerates(c, T)
  BY RequestFacts DEF Searching
<1>3. /\ q \in Seq(Available) /\ Len(q) = z /\ n < z
      /\ \A i \in 1 .. Len(q) : i <= n => q[i] = selected[i]
  BY DEF Searching, Consistent
<1>4. /\ frames \in Seq(Frame) /\ Len(q) = n + Len(frames)
      /\ \A j \in 1 .. Len(frames) :
            /\ q[n + j] = c[frames[j].i]
            /\ \A k \in 1 .. Len(frames) : j < k => frames[j].i < frames[k].i
  BY DEF Stacked
<1>5. n \in Nat /\ Len(frames) \in Nat /\ z = n + Len(frames)
  BY <1>1, <1>3, <1>4
<1>6. \A j \in 1 .. Len(frames) : frames[j].i \in 1 .. Len(c)
  <2>1. \A j \in 1 .. Len(frames) : frames[j] \in Frame
    BY <1>4
  <2> QED BY <2>1 DEF Frame
<1>7. (\A i \in 1 .. Len(c) : c[i] \in T) /\ \A i, j \in 1 .. Len(c) : i < j => c[i] < c[j]
  BY <1>2 DEF Enumerates
<1>8. \A i \in n + 1 .. z : i - n \in 1 .. Len(frames) /\ n + (i - n) = i
  BY <1>5
<1> HIDE DEF n, z, q, c
<1>9. \A i \in 1 .. n : q[i] = selected[i]
  BY <1>1, <1>3, <1>5
<1>10. \A i \in n + 1 .. z : q[i] = c[frames[i - n].i]
  BY <1>4, <1>8
<1>11. \A i \in n + 1 .. z : q[i] \notin ToSet(selected)
  BY <1>6, <1>7, <1>8, <1>10
<1>12. \A i, j \in n + 1 .. z : i < j => q[i] < q[j]
  <2>1. SUFFICES ASSUME NEW i \in n + 1 .. z, NEW j \in n + 1 .. z, i < j PROVE q[i] < q[j]
    OBVIOUS
  <2>2. i - n < j - n
    BY <1>5, <2>1
  <2>3. frames[i - n].i < frames[j - n].i
    BY <1>4, <1>8, <2>2
  <2> QED BY <1>6, <1>7, <1>8, <1>10, <2>3
<1> QED
  BY <1>3, <1>9, <1>11, <1>12 DEF Complete, n, z, q

\* A complete list, or none if the request makes no sense, may be answered.
LEMMA Answered ==
    ASSUME Asked, UNCHANGED <<devices, request>>, Rejected => answer' = <<>>, ~Rejected => Complete(answer')
    PROVE  AnswerValid'
<1>1. Available' = Available /\ selected' = selected /\ (Rejected' <=> Rejected)
  BY Fixed
<1>2. Answers' = Answers
  BY <1>1 DEF Answers
<1>3. CASE Rejected
  BY <1>1, <1>3 DEF AnswerValid
<1>4. CASE ~Rejected
  <2>1. ToSet(answer') \in Answers /\ answer' = selected \o Sorted(ToSet(answer') \ ToSet(selected))
    BY <1>4, CompleteAnswers
  <2> QED BY <1>1, <1>2, <1>4, <2>1 DEF AnswerValid
<1> QED
  BY <1>3, <1>4

LEMMA NoChoiceAnswer ==
    ASSUME SearchInv, AnswerInv, NoChoice
    PROVE  AnswerInv'
<1> DEFINE n == Len(selected)
           z == request.size
           T == Available \ ToSet(selected)
           q == Sorted(T)
<1>1. UNCHANGED <<devices, request>> /\ pc' = "done" /\ Asked /\ ~Rejected
  BY DEF NoChoice, Respond, SearchInv
<1>2. \/ n = z /\ answer' = selected
      \/ z = Cardinality(Available) /\ answer' = selected \o q
  BY DEF NoChoice, Respond
<1>3. selected \in Seq(Available) /\ n \in Nat /\ z \in Nat /\ n <= z
  BY <1>1, RequestFacts
<1>4. Complete(answer')
  <2>1. CASE n = z /\ answer' = selected
    <3>1. n + 1 .. z = {}
      BY <1>3, <2>1
    <3> QED BY <1>3, <2>1, <3>1 DEF Complete
  <2>2. CASE z = Cardinality(Available) /\ answer' = selected \o q
    <3>1. q \in Seq(T) /\ \A i, j \in 1 .. Len(q) : i < j => q[i] < q[j]
      BY <1>1, RequestFacts DEF Enumerates
    <3>2. Len(q) = z - n
      BY <1>1, <2>2, CandidatesLength
    <3>3. \A i \in n + 1 .. z : i - n \in 1 .. z - n
      BY <1>3
    <3> HIDE DEF q
    <3>4. (\A i \in 1 .. z - n : q[i] \in Available /\ q[i] \notin ToSet(selected)) /\ q \in Seq(Available)
      <4>1. \A i \in 1 .. z - n : q[i] \in T
        BY <3>1, <3>2
      <4>2. T \subseteq Available
        OBVIOUS
      <4> QED BY <3>1, <4>1, <4>2
    <3> DEFINE w == selected \o q
               m == selected
    <3>5. /\ w \in Seq(Available) /\ Len(w) = z
          /\ \A i \in 1 .. n : w[i] = m[i]
          /\ \A i \in n + 1 .. z : w[i] = q[i - n]
      <4>1. m \in Seq(Available) /\ Len(m) = n
        BY <1>3
      <4> HIDE DEF m
      <4>2. w = m \o q
        BY DEF m
      <4>3. n + (z - n) = z
        BY <1>3
      <4>4. w \in Seq(Available) /\ Len(w) = n + (z - n)
            /\ (\A i \in 1 .. n : w[i] = m[i])
            /\ \A i \in n + 1 .. n + (z - n) : w[i] = q[i - n]
        <5> HIDE DEF w, n, z
        <5>1. /\ m \o q \in Seq(Available) /\ Len(m \o q) = Len(m) + Len(q)
              /\ \A i \in 1 .. Len(m) : (m \o q)[i] = m[i]
              /\ \A i \in Len(m) + 1 .. Len(m) + Len(q) : (m \o q)[i] = q[i - Len(m)]
          BY <3>4, <4>1, Concatenated
        <5> QED BY Zenon, <3>2, <4>1, <4>2, <5>1
      <4> QED BY <4>3, <4>4 DEF m
    <3> HIDE DEF w
    <3>6. \A i \in n + 1 .. z : w[i] \notin ToSet(selected)
      BY <3>3, <3>4, <3>5
    <3>7. \A i, j \in n + 1 .. z : i < j => w[i] < w[j]
      <4>1. SUFFICES ASSUME NEW i \in n + 1 .. z, NEW j \in n + 1 .. z, i < j PROVE w[i] < w[j]
        OBVIOUS
      <4>2. i - n < j - n
        BY <1>3, <4>1
      <4> QED BY <3>1, <3>2, <3>3, <3>5, <4>2
    <3>8. answer' = w
      BY <2>2 DEF w
    <3> QED BY <3>5, <3>6, <3>7, <3>8 DEF Complete
  <2> QED BY <1>2, <2>1, <2>2
<1>5. AnswerValid'
  BY <1>1, <1>4, Answered
<1> QED
  BY <1>1, <1>5 DEF AnswerInv

LEMMA BeforeSearchAnswer ==
    ASSUME SearchInv, AnswerInv, SelectDevices \/ AddMandatory \/ CallSearch
    PROVE  AnswerInv'
<1>1. UNCHANGED <<devices, request>> /\ pc' # "done" /\ Asked
  BY DEF SelectDevices, AddMandatory, CallSearch, SearchInv
<1>2. Available' = Available
  BY <1>1, Fixed
<1>3. request'.size < Cardinality(Available')
  BY <1>1, <1>2 DEF SelectDevices, AddMandatory, CallSearch, AnswerInv
<1>4. s'.best = <<>>
  <2>1. CASE SelectDevices
    <3>1. a' = Allocator(devices, Available) /\ s' = NewSearch(a') /\ ~Rejected
      BY <2>1 DEF SelectDevices, newTopologyAllocator, Allocator
    <3> QED BY <1>1, <3>1, NewSearchConsistent
  <2>2. CASE AddMandatory
    <3>1. s' = add(a, s, selected[Len(s.chosen) + 1]) /\ s.best = <<>> /\ Fields(s)
      BY <2>2 DEF AddMandatory, AnswerInv, SearchInv, Searching, Consistent
    <3> QED BY <3>1, AddFields
  <2>3. CASE CallSearch
    BY <2>3 DEF CallSearch, AnswerInv
  <2> QED BY <2>1, <2>2, <2>3
<1>5. pc' \in {"enter", "loop"} => FirstDescent'
  <2>1. SUFFICES ASSUME CallSearch PROVE FirstDescent'
    BY DEF SelectDevices, AddMandatory
  <2>2. next' = 1 /\ frames' = <<>>
    BY <2>1 DEF CallSearch, SearchInv
  <2> QED BY <2>2 DEF FirstDescent
<1>6. AnswerValid'
  BY <1>1 DEF AnswerValid
<1> QED
  BY <1>3, <1>4, <1>5, <1>6 DEF AnswerInv

LEMMA ReturnAnswer ==
    ASSUME SearchInv, AnswerInv, pc \in {"enter", "loop"}, NEW t, Fields(t), Complete(t.best), Return(t)
    PROVE  AnswerInv'
<1>1. UNCHANGED <<devices, request>> /\ Asked /\ Searching /\ request.size < Cardinality(Available)
  BY DEF Return, Respond, SearchInv, AnswerInv
<1>2. ~Rejected /\ Len(t.best) = request.size
  BY <1>1 DEF Complete, Searching
<1>3. CASE frames = <<>>
  <2>1. pc' = "done" /\ answer' = t.best
    BY <1>2, <1>3 DEF Return, Respond
  <2>2. AnswerValid'
    BY <1>1, <1>2, <2>1, Answered
  <2> QED BY <2>1, <2>2 DEF AnswerInv
<1>4. CASE frames # <<>>
  <2>1. pc' = "loop" /\ s' = undo(t, Last(frames).previous)
    BY <1>4 DEF Return
  <2>2. s'.best = t.best
    BY <2>1, UndoFields
  <2>3. Available' = Available /\ selected' = selected
    BY <1>1, Fixed
  <2>4. Complete(s.best)'
    BY <1>1, <2>2, <2>3 DEF Complete
  <2>5. request'.size < Cardinality(Available')
    BY <1>1, <2>3
  <2>6. s'.best # <<>>
    <3>1. selected \in Seq(Available) /\ request.size \in Nat
      BY <1>1, <1>2, RequestFacts
    <3>2. Len(selected) \in Nat
      BY <3>1
    <3>3. Len(selected) < request.size
      BY <1>1 DEF Searching
    <3>4. Len(t.best) # 0
      BY <1>2, <3>1, <3>2, <3>3
    <3> QED BY <2>2, <3>4
  <2>7. AnswerValid'
    BY <2>1 DEF AnswerValid
  <2> QED BY <2>1, <2>4, <2>5, <2>6, <2>7 DEF AnswerInv
<1> QED
  BY <1>3, <1>4

LEMMA LeafAnswer ==
    ASSUME SearchInv, AnswerInv, Leaf
    PROVE  AnswerInv'
<1> DEFINE t == IF s.best = <<>> \/ less(s.score, s.bestScore) THEN WithBest(s, s.chosen, s.score) ELSE s
<1>1. pc = "enter" /\ Return(t) /\ remaining = 0
  BY Zenon DEF Leaf, WithBest
<1>2. Asked /\ Searching /\ Stacked /\ Consistent(devices, Available, s)
  BY <1>1 DEF SearchInv, Searching
<1>3. Complete(s.chosen)
  <2>1. s.chosen \in Seq(Available) /\ request.size \in Nat
    BY <1>2, RequestFacts DEF Searching, Consistent
  <2>2. Len(s.chosen) \in Nat
    BY <2>1
  <2>3. Len(s.chosen) = request.size
    BY <1>1, <2>1, <2>2 DEF remaining
  <2> QED BY <1>2, <2>3, ChosenComplete
<1>4. Fields(t) /\ Complete(t.best)
  <2>1. CASE s.best = <<>> \/ less(s.score, s.bestScore)
    <3>1. t = WithBest(s, s.chosen, s.score)
      BY <2>1
    <3> HIDE DEF t
    <3>2. Consistent(devices, Available, t) /\ t.best = s.chosen
      BY <1>2, <3>1, WithBestConsistent
    <3> QED BY <1>3, <3>2 DEF Consistent
  <2>2. CASE ~(s.best = <<>> \/ less(s.score, s.bestScore))
    <3>1. t = s /\ s.best # <<>>
      BY <2>2
    <3>2. Complete(s.best)
      BY <1>1, <3>1 DEF AnswerInv
    <3> HIDE DEF t
    <3> QED BY <1>2, <3>1, <3>2 DEF Consistent
  <2> QED BY <2>1, <2>2
<1> HIDE DEF t
<1> QED
  BY <1>1, <1>4, ReturnAnswer

LEMMA Enough ==
    ASSUME NEW n \in Nat, NEW h \in Nat, NEW z \in Nat, NEW k \in Nat, z < k
    PROVE  /\ ~(k - n - (h + 1) + 1 < z - (n + h))
           /\ ~(h + 1 > k - n - (z - (n + h)) + 1)
OBVIOUS

\* The first descent always leaves enough candidates: a call that returns
\* without a leaf below it returns to a search that has a best set.
LEMMA NoDeadEnd ==
    ASSUME SearchInv, AnswerInv, Cut \/ Exhausted
    PROVE  s.best # <<>>
<1>1. SUFFICES ASSUME s.best = <<>> PROVE FALSE
  OBVIOUS
<1> DEFINE c == Len(s.candidates)
           h == Len(frames)
           n == Len(selected)
           z == request.size
<1>2. /\ pc \in {"enter", "loop"} /\ Asked /\ Searching /\ Stacked /\ FirstDescent
      /\ z < Cardinality(Available)
  BY <1>1 DEF Cut, Exhausted, SearchInv, AnswerInv
<1>3. ~Rejected /\ s.candidates = Sorted(Available \ ToSet(selected)) /\ Len(s.chosen) = n + h /\ next = h + 1
  BY <1>2 DEF Searching, Stacked, FirstDescent
<1>4. c = Cardinality(Available) - n /\ Cardinality(Available) \in Nat
  BY <1>2, <1>3, CandidatesLength
<1>5. selected \in Seq(Available) /\ z \in Nat /\ frames \in Seq(Frame)
  BY <1>2, <1>3, RequestFacts DEF Stacked
<1>6. n \in Nat /\ h \in Nat
  BY <1>5
<1>7. remaining = z - (n + h)
  BY <1>3 DEF remaining
<1>8. z < Cardinality(Available)
  BY <1>2
<1> HIDE DEF c, h, n, z
<1>9. ~(c - next + 1 < remaining) /\ ~(next > c - remaining + 1)
  BY <1>3, <1>4, <1>5, <1>6, <1>7, <1>8, Enough
<1> QED
  BY <1>1, <1>9 DEF Cut, Exhausted, Pruned, c

LEMMA PlainReturnAnswer ==
    ASSUME SearchInv, AnswerInv, Cut \/ Exhausted
    PROVE  AnswerInv'
<1>1. pc \in {"enter", "loop"} /\ Return(s)
  BY DEF Cut, Exhausted
<1>2. Complete(s.best)
  BY <1>1, NoDeadEnd DEF AnswerInv
<1>3. Fields(s)
  BY <1>1 DEF SearchInv, Searching, Consistent
<1> QED
  BY <1>1, <1>2, <1>3, ReturnAnswer

LEMMA DescendAnswer ==
    ASSUME SearchInv, AnswerInv, Open \/ Choose
    PROVE  AnswerInv'
<1>1. /\ UNCHANGED <<devices, request>> /\ pc \in {"enter", "loop"} /\ pc' \in {"enter", "loop"}
      /\ Asked /\ Searching /\ Stacked /\ request.size < Cardinality(Available)
  BY DEF Open, Choose, SearchInv, AnswerInv
<1>2. Available' = Available /\ selected' = selected
  BY <1>1, Fixed
<1>3. s'.best = s.best
  <2>1. CASE Open
    BY <2>1 DEF Open
  <2>2. CASE Choose
    <3>1. Fields(s) /\ s' = add(a, s, s.candidates[next])
      BY <1>1, <2>2 DEF Choose, Searching, Consistent
    <3> QED BY <3>1, AddFields
  <2> QED BY <2>1, <2>2
<1>4. FirstDescent => FirstDescent'
  <2>1. CASE Open
    BY <2>1 DEF Open, FirstDescent
  <2>2. CASE Choose
    <3> DEFINE h == Len(frames)
               f == [i |-> next, previous |-> s.score]
    <3>1. frames \in Seq(Frame) /\ frames' = Append(frames, f) /\ next' = next + 1
      BY <1>1, <2>2 DEF Choose, Stacked
    <3>2. f.i = next
      OBVIOUS
    <3> HIDE DEF f
    <3>3. /\ Len(frames') = h + 1 /\ h \in Nat /\ frames'[h + 1] = f
          /\ \A j \in 1 .. h : frames'[j] = frames[j]
      BY <3>1
    <3>4. \A j \in 1 .. h + 1 : j \in 1 .. h \/ j = h + 1
      BY <3>3
    <3> QED BY <3>1, <3>2, <3>3, <3>4 DEF FirstDescent
  <2> QED BY <2>1, <2>2
<1>5. Complete(s.best) => Complete(s.best)'
  BY <1>1, <1>2, <1>3 DEF Complete
<1>6. AnswerValid' /\ request'.size < Cardinality(Available')
  BY <1>1, <1>2 DEF AnswerValid
<1>7. IF s'.best = <<>> THEN FirstDescent' ELSE Complete(s.best)'
  BY <1>1, <1>3, <1>4, <1>5 DEF AnswerInv
<1>8. pc' # "must"
  BY <1>1
<1> QED
  BY <1>6, <1>7, <1>8 DEF AnswerInv

\* AnswerInv holds in every reachable state.
THEOREM AnswerInvariance == Spec => []AnswerInv
<1>1. Init => AnswerInv
  BY DEF Init, AnswerInv, AnswerValid
<1>2. SearchInv /\ AnswerInv /\ [Next]_vars => AnswerInv'
  <2>1. SUFFICES ASSUME SearchInv, AnswerInv, [Next]_vars PROVE AnswerInv'
    OBVIOUS
  <2>2. CASE Fallback
    <3>1. UNCHANGED <<devices, request>> /\ pc' = "done" /\ answer' = <<>> /\ Rejected /\ Asked
      BY <2>1, <2>2 DEF Fallback, Respond, SearchInv
    <3>2. AnswerValid'
      BY <3>1, Answered
    <3> QED BY <3>1, <3>2 DEF AnswerInv
  <2>3. CASE NoChoice
    BY <2>1, <2>3, NoChoiceAnswer
  <2>4. CASE SelectDevices \/ AddMandatory \/ CallSearch
    BY <2>1, <2>4, BeforeSearchAnswer
  <2>5. CASE Leaf
    BY <2>1, <2>5, LeafAnswer
  <2>6. CASE Cut \/ Exhausted
    BY <2>1, <2>6, PlainReturnAnswer
  <2>7. CASE Open \/ Choose
    BY <2>1, <2>7, DescendAnswer
  <2>8. CASE Finished \/ UNCHANGED vars
    <3>1. /\ UNCHANGED <<devices, request, a, s>> /\ pc' = pc /\ frames' = frames
          /\ next' = next /\ answer' = answer
      BY <2>8 DEF vars, Finished
    <3>2. Available' = Available /\ selected' = selected /\ (Rejected' <=> Rejected)
      BY <3>1, Fixed
    <3>3. Complete(s.best)' <=> Complete(s.best)
      BY <3>1, <3>2 DEF Complete
    <3>4. AnswerValid'
      BY <2>1, <3>1, <3>2 DEF AnswerInv, AnswerValid, Answers
    <3>5. FirstDescent' <=> FirstDescent
      BY <3>1 DEF FirstDescent
    <3> QED BY <2>1, <3>1, <3>2, <3>3, <3>4, <3>5 DEF AnswerInv
  <2> QED
    BY <2>1, <2>2, <2>3, <2>4, <2>5, <2>6, <2>7, <2>8 DEF Next
<1> QED
  BY <1>1, <1>2, SearchInvariance, PTL DEF Spec

\* Whatever the bounds skip, SelectDevices never comes back without a set: a
\* request that makes sense is answered with as many devices as it asks for, the
\* mandatory ones first, and the length check after the search never fails.
THEOREM RequestsAreAnswered == Spec => []AnswerValid
<1>1. AnswerInv => AnswerValid
  BY DEF AnswerInv
<1> QED
  BY <1>1, AnswerInvariance, PTL

-----------------------------------------------------------------------------
(* The order of scores, and the search as an instance of BranchAndBound *)

\* less on lists of n integers.
Lex(n, v, w) == \E i \in 1 .. n : v[i] < w[i] /\ \A j \in 1 .. i - 1 : v[j] = w[j]

LEMMA LexIsOrder ==
    ASSUME NEW n \in Nat, NEW u, NEW v, NEW w,
           \A i \in 1 .. n : u[i] \in Int /\ v[i] \in Int /\ w[i] \in Int
    PROVE  /\ ~(Lex(n, v, w) /\ Lex(n, w, v))
           /\ Lex(n, v, w) => Lex(n, v, u) \/ Lex(n, u, w)
<1>1. ASSUME Lex(n, v, w), Lex(n, w, v) PROVE FALSE
  <2>1. PICK i \in 1 .. n : v[i] < w[i] /\ \A j \in 1 .. i - 1 : v[j] = w[j]
    BY <1>1 DEF Lex
  <2>2. PICK k \in 1 .. n : w[k] < v[k] /\ \A j \in 1 .. k - 1 : w[j] = v[j]
    BY <1>1 DEF Lex
  <2>3. CASE i < k
    <3>1. i \in 1 .. k - 1
      BY <2>3
    <3> QED BY <2>1, <2>2, <3>1
  <2>4. CASE k < i
    <3>1. k \in 1 .. i - 1
      BY <2>4
    <3> QED BY <2>1, <2>2, <3>1
  <2>5. CASE i = k
    BY <2>1, <2>2, <2>5
  <2> QED BY <2>3, <2>4, <2>5
<1>2. ASSUME Lex(n, v, w) PROVE Lex(n, v, u) \/ Lex(n, u, w)
  <2>1. PICK i \in 1 .. n : v[i] < w[i] /\ \A j \in 1 .. i - 1 : v[j] = w[j]
    BY <1>2 DEF Lex
  <2> DEFINE B == {j \in 1 .. i - 1 : u[j] # v[j]}
  <2>2. CASE B = {}
    <3>1. \A j \in 1 .. i - 1 : v[j] = u[j] /\ u[j] = w[j]
      BY <2>1, <2>2
    <3>2. v[i] < u[i] \/ u[i] < w[i]
      BY <2>1
    <3> QED BY <3>1, <3>2 DEF Lex
  <2>3. CASE B # {}
    <3>1. B \subseteq Nat
      OBVIOUS
    <3>2. PICK k \in B : \A m \in B : k <= m
      <4> HIDE DEF B
      <4>1. B \subseteq Nat /\ B # {}
        BY <2>3, <3>1
      <4> QED BY ONLY <4>1, LeastNumber
    <3>3. k \in 1 .. n /\ k \in 1 .. i - 1 /\ v[k] = w[k] /\ u[k] # v[k]
      BY <2>1
    <3>4. \A j \in 1 .. k - 1 : j \in 1 .. i - 1 /\ j \notin B
      BY <3>2, <3>3
    <3>5. \A j \in 1 .. k - 1 : v[j] = u[j] /\ u[j] = w[j]
      BY <2>1, <3>4
    <3>6. v[k] < u[k] \/ u[k] < w[k]
      BY <3>3
    <3> QED BY <3>3, <3>5, <3>6 DEF Lex
  <2> QED BY <2>2, <2>3
<1> QED
  BY <1>1, <1>2

LEMMA ScoreValues ==
    ASSUME NEW r \in allocationScore
    PROVE  \A i \in 1 .. 7 : values(r)[i] \in Int
<1>1. /\ r.unknownNUMA \in Int /\ r.numaNodes \in Int /\ r.sidGroups \in Int /\ r.unknownPCI \in Int
      /\ r.separateRoots \in Int /\ r.maxDistance \in Int /\ r.totalDistance \in Int
  BY DEF allocationScore
<1>2. \A i \in 1 .. 7 : i = 1 \/ i = 2 \/ i = 3 \/ i = 4 \/ i = 5 \/ i = 6 \/ i = 7
  OBVIOUS
<1> QED
  BY <1>1, <1>2 DEF values

\* allocationScore.less is a strict order whose ties are transitive.
LEMMA LessIsOrder ==
    ASSUME NEW x \in allocationScore, NEW y \in allocationScore, NEW z \in allocationScore
    PROVE  /\ ~(less(x, y) /\ less(y, x))
           /\ less(x, y) => less(x, z) \/ less(z, y)
<1>1. \A r \in allocationScore : \A i \in 1 .. 7 : values(r)[i] \in Int
  BY ScoreValues
<1>2. \A r, q : less(r, q) <=> Lex(7, values(r), values(q))
  BY DEF less, LessUpTo, Lex
<1> QED
  BY <1>1, <1>2, LexIsOrder

\* Scores are natural numbers.
LEMMA ScoreType ==
    ASSUME NEW t \in Seq(Device), NEW S \in SUBSET DOMAIN t
    PROVE  Score(t, S) \in allocationScore
<1>1. IsFiniteSet(S)
  BY TableFacts
<1>2. Cardinality({d \in S : t[d].numa < 0}) \in Nat /\ Cardinality(S \ Known(t, S)) \in Nat
  BY <1>1, FS_Subset, FS_Difference, FS_CardinalityType
<1>3. Cardinality({t[d].numa : d \in S} \ {-1}) \in Nat
  <2> DEFINE f == [d \in S |-> t[d].numa]
  <2>1. f = [d \in S |-> f[d]] /\ {f[d] : d \in S} = {t[d].numa : d \in S}
    OBVIOUS
  <2>2. IsFiniteSet({f[d] : d \in S})
    <3> HIDE DEF f
    <3> QED BY <1>1, <2>1, ImageFinite
  <2> HIDE DEF f
  <2> QED BY <2>1, <2>2, FS_Difference, FS_CardinalityType
<1>4. Cardinality({sidKey(t, d) : d \in S}) \in Nat
  <2> DEFINE f == [d \in S |-> sidKey(t, d)]
  <2>1. f = [d \in S |-> f[d]] /\ {f[d] : d \in S} = {sidKey(t, d) : d \in S}
    OBVIOUS
  <2>2. IsFiniteSet({f[d] : d \in S})
    <3> HIDE DEF f
    <3> QED BY <1>1, <2>1, ImageFinite
  <2> HIDE DEF f
  <2> QED BY <2>1, <2>2, FS_CardinalityType
<1> DEFINE L == Linked(t, S)
           f == [p \in L |-> HopsOf(t, p)]
           H == {0} \cup {HopsOf(t, p) : p \in L}
<1>5. IsFiniteSet(L) /\ (\A p \in L : f[p] \in Nat) /\ DOMAIN f = L /\ f = [p \in L |-> f[p]]
  BY PairsFinite
<1>6. Cardinality(Pairs(t, S) \ L) \in Nat
  BY PairsFinite, FS_CardinalityType
<1>7. {HopsOf(t, p) : p \in L} = {f[p] : p \in L}
  OBVIOUS
<1> HIDE DEF L, f
<1>8. Sum(f) \in Nat
  BY <1>5, SumIsCount, UnitsFinite DEF Sum
<1>9. Max(H) \in Nat
  <2> DEFINE F == {f[p] : p \in L}
  <2>1. IsFiniteSet(F)
    BY <1>5, ImageFinite
  <2>2. F \subseteq Nat /\ H = F \cup {0}
    BY <1>5, <1>7
  <2> HIDE DEF F, H
  <2>3. IsFiniteSet(H)
    BY <2>1, <2>2, FS_AddElement
  <2>4. H \subseteq Int /\ H # {} /\ H \subseteq Nat
    BY <2>2
  <2> QED BY <2>3, <2>4, MaxExists
<1>10. Score(t, S) =
         [unknownNUMA |-> Cardinality({d \in S : t[d].numa < 0}),
          numaNodes |-> Cardinality({t[d].numa : d \in S} \ {-1}),
          sidGroups |-> Cardinality({sidKey(t, d) : d \in S}),
          unknownPCI |-> Cardinality(S \ Known(t, S)),
          separateRoots |-> Cardinality(Pairs(t, S) \ L),
          maxDistance |-> Max(H),
          totalDistance |-> Sum(f)]
  BY ScoreParts DEF L, f
<1> HIDE DEF H
<1> QED
  BY <1>2, <1>3, <1>4, <1>6, <1>8, <1>9, <1>10 DEF allocationScore

\* Every search that SelectDevices makes is a problem as BranchAndBound assumes
\* them: there are at least as many candidates as are needed, at least one is
\* needed, and less orders the scores of any picks strictly with transitive ties.
THEOREM SearchQualifies ==
    \A p \in Searched :
        LET N == Len(Optional(p.request))
            K == p.request.size - Cardinality(ToSet(p.request.must))
            score(c) == Score(p.devices, WithPick(p.request, c))
        IN  /\ N \in Nat /\ K \in 1 .. N
            /\ \A x, y, z \in Search!Pick(p) :
                /\ ~(less(score(x), score(y)) /\ less(score(y), score(x)))
                /\ less(score(x), score(y)) => less(score(x), score(z)) \/ less(score(z), score(y))
<1>1. SUFFICES ASSUME NEW p \in Searched
               PROVE  LET N == Len(Optional(p.request))
                          K == p.request.size - Cardinality(ToSet(p.request.must))
                          score(c) == Score(p.devices, WithPick(p.request, c))
                      IN  /\ N \in Nat /\ K \in 1 .. N
                          /\ \A x, y, z \in Search!Pick(p) :
                              /\ ~(less(score(x), score(y)) /\ less(score(y), score(x)))
                              /\ less(score(x), score(y)) => less(score(x), score(z)) \/ less(score(z), score(y))
  OBVIOUS
<1> DEFINE r == p.request
           A == ToSet(r.available)
           M == ToSet(r.must)
           N == Len(Optional(r))
           K == r.size - Cardinality(M)
           score(c) == Score(p.devices, WithPick(r, c))
<1>2. /\ p.devices \in Seq(Device) /\ r.size \in Int
      /\ M \in SUBSET A /\ A \in SUBSET DOMAIN p.devices
      /\ Cardinality(M) < r.size /\ r.size < Cardinality(A)
  BY DEF Searched, AnyProblem, Device
<1> HIDE DEF A, M
<1>3. IsFiniteSet(A) /\ A \subseteq Nat \ {0}
  BY <1>2, TableFacts
<1>4. /\ IsFiniteSet(A \ M) /\ Cardinality(A \ M) = Cardinality(A) - Cardinality(M)
      /\ Cardinality(A) \in Nat /\ Cardinality(M) \in Nat
  BY <1>2, <1>3, WithoutCardinality
<1>5. Optional(r) \in Seq(A \ M) /\ N = Cardinality(A) - Cardinality(M)
  <2> DEFINE T == A \ M
  <2>1. IsFiniteSet(T) /\ T \subseteq Nat \ {0} /\ Optional(r) = Sorted(T)
    BY <1>3, <1>4 DEF Optional, A, M
  <2> HIDE DEF T
  <2>2. Optional(r) \in Seq(T) /\ N = Cardinality(T)
    BY <2>1, SortedLength
  <2> QED BY <1>4, <2>2 DEF T
<1>6. N \in Nat /\ K \in 1 .. N
  BY <1>2, <1>4, <1>5
<1>7. \A x \in Search!Pick(p) : score(x) \in allocationScore
  <2>1. SUFFICES ASSUME NEW x \in Search!Pick(p) PROVE score(x) \in allocationScore
    OBVIOUS
  <2>2. x \in [1 .. K -> 1 .. N]
    BY DEF Search!Pick, M
  <2>3. \A i \in DOMAIN x : Optional(r)[x[i]] \in A
    <3>1. DOMAIN x = 1 .. K /\ \A i \in 1 .. K : x[i] \in 1 .. N
      BY <2>2
    <3>2. \A i \in 1 .. N : Optional(r)[i] \in A \ M
      BY <1>5
    <3> QED BY <3>1, <3>2
  <2>4. WithPick(r, x) \in SUBSET DOMAIN p.devices
    BY <1>2, <2>3 DEF WithPick, M
  <2> QED BY <1>2, <2>4, ScoreType
<1> HIDE DEF score, K, N
<1>8. \A x, y, z \in Search!Pick(p) :
        /\ ~(less(score(x), score(y)) /\ less(score(y), score(x)))
        /\ less(score(x), score(y)) => less(score(x), score(z)) \/ less(score(z), score(y))
  BY <1>7, LessIsOrder
<1> QED
  BY <1>6, <1>8 DEF score, K, N, M, r

-----------------------------------------------------------------------------
(***************************************************************************)
(* The search implements BranchAndBound, whatever its bounds are as long   *)
(* as they are admissible.  BestInv is what the mapping needs beyond the   *)
(* invariants above: bestScore is the score of best, and a call begins     *)
(* after the candidate its caller has chosen.                              *)
(***************************************************************************)
BestInv ==
    /\ pc = "request" => s = <<>>
    /\ pc \in {"enter", "loop"} /\ s.best # <<>> => s.bestScore = Score(devices, ToSet(s.best))
    /\ pc = "enter" => next = IF frames = <<>> THEN 1 ELSE frames[Len(frames)].i + 1

LEMMA ReturnBest ==
    ASSUME SearchInv, pc \in {"enter", "loop"}, NEW t, Fields(t), Return(t),
           t.bestScore = Score(devices, ToSet(t.best))
    PROVE  BestInv'
<1>1. CASE frames = <<>>
  BY <1>1 DEF Return, Respond, BestInv
<1>2. CASE frames # <<>>
  <2>1. pc' = "loop" /\ s' = undo(t, Last(frames).previous) /\ devices' = devices
    BY <1>2 DEF Return
  <2>2. s'.best = t.best /\ s'.bestScore = t.bestScore
    BY <2>1, UndoFields
  <2> QED BY <2>1, <2>2 DEF BestInv
<1> QED
  BY <1>1, <1>2

LEMMA LeafBest ==
    ASSUME SearchInv, BestInv, Leaf
    PROVE  BestInv'
<1> DEFINE t == IF s.best = <<>> \/ less(s.score, s.bestScore) THEN WithBest(s, s.chosen, s.score) ELSE s
<1>1. pc = "enter" /\ Return(t)
  BY Zenon DEF Leaf, WithBest
<1>2. Consistent(devices, Available, s)
  BY <1>1 DEF SearchInv, Searching
<1>3. Fields(t) /\ t.bestScore = Score(devices, ToSet(t.best))
  <2>1. CASE s.best = <<>> \/ less(s.score, s.bestScore)
    <3>1. t = WithBest(s, s.chosen, s.score)
      BY <2>1
    <3> HIDE DEF t
    <3>2. Consistent(devices, Available, t) /\ t.best = s.chosen /\ t.bestScore = s.score
      BY <1>2, <3>1, WithBestConsistent
    <3> QED BY <1>2, <3>2 DEF Consistent
  <2>2. CASE ~(s.best = <<>> \/ less(s.score, s.bestScore))
    <3>1. t = s /\ s.best # <<>>
      BY <2>2
    <3> HIDE DEF t
    <3> QED BY <1>1, <1>2, <3>1 DEF Consistent, BestInv
  <2> QED BY <2>1, <2>2
<1> HIDE DEF t
<1> QED
  BY <1>1, <1>3, ReturnBest

LEMMA DescendBest ==
    ASSUME SearchInv, BestInv, Open \/ Choose
    PROVE  BestInv'
<1>1. CASE Open
  BY <1>1 DEF Open, BestInv
<1>2. CASE Choose
  <2> DEFINE f == [i |-> next, previous |-> s.score]
             h == Len(frames)
  <2>1. /\ frames' = Append(frames, f) /\ next' = next + 1 /\ pc = "loop" /\ pc' = "enter"
        /\ s' = add(a, s, s.candidates[next]) /\ devices' = devices
        /\ Searching /\ Stacked
    BY <1>2 DEF Choose, SearchInv
  <2>2. f.i = next
    OBVIOUS
  <2> HIDE DEF f
  <2>3. frames \in Seq(Frame)
    BY <2>1 DEF Stacked
  <2>4. Len(frames') = h + 1 /\ frames'[h + 1] = f /\ h \in Nat
    BY <2>1, <2>3
  <2>5. frames' # <<>>
    BY <2>4
  <2>6. Fields(s)
    BY <2>1 DEF Searching, Consistent
  <2>7. s'.best = s.best /\ s'.bestScore = s.bestScore
    BY <2>1, <2>6, AddFields
  <2> QED BY <2>1, <2>2, <2>4, <2>5, <2>7 DEF BestInv
<1> QED
  BY <1>1, <1>2

\* BestInv holds in every reachable state.
THEOREM BestInvariance == Spec => []BestInv
<1>1. Init => BestInv
  BY DEF Init, BestInv
<1>2. SearchInv /\ AnswerInv /\ BestInv /\ [Next]_vars => BestInv'
  <2>1. SUFFICES ASSUME SearchInv, AnswerInv, BestInv, [Next]_vars PROVE BestInv'
    OBVIOUS
  <2>2. CASE Fallback \/ NoChoice
    BY <2>2 DEF Fallback, NoChoice, Respond, BestInv
  <2>3. CASE SelectDevices \/ AddMandatory
    BY <2>3 DEF SelectDevices, AddMandatory, BestInv
  <2>4. CASE CallSearch
    BY <2>1, <2>4 DEF CallSearch, SearchInv, AnswerInv, BestInv
  <2>5. CASE Leaf
    BY <2>1, <2>5, LeafBest
  <2>6. CASE Cut \/ Exhausted
    <3>1. pc \in {"enter", "loop"} /\ Return(s)
      BY <2>6 DEF Cut, Exhausted
    <3>2. Fields(s)
      BY <2>1, <3>1 DEF SearchInv, Searching, Consistent
    <3>3. s.bestScore = Score(devices, ToSet(s.best))
      BY <2>1, <2>6, <3>1, NoDeadEnd DEF BestInv
    <3> QED BY <2>1, <3>1, <3>2, <3>3, ReturnBest
  <2>7. CASE Open \/ Choose
    BY <2>1, <2>7, DescendBest
  <2>8. CASE Finished \/ UNCHANGED vars
    BY <2>1, <2>8 DEF Finished, vars, BestInv
  <2> QED BY <2>1, <2>2, <2>3, <2>4, <2>5, <2>6, <2>7, <2>8 DEF Next
<1> QED
  BY <1>1, <1>2, SearchInvariance, AnswerInvariance, PTL DEF Spec

\* The loop variables of the open calls, and the best pick, as the mapping has
\* them.
Turns == [j \in DOMAIN frames |-> frames[j].i]
Found == IF Begun THEN Picked(s.best) ELSE <<>>

\* A record of fields is not a list.
LEMMA FieldsBegun ==
    ASSUME NEW t, Fields(t)
    PROVE  t # <<>>
<1>1. "chosen" \in DOMAIN t
  BY DEF Fields
<1>2. "chosen" \notin DOMAIN <<>>
  OBVIOUS
<1> QED
  BY <1>1, <1>2

\* A request that is searched, in the terms of BranchAndBound.
LEMMA ProblemFacts ==
    ASSUME Asked, ~Rejected, Len(selected) < request.size, request.size < Cardinality(Available)
    PROVE  /\ problem \in Searched
           /\ Optional(request) = Sorted(Available \ ToSet(selected))
           /\ ToSet(request.must) = ToSet(selected)
           /\ Search!K = request.size - Len(selected)
           /\ Search!N = Len(Sorted(Available \ ToSet(selected)))
<1>1. request.must \in Seq(Nat) /\ problem.request = request /\ problem.devices = devices
  BY DEF Asked, problem
<1>2. ToSet(selected) = ToSet(request.must) /\ selected \in Seq(ToSet(request.must)) /\ Distinct(selected)
  BY <1>1, NormalizedMust DEF selected, Distinct
<1>3. Cardinality(ToSet(request.must)) = Len(selected)
  BY <1>2, LengthIsCardinality DEF Distinct
<1>4. Optional(request) = Sorted(Available \ ToSet(selected))
  BY <1>2 DEF Optional, Available
<1>5. problem \in AnyProblem
  BY DEF Asked, problem, AnyProblem, Device
<1>6. problem \in Searched
  BY <1>1, <1>3, <1>5 DEF Searched, Rejected, Available
<1> QED
  BY <1>1, <1>2, <1>3, <1>4, <1>6 DEF Search!K, Search!N

LEMMA TurnsFacts ==
    ASSUME NEW A, frames \in Seq(A), \A f \in A : f.i \in Nat
    PROVE  /\ Turns \in Seq(Nat) /\ Len(Turns) = Len(frames) /\ Len(frames) \in Nat
           /\ \A j \in 1 .. Len(frames) : Turns[j] = frames[j].i
           /\ Turns = <<>> <=> frames = <<>>
<1> DEFINE h == Len(frames)
<1>1. h \in Nat /\ DOMAIN frames = 1 .. h /\ \A j \in 1 .. h : frames[j].i \in Nat
  OBVIOUS
<1>2. Turns = [j \in 1 .. h |-> frames[j].i]
  BY <1>1 DEF Turns
<1>3. Turns \in Seq(Nat) /\ Len(Turns) = h /\ \A j \in 1 .. h : Turns[j] = frames[j].i
  BY <1>1, <1>2
<1>4. Turns = <<>> <=> h = 0
  BY <1>1, <1>3
<1>5. frames = <<>> <=> h = 0
  BY <1>1
<1> QED
  BY <1>1, <1>3, <1>4, <1>5

\* An open call, in the terms of BranchAndBound.
LEMMA CallFacts ==
    ASSUME SearchInv, AnswerInv, pc \in {"enter", "loop"}
    PROVE  /\ Begun /\ problem \in Searched
           /\ Asked /\ ~Rejected /\ Searching /\ Stacked
           /\ Optional(request) = s.candidates
           /\ ToSet(request.must) = ToSet(selected)
           /\ Search!K = request.size - Len(selected) /\ Search!N = Len(s.candidates)
           /\ Turns \in Seq(Nat) /\ Len(Turns) = Len(frames)
           /\ \A j \in 1 .. Len(frames) : Turns[j] = frames[j].i
           /\ Turns = <<>> <=> frames = <<>>
           /\ Len(selected) \in Nat /\ Len(frames) \in Nat /\ Len(s.candidates) \in Nat /\ request.size \in Nat
           /\ remaining = request.size - Len(selected) - Len(frames)
           /\ Len(selected) < request.size
<1>1. Asked /\ Searching /\ Stacked /\ request.size < Cardinality(Available)
  BY DEF SearchInv, AnswerInv
<1>2. ~Rejected /\ Len(selected) < request.size /\ s.candidates = Sorted(Available \ ToSet(selected)) /\ Fields(s)
  BY <1>1 DEF Searching, Consistent
<1>3. Begun
  BY <1>2, FieldsBegun DEF Begun
<1>4. /\ problem \in Searched /\ Optional(request) = s.candidates /\ ToSet(request.must) = ToSet(selected)
      /\ Search!K = request.size - Len(selected) /\ Search!N = Len(s.candidates)
  BY <1>1, <1>2, ProblemFacts
<1>5. /\ selected \in Seq(Available) /\ request.size \in Nat
      /\ Enumerates(s.candidates, Available \ ToSet(selected))
  BY <1>1, <1>2, RequestFacts
<1>6. Len(selected) \in Nat /\ Len(s.candidates) \in Nat
  BY <1>5 DEF Enumerates
<1>7. frames \in Seq(Frame) /\ Len(s.chosen) = Len(selected) + Len(frames)
  BY <1>1 DEF Stacked
<1>8. \A f \in Frame : f.i \in Nat
  BY DEF Frame
<1>9. /\ Turns \in Seq(Nat) /\ Len(Turns) = Len(frames) /\ Len(frames) \in Nat
      /\ \A j \in 1 .. Len(frames) : Turns[j] = frames[j].i
      /\ Turns = <<>> <=> frames = <<>>
  BY <1>7, <1>8, TurnsFacts
<1>10. remaining = request.size - Len(selected) - Len(frames)
  <2>1. \A z, n, h \in Nat : z - (n + h) = z - n - h
    OBVIOUS
  <2>2. remaining = request.size - (Len(selected) + Len(frames))
    BY <1>7 DEF remaining
  <2> QED BY ONLY <1>5, <1>6, <1>9, <2>1, <2>2
<1> QED
  BY <1>1, <1>2, <1>3, <1>4, <1>5, <1>6, <1>9, <1>10

\* The place of a candidate is its place.
LEMMA PickedIs ==
    ASSUME Asked, Searching, Optional(request) = s.candidates,
           NEW q \in Seq(Available), NEW g \in Seq(Nat), Len(q) = Len(selected) + Len(g),
           \A j \in 1 .. Len(g) : g[j] \in 1 .. Len(s.candidates) /\ q[Len(selected) + j] = s.candidates[g[j]]
    PROVE  Picked(q) = g
<1> DEFINE c == s.candidates
           n == Len(selected)
           h == Len(g)
           Spot(d) == CHOOSE i \in DOMAIN c : c[i] = d
           T == Available \ ToSet(selected)
<1>1. ~Rejected /\ c = Sorted(T)
  BY DEF Searching
<1>2. Enumerates(c, T) /\ n \in Nat /\ T \subseteq Nat
  <2>1. selected \in Seq(Available) /\ Enumerates(Sorted(T), T) /\ Available \subseteq Nat \ {0}
    BY <1>1, RequestFacts
  <2>2. Enumerates(c, T)
    BY ONLY <1>1, <2>1
  <2>3. n \in Nat
    BY <2>1
  <2> QED BY <2>1, <2>2, <2>3
<1>3. /\ c \in Seq(T) /\ DOMAIN c = 1 .. Len(c) /\ Len(c) \in Nat
      /\ \A i, j \in 1 .. Len(c) : i < j => c[i] < c[j]
  BY <1>2 DEF Enumerates
<1>4. \A i \in 1 .. Len(c) : Spot(c[i]) = i
  <2>1. SUFFICES ASSUME NEW i \in 1 .. Len(c) PROVE Spot(c[i]) = i
    OBVIOUS
  <2>2. \A k \in 1 .. Len(c) : c[k] \in Nat
    BY <1>2, <1>3
  <2> HIDE DEF c
  <2>3. \A k \in 1 .. Len(c) : c[k] = c[i] => k = i
    BY <1>3, <2>2
  <2> QED BY <1>3, <2>3
<1>5. h \in Nat /\ g = [j \in 1 .. h |-> g[j]] /\ Len(q) - n = h
  BY <1>2
<1>6. Picked(q) = [j \in 1 .. Len(q) - n |-> Spot(q[n + j])]
  BY DEF Picked
<1> HIDE DEF Spot, c, h, n
<1>7. \A j \in 1 .. h : Spot(q[n + j]) = g[j]
  BY <1>4 DEF c, h, n
<1> QED
  BY <1>5, <1>6, <1>7

\* A complete list is the mandatory devices and what it picks.
LEMMA WithPicked ==
    ASSUME Asked, Searching, Optional(request) = s.candidates, ToSet(request.must) = ToSet(selected),
           NEW q, Complete(q)
    PROVE  /\ WithPick(request, Picked(q)) = ToSet(q)
           /\ Picked(q) # <<>>
           /\ ToSet(q) \in SUBSET DOMAIN devices
<1> DEFINE c == s.candidates
           n == Len(selected)
           z == request.size
           Spot(d) == CHOOSE i \in DOMAIN c : c[i] = d
           T == Available \ ToSet(selected)
           g == Picked(q)
<1>1. /\ ~Rejected /\ c = Sorted(T) /\ n < z
      /\ selected \in Seq(Available) /\ Enumerates(c, T) /\ z \in Nat /\ Available \in SUBSET DOMAIN devices
  BY RequestFacts DEF Searching
<1>2. /\ q \in Seq(Available) /\ Len(q) = z
      /\ \A i \in 1 .. n : q[i] = selected[i]
      /\ \A i \in n + 1 .. z : q[i] \notin ToSet(selected)
  BY DEF Complete
<1>3. n \in Nat /\ \A j \in 1 .. z - n : n + j \in n + 1 .. z /\ n + j \in 1 .. z
  BY <1>1
<1>4. /\ DOMAIN c = 1 .. Len(c)
      /\ \A x \in T : \E i \in DOMAIN c : c[i] = x
  <2> HIDE DEF c, T
  <2>1. c \in Seq(T) /\ \A x \in T : \E i \in 1 .. Len(c) : c[i] = x
    BY <1>1 DEF Enumerates
  <2> QED BY <2>1
<1>5. \A x \in T : c[Spot(x)] = x
  BY <1>4
<1>6. \A j \in 1 .. z - n : q[n + j] \in T
  BY <1>2, <1>3
<1>7. g = [j \in 1 .. z - n |-> Spot(q[n + j])]
  BY <1>2 DEF Picked
<1> HIDE DEF Spot, g
<1>8. DOMAIN g = 1 .. z - n /\ \A j \in 1 .. z - n : c[g[j]] = q[n + j]
  BY <1>5, <1>6, <1>7
<1>9. WithPick(request, g) = ToSet(selected) \cup {c[g[j]] : j \in 1 .. z - n}
  BY <1>8 DEF WithPick
<1>10. {c[g[j]] : j \in 1 .. z - n} = {q[i] : i \in n + 1 .. z}
  <2>1. {c[g[j]] : j \in 1 .. z - n} = {q[n + j] : j \in 1 .. z - n}
    BY <1>8
  <2>2. \A i \in n + 1 .. z : i - n \in 1 .. z - n /\ i = n + (i - n)
    BY <1>1, <1>3
  <2>3. {q[n + j] : j \in 1 .. z - n} = {q[i] : i \in n + 1 .. z}
    BY <1>3, <2>2
  <2> QED BY <2>1, <2>3
<1>11. ToSet(selected) = {q[i] : i \in 1 .. n}
  <2>1. DOMAIN selected = 1 .. n
    BY <1>1
  <2> QED BY <1>2, <2>1 DEF ToSet
<1>12. ToSet(q) = {q[i] : i \in 1 .. n} \cup {q[i] : i \in n + 1 .. z}
  <2>1. ToSet(q) = {q[i] : i \in 1 .. z}
    BY <1>1, <1>2 DEF ToSet
  <2>2. 1 .. z = (1 .. n) \cup (n + 1 .. z)
    BY <1>1, <1>3
  <2> QED BY <2>1, <2>2
<1>13. g # <<>>
  <2>1. 1 \in DOMAIN g
    BY <1>1, <1>3, <1>8
  <2> QED BY <2>1
<1>14. ToSet(q) \in SUBSET DOMAIN devices
  BY <1>1, <1>2 DEF ToSet
<1> QED
  BY <1>9, <1>10, <1>11, <1>12, <1>13, <1>14 DEF g

\* Places do not change.
LEMMA PickedFixed ==
    ASSUME UNCHANGED <<devices, request>>, NEW q, s'.best = q
    PROVE  Picked(s.best)' = Picked(q)
<1>1. request' = request /\ selected' = selected
  BY Fixed
<1> QED
  BY <1>1 DEF Picked, Optional

\* A return to a caller drops its loop variable and goes on after it.
LEMMA ReturnTurns ==
    ASSUME SearchInv, AnswerInv, pc \in {"enter", "loop"}, NEW t, Fields(t), Return(t), frames # <<>>
    PROVE  /\ pc' = "loop" /\ Fields(s') /\ s'.best = t.best /\ UNCHANGED <<devices, request, answer>>
           /\ Turns' = SubSeq(Turns, 1, Len(Turns) - 1) /\ next' = Turns[Len(Turns)] + 1
           /\ Len(Turns) >= 1
<1> DEFINE h == Len(frames)
<1>1. /\ Turns \in Seq(Nat) /\ Len(Turns) = h /\ h \in Nat
      /\ (\A j \in 1 .. h : Turns[j] = frames[j].i) /\ Stacked
  BY CallFacts
<1>2. /\ pc' = "loop" /\ s' = undo(t, Last(frames).previous) /\ UNCHANGED <<devices, request, answer>>
      /\ next' = Last(frames).i + 1 /\ frames' = Front(frames)
  BY DEF Return
<1>3. Fields(s') /\ s'.best = t.best
  BY <1>2, UndoFields
<1>4. frames \in Seq(Frame) /\ h >= 1
  BY <1>1 DEF Stacked
<1>5. next' = Turns[Len(Turns)] + 1
  BY <1>1, <1>2, <1>4 DEF Last
<1>6. Turns' = SubSeq(Turns, 1, Len(Turns) - 1)
  <2>1. frames' \in Seq(Frame) /\ Len(frames') = h - 1 /\ \A j \in 1 .. h - 1 : frames'[j] = frames[j]
    BY <1>2, <1>4, FrontOf
  <2>2. Turns' = [j \in 1 .. h - 1 |-> frames'[j].i]
    BY <2>1 DEF Turns
  <2>3. Turns' = [j \in 1 .. h - 1 |-> Turns[j]]
    <3>1. \A j \in 1 .. h - 1 : frames'[j].i = Turns[j]
      BY <1>1, <2>1
    <3> QED BY ONLY <2>2, <3>1
  <2> DEFINE w == Turns
  <2>4. w \in Seq(Nat) /\ Len(w) = h
    BY <1>1
  <2> HIDE DEF w
  <2>5. SubSeq(w, 1, h - 1) = [j \in 1 .. h - 1 |-> w[j]]
    BY <1>1, <1>4, <2>4
  <2> QED BY <2>3, <2>4, <2>5 DEF w
<1> QED
  BY <1>1, <1>2, <1>3, <1>4, <1>5, <1>6

\* A return is a return, and best is what the record says.
LEMMA ReturnMaps ==
    ASSUME SearchInv, AnswerInv, pc \in {"enter", "loop"}, NEW t, Fields(t), Return(t)
    PROVE  Search!Return /\ problem' = problem /\ Found' = Picked(t.best)
<1>1. Begun /\ (Turns = <<>> <=> frames = <<>>)
  BY CallFacts
<1>2. UNCHANGED <<devices, request>>
  BY DEF Return, Respond
<1>3. problem' = problem
  BY <1>2 DEF problem
<1>4. CASE frames = <<>>
  <2>1. pc' = "done" /\ s' = t /\ next' = next /\ frames' = frames
    BY <1>4 DEF Return, Respond
  <2>2. Begun'
    BY <2>1, FieldsBegun DEF Begun
  <2>3. Turns' = Turns
    BY <2>1 DEF Turns
  <2>4. Search!Return
    BY <1>1, <1>4, <2>1, <2>2, <2>3 DEF Search!Return, Turns
  <2>5. Found' = Picked(t.best)
    BY <1>2, <2>1, <2>2, PickedFixed DEF Found
  <2> QED BY <1>3, <2>4, <2>5
<1>5. CASE frames # <<>>
  <2>1. /\ pc' = "loop" /\ Fields(s') /\ s'.best = t.best
        /\ Turns' = SubSeq(Turns, 1, Len(Turns) - 1) /\ next' = Turns[Len(Turns)] + 1
    BY <1>5, ReturnTurns
  <2>2. Begun'
    <3>1. s' # <<>>
      BY <2>1, FieldsBegun
    <3> QED BY <2>1, <3>1 DEF Begun
  <2>3. Search!Return
    BY <1>1, <1>5, <2>1, <2>2 DEF Search!Return, Turns
  <2>4. Found' = Picked(t.best)
    BY <1>2, <2>1, <2>2, PickedFixed DEF Found
  <2> QED BY <1>3, <2>3, <2>4
<1> QED
  BY <1>4, <1>5

\* What best is to the mapping.
LEMMA FoundIs ==
    ASSUME SearchInv, AnswerInv, BestInv, pc \in {"enter", "loop"}
    PROVE  /\ Found = Picked(s.best)
           /\ s.best = <<>> <=> Found = <<>>
           /\ s.best # <<>> => /\ s.bestScore = Score(devices, WithPick(request, Found))
                               /\ s.bestScore \in allocationScore
<1>1. /\ Begun /\ Asked /\ Searching /\ Optional(request) = s.candidates /\ ToSet(request.must) = ToSet(selected)
      /\ Len(selected) \in Nat
  BY CallFacts
<1>2. Found = Picked(s.best)
  BY <1>1 DEF Found
<1>3. ASSUME s.best = <<>> PROVE Found = <<>>
  <2> DEFINE g == Picked(s.best)
  <2>1. 1 .. Len(s.best) - Len(selected) = {}
    BY <1>1, <1>3
  <2>2. DOMAIN g = {} /\ g = [j \in {} |-> g[j]]
    BY <2>1 DEF Picked
  <2> HIDE DEF g
  <2>3. g = <<>>
    BY <2>2
  <2> QED BY <1>2, <2>3 DEF g
<1>4. ASSUME s.best # <<>>
      PROVE  /\ Found # <<>> /\ s.bestScore = Score(devices, WithPick(request, Found))
             /\ s.bestScore \in allocationScore
  <2>1. Complete(s.best) /\ s.bestScore = Score(devices, ToSet(s.best))
    BY <1>4 DEF AnswerInv, BestInv
  <2>2. WithPick(request, Found) = ToSet(s.best) /\ Found # <<>> /\ ToSet(s.best) \in SUBSET DOMAIN devices
    BY <1>1, <1>2, <2>1, WithPicked
  <2>3. devices \in Seq(Device)
    BY <1>1 DEF Asked
  <2> QED BY <2>1, <2>2, <2>3, ScoreType
<1> QED
  BY <1>2, <1>3, <1>4

LEMMA LeafMaps ==
    ASSUME SearchInv, AnswerInv, BestInv, Leaf
    PROVE  Search!Leaf
<1> DEFINE better == s.best = <<>> \/ less(s.score, s.bestScore)
           t == IF better THEN WithBest(s, s.chosen, s.score) ELSE s
<1>1. pc = "enter" /\ remaining = 0 /\ Return(t)
  BY Zenon DEF Leaf, WithBest
<1>2. /\ Begun /\ Asked /\ Searching /\ Stacked
      /\ Optional(request) = s.candidates /\ ToSet(request.must) = ToSet(selected)
      /\ Turns \in Seq(Nat) /\ Len(Turns) = Len(frames)
      /\ \A j \in 1 .. Len(frames) : Turns[j] = frames[j].i
      /\ Len(selected) \in Nat /\ Len(frames) \in Nat /\ request.size \in Nat
      /\ remaining = request.size - Len(selected) - Len(frames)
      /\ Search!K = request.size - Len(selected)
  BY <1>1, CallFacts
<1>3. Len(Turns) = Search!K /\ Len(s.chosen) = request.size
  BY <1>1, <1>2 DEF Stacked
<1>4. Consistent(devices, Available, s)
  BY <1>2 DEF Searching
<1>5. Fields(t) /\ t.best = IF better THEN s.chosen ELSE s.best
  <2>1. CASE better
    <3>1. t = WithBest(s, s.chosen, s.score)
      BY <2>1
    <3> HIDE DEF t, better
    <3>2. Consistent(devices, Available, t) /\ t.best = s.chosen
      BY <1>4, <3>1, WithBestConsistent
    <3> QED BY <2>1, <3>2 DEF Consistent
  <2>2. CASE ~better
    BY <1>4, <2>2 DEF Consistent
  <2> QED BY <2>1, <2>2
<1> HIDE DEF t, better
<1>6. Search!Return /\ problem' = problem /\ Found' = Picked(t.best)
  BY <1>1, <1>5, ReturnMaps
<1>7. Picked(s.chosen) = Turns
  <2>1. s.chosen \in Seq(Available)
    BY <1>4 DEF Consistent
  <2>2. frames \in Seq(Frame) /\ Len(s.chosen) = Len(selected) + Len(Turns)
        /\ \A j \in 1 .. Len(frames) : s.chosen[Len(selected) + j] = s.candidates[frames[j].i]
    BY <1>2 DEF Stacked
  <2>3. \A j \in 1 .. Len(Turns) : Turns[j] \in 1 .. Len(s.candidates)
    <3>1. \A j \in 1 .. Len(frames) : frames[j] \in Frame
      BY <2>2
    <3> QED BY <1>2, <3>1 DEF Frame
  <2>4. \A j \in 1 .. Len(Turns) : s.chosen[Len(selected) + j] = s.candidates[Turns[j]]
    BY <1>2, <2>2
  <2> QED BY <1>2, <2>1, <2>2, <2>3, <2>4, PickedIs
<1>8. s.score = Score(devices, WithPick(request, Turns))
  <2>1. Complete(s.chosen)
    BY <1>2, <1>3, ChosenComplete
  <2>2. WithPick(request, Turns) = ToSet(s.chosen)
    BY <1>2, <1>7, <2>1, WithPicked
  <2> QED BY <1>4, <2>2 DEF Consistent
<1>9. better <=> Search!Improves(Turns)
  <2>1. /\ (s.best = <<>> <=> Found = <<>>)
        /\ s.best # <<>> => s.bestScore = Score(devices, WithPick(request, Found))
    BY <1>1, FoundIs
  <2>2. problem.request = request /\ problem.devices = devices
    BY DEF problem
  <2>3. Search!Better(Turns, Found) <=> less(Score(devices, WithPick(request, Turns)), Score(devices, WithPick(request, Found)))
    BY <2>2 DEF Search!Better
  <2>4. Search!Improves(Turns) <=> Found = <<>> \/ Search!Better(Turns, Found)
    BY Zenon DEF Search!Improves, Found
  <2> QED BY <1>8, <2>1, <2>3, <2>4 DEF better
<1>10. Found' = IF Search!Improves(Turns) THEN Turns ELSE Found
  BY <1>1, <1>5, <1>6, <1>7, <1>9, FoundIs
<1> QED
  BY <1>1, <1>2, <1>3, <1>6, <1>10, Zenon DEF Search!Leaf, Turns, Found

\* A pick that goes on from the open calls adds a set of later candidates.
LEMMA CompletionOf ==
    ASSUME SearchInv, AnswerInv, BestInv, pc = "enter", remaining > 0,
           NEW c \in Search!Pick(problem), Search!Completes(c)
    PROVE  \E R \in kSubset(remaining, Rest(next)) : WithPick(request, c) = ToSet(s.chosen) \cup R
<1> DEFINE q == s.candidates
           n == Len(selected)
           h == Len(frames)
           k == request.size - n
           m == Len(q)
           g == [i \in 1 .. k - h |-> q[c[h + i]]]
           R == ToSet(g)
<1>1. /\ Asked /\ ~Rejected /\ Searching /\ Stacked /\ Optional(request) = q
      /\ ToSet(request.must) = ToSet(selected)
      /\ Search!K = k /\ Search!N = m
      /\ Len(Turns) = h /\ (\A j \in 1 .. h : Turns[j] = frames[j].i) /\ (Turns = <<>> <=> frames = <<>>)
      /\ n \in Nat /\ h \in Nat /\ m \in Nat /\ request.size \in Nat
      /\ remaining = k - h /\ n < request.size
  BY CallFacts
<1>2. k \in Nat /\ k - h \in Nat /\ 1 <= k - h
  BY <1>1
<1>3. c \in [1 .. k -> 1 .. m] /\ \A i, j \in 1 .. k : i < j => c[i] + (j - i) <= c[j]
  <2>1. c \in [1 .. Search!K -> 1 .. Search!N] /\ \A i, j \in 1 .. Search!K : i < j => c[i] + (j - i) <= c[j]
    BY Zenon DEF Search!Pick, Search!K, Search!N
  <2> QED BY <1>1, <2>1
<1>4. \A i \in 1 .. h : c[i] = frames[i].i
  <2>1. \A i \in 1 .. Len(Turns) : c[i] = Turns[i]
    BY Zenon DEF Search!Completes, Turns
  <2> QED BY <1>1, <2>1
<1>5. next = IF frames = <<>> THEN 1 ELSE frames[h].i + 1
  BY DEF BestInv
<1>6. Enumerates(q, Available \ ToSet(selected)) /\ Available \subseteq Nat \ {0} /\ selected \in Seq(Available)
  BY <1>1, RequestFacts DEF Searching
<1>7. /\ \A i \in 1 .. m : q[i] \in Available /\ q[i] \in Nat
      /\ \A i, j \in 1 .. m : i < j => q[i] < q[j]
  <2>1. q \in Seq(Available \ ToSet(selected)) /\ \A i, j \in 1 .. m : i < j => q[i] < q[j]
    BY <1>6 DEF Enumerates
  <2>2. \A i \in 1 .. m : q[i] \in Available
    BY <2>1
  <2> QED BY <1>6, <2>1, <2>2
<1>8. h = 0 <=> frames = <<>>
  BY <1>1 DEF Stacked
<1> HIDE DEF q, n, h, k, m
<1>9. \A i \in 1 .. k - h : h + i \in 1 .. k /\ c[h + i] \in 1 .. m /\ c[h + i] >= next
  <2>1. SUFFICES ASSUME NEW i \in 1 .. k - h PROVE h + i \in 1 .. k /\ c[h + i] \in 1 .. m /\ c[h + i] >= next
    OBVIOUS
  <2>2. h + i \in 1 .. k
    BY <1>1, <1>2
  <2>3. c[h + i] \in 1 .. m
    BY <1>3, <2>2
  <2>4. CASE h = 0
    BY <1>1, <1>5, <1>8, <2>2, <2>3, <2>4
  <2>5. CASE h # 0
    <3>1. h \in 1 .. k /\ h \in 1 .. h /\ h < h + i /\ (h + i) - h = i
      BY <1>1, <1>2, <2>5
    <3>2. c[h] + i <= c[h + i] /\ c[h] \in 1 .. m
      BY <1>3, <2>2, <3>1
    <3>3. next = c[h] + 1
      BY <1>4, <1>5, <1>8, <2>5, <3>1
    <3> QED BY <2>2, <2>3, <3>2, <3>3, <1>1
  <2> QED BY <2>4, <2>5
<1>10. g \in Seq(Available) /\ Len(g) = k - h /\ \A i \in 1 .. k - h : g[i] = q[c[h + i]]
  <2>1. \A i \in 1 .. k - h : q[c[h + i]] \in Available
    BY <1>7, <1>9
  <2> QED BY <1>2, <2>1
<1>11. \A i, j \in 1 .. k - h : i # j => g[i] # g[j]
  <2>1. ASSUME NEW i \in 1 .. k - h, NEW j \in 1 .. k - h, i < j PROVE g[i] < g[j] /\ g[i] \in Nat /\ g[j] \in Nat
    <3>1. h + i < h + j /\ (h + j) - (h + i) = j - i
      BY <1>1, <2>1
    <3>2. c[h + i] + (j - i) <= c[h + j]
      BY <1>3, <1>9, <3>1
    <3>3. c[h + i] < c[h + j]
      BY <1>1, <1>9, <2>1, <3>2
    <3> HIDE DEF g
    <3> QED BY <1>7, <1>9, <1>10, <3>3
  <2> HIDE DEF g
  <2>2. SUFFICES ASSUME NEW i \in 1 .. k - h, NEW j \in 1 .. k - h, i # j PROVE g[i] # g[j]
    OBVIOUS
  <2>3. i < j \/ j < i
    BY <1>2, <2>2
  <2> QED BY <2>1, <2>3
<1> HIDE DEF g
<1>12. Cardinality(R) = k - h
  BY <1>10, <1>11, LengthIsCardinality
<1>13. R = {q[c[i]] : i \in h + 1 .. k}
  <2>1. DOMAIN g = 1 .. k - h
    BY <1>2, <1>10
  <2>2. R = {q[c[h + i]] : i \in 1 .. k - h}
    BY <1>10, <2>1 DEF ToSet
  <2>3. \A i \in h + 1 .. k : i - h \in 1 .. k - h /\ h + (i - h) = i
    BY <1>1, <1>2
  <2>4. \A i \in 1 .. k - h : h + i \in h + 1 .. k
    BY <1>1, <1>2
  <2> HIDE DEF R
  <2>5. {q[c[h + i]] : i \in 1 .. k - h} = {q[c[i]] : i \in h + 1 .. k}
    BY <2>3, <2>4
  <2> QED BY <2>2, <2>5
<1> HIDE DEF R
<1>14. R \subseteq Rest(next)
  <2>1. next \in Nat
    BY DEF SearchInv
  <2>2. \A i \in h + 1 .. k : c[i] \in next .. m
    <3>1. SUFFICES ASSUME NEW i \in h + 1 .. k PROVE c[i] \in next .. m
      OBVIOUS
    <3>2. i - h \in 1 .. k - h /\ h + (i - h) = i
      BY <1>1, <1>2
    <3>3. c[i] \in 1 .. m /\ c[i] >= next
      BY <1>9, <3>2
    <3> QED BY <1>1, <2>1, <3>3
  <2> QED BY <1>13, <2>2 DEF Rest, q, m
<1>15. ToSet(s.chosen) = ToSet(selected) \cup {q[c[i]] : i \in 1 .. h}
  <2>1. /\ s.chosen \in Seq(Available) /\ Len(s.chosen) = n + h
        /\ \A i \in 1 .. Len(s.chosen) : i <= n => s.chosen[i] = selected[i]
        /\ \A j \in 1 .. h : s.chosen[n + j] = q[frames[j].i]
    BY <1>1 DEF Searching, Stacked, Consistent, n, h, q
  <2> DEFINE w == s.chosen
             v == selected
  <2>2. v \in Seq(Available) /\ Len(v) = n
    BY <1>6 DEF n
  <2>3. DOMAIN w = 1 .. n + h /\ DOMAIN v = 1 .. n
    BY <1>1, <2>1, <2>2
  <2>4. \A i \in 1 .. n : w[i] = v[i] /\ i \in 1 .. n + h
    BY <1>1, <2>1
  <2>5. \A j \in 1 .. h : w[n + j] = q[c[j]] /\ n + j \in 1 .. n + h
    BY <1>1, <1>4, <2>1
  <2>6. \A i \in 1 .. n + h : i \in 1 .. n \/ (i - n \in 1 .. h /\ n + (i - n) = i)
    BY <1>1
  <2> HIDE DEF w, v
  <2>7. ToSet(w) \subseteq ToSet(v) \cup {q[c[i]] : i \in 1 .. h}
    <3>1. SUFFICES ASSUME NEW i \in 1 .. n + h PROVE w[i] \in ToSet(v) \cup {q[c[j]] : j \in 1 .. h}
      BY <2>3 DEF ToSet
    <3>2. CASE i \in 1 .. n
      BY <2>3, <2>4, <3>2 DEF ToSet
    <3>3. CASE i - n \in 1 .. h /\ n + (i - n) = i
      BY <2>5, <3>3
    <3> QED BY <2>6, <3>2, <3>3
  <2>8. ToSet(v) \subseteq ToSet(w)
    BY <2>3, <2>4 DEF ToSet
  <2>9. {q[c[i]] : i \in 1 .. h} \subseteq ToSet(w)
    BY <2>3, <2>5 DEF ToSet
  <2> QED BY <2>7, <2>8, <2>9 DEF w, v
<1>16. WithPick(request, c) = ToSet(selected) \cup {q[c[i]] : i \in 1 .. k}
  <2>1. DOMAIN c = 1 .. k
    BY <1>3
  <2> QED BY <1>1, <2>1 DEF WithPick
<1>17. {q[c[i]] : i \in 1 .. k} = {q[c[i]] : i \in 1 .. h} \cup {q[c[i]] : i \in h + 1 .. k}
  <2>1. 1 .. k = (1 .. h) \cup (h + 1 .. k)
    BY <1>1, <1>2
  <2> QED BY <2>1
<1>18. WithPick(request, c) = ToSet(s.chosen) \cup R
  BY <1>13, <1>15, <1>16, <1>17
<1>19. R \in kSubset(remaining, Rest(next))
  BY <1>1, <1>12, <1>14 DEF kSubset
<1> QED
  BY <1>18, <1>19

\* The candidates from next on.
LEMMA RestFacts ==
    ASSUME SearchInv, AnswerInv, pc = "enter"
    PROVE  /\ Rest(next) \subseteq Available /\ IsFiniteSet(Rest(next))
           /\ Cardinality(Rest(next)) = Len(s.candidates) - next + 1
<1> DEFINE q == s.candidates
           m == Len(q)
           g == [i \in 1 .. m - next + 1 |-> q[next - 1 + i]]
           T == Available \ ToSet(selected)
<1>1. q = Sorted(T) /\ Enumerates(Sorted(T), T) /\ T \subseteq Nat
  BY CallFacts, RequestFacts DEF Searching
<1>2. Enumerates(q, T)
  BY ONLY <1>1
<1>3. next \in 1 .. m + 1 /\ m \in Nat
  BY CallFacts DEF SearchInv
<1> HIDE DEF q
<1>4. (\A i \in 1 .. m : q[i] \in T) /\ \A i, j \in 1 .. m : i < j => q[i] < q[j]
  BY <1>2 DEF Enumerates
<1> HIDE DEF m, T
<1>5. \A i \in 1 .. m - next + 1 : next - 1 + i \in next .. m /\ next - 1 + i \in 1 .. m
  BY <1>3
<1>6. m - next + 1 \in Nat
  BY <1>3
<1>7. g \in Seq(T) /\ Len(g) = m - next + 1 /\ \A i \in 1 .. m - next + 1 : g[i] = q[next - 1 + i]
  BY <1>4, <1>5, <1>6
<1>8. DOMAIN g = 1 .. m - next + 1
  BY DEF g
<1> HIDE DEF g
<1>9. \A i, j \in 1 .. Len(g) : i # j => g[i] # g[j]
  <2>1. SUFFICES ASSUME NEW i \in 1 .. m - next + 1, NEW j \in 1 .. m - next + 1, i # j PROVE g[i] # g[j]
    BY <1>7
  <2>2. next - 1 + i < next - 1 + j \/ next - 1 + j < next - 1 + i
    BY <1>3, <2>1
  <2>3. g[i] < g[j] \/ g[j] < g[i]
    BY <1>4, <1>5, <1>7, <2>2
  <2>4. g[i] \in Nat /\ g[j] \in Nat
    BY <1>1, <1>4, <1>5, <1>7
  <2> QED BY <2>3, <2>4
<1>10. IsFiniteSet(ToSet(g)) /\ Cardinality(ToSet(g)) = m - next + 1 /\ ToSet(g) \subseteq T
  BY <1>7, <1>9, LengthIsCardinality
<1>11. Rest(next) = {q[i] : i \in next .. m}
  BY DEF Rest, q, m
<1>12. ToSet(g) = Rest(next)
  <2>1. \A i \in next .. m : i - next + 1 \in 1 .. m - next + 1 /\ next - 1 + (i - next + 1) = i
    BY <1>3
  <2>2. \A i \in next .. m : \E j \in 1 .. m - next + 1 : g[j] = q[i]
    BY <1>7, <2>1
  <2>3. Rest(next) \subseteq ToSet(g)
    BY <1>8, <1>11, <2>2 DEF ToSet
  <2>4. ToSet(g) \subseteq Rest(next)
    BY <1>5, <1>7, <1>8, <1>11 DEF ToSet
  <2> QED BY <2>3, <2>4
<1>13. T \subseteq Available
  BY DEF T
<1> QED BY <1>6, <1>10, <1>12, <1>13 DEF m, q

\* A call is only skipped when nothing in it beats best.
LEMMA CutMaps ==
    ASSUME SearchInv, AnswerInv, BestInv, BoundsAdmissible, Cut
    PROVE  Search!Cut
<1>1. pc = "enter" /\ remaining > 0 /\ Pruned /\ Return(s)
  BY DEF Cut
<1>2. s.best # <<>>
  BY NoDeadEnd
<1>3. /\ Begun /\ Asked /\ ~Rejected /\ Searching /\ Stacked
      /\ Search!K = request.size - Len(selected)
      /\ Len(Turns) = Len(frames) /\ Len(frames) \in Nat /\ Len(s.candidates) \in Nat
      /\ remaining = request.size - Len(selected) - Len(frames)
      /\ Len(selected) \in Nat /\ request.size \in Nat
  BY <1>1, CallFacts
<1>4. /\ Found # <<>> /\ Found = Picked(s.best)
      /\ s.bestScore = Score(devices, WithPick(request, Found)) /\ s.bestScore \in allocationScore
  BY <1>1, <1>2, FoundIs
<1>5. ASSUME NEW c \in Search!Pick(problem), Search!Completes(c)
      PROVE  ~Search!Better(c, Found)
  <2>1. PICK R \in kSubset(remaining, Rest(next)) : WithPick(request, c) = ToSet(s.chosen) \cup R
    BY <1>1, <1>5, CompletionOf
  <2> DEFINE score == Score(devices, ToSet(s.chosen) \cup R)
             bound == lowerBound(next, remaining)
  <2>2. R \subseteq Rest(next) /\ Cardinality(R) = remaining
    BY DEF kSubset
  <2>3. bound \in allocationScore /\ ~less(score, bound)
    BY <1>1, <1>2 DEF BoundsAdmissible
  <2>4. Rest(next) \subseteq Available /\ IsFiniteSet(Rest(next))
        /\ Cardinality(Rest(next)) = Len(s.candidates) - next + 1
    BY <1>1, RestFacts
  <2>5. Cardinality(R) <= Cardinality(Rest(next)) /\ Cardinality(Rest(next)) \in Nat
    BY <2>2, <2>4, FS_Subset, FS_CardinalityType
  <2>6. ~less(bound, s.bestScore)
    <3>1. next \in Nat
      BY <1>1 DEF SearchInv
    <3>2. ~(Len(s.candidates) - next + 1 < remaining)
      BY <1>3, <2>2, <2>4, <2>5, <3>1
    <3> QED BY <1>1, <3>2 DEF Pruned
  <2>7. score \in allocationScore
    <3>1. s.chosen \in Seq(Available) /\ devices \in Seq(Device) /\ Available \in SUBSET DOMAIN devices
      BY <1>3, RequestFacts DEF Searching, Consistent
    <3>2. ToSet(s.chosen) \subseteq Available
      BY <3>1 DEF ToSet
    <3>3. ToSet(s.chosen) \cup R \in SUBSET DOMAIN devices
      BY <2>2, <2>4, <3>1, <3>2
    <3> QED BY <3>1, <3>3, ScoreType
  <2> HIDE DEF bound, score
  <2>8. ~less(score, s.bestScore)
    BY <1>4, <2>3, <2>6, <2>7, LessIsOrder
  <2>9. Search!Better(c, Found) <=> less(Score(devices, WithPick(request, c)), Score(devices, WithPick(request, Found)))
    <3>1. problem.request = request /\ problem.devices = devices
      BY DEF problem
    <3> QED BY <3>1 DEF Search!Better
  <2> QED BY <1>4, <2>1, <2>8, <2>9 DEF score
<1>6. Search!Hopeless
  BY <1>4, <1>5, Zenon DEF Search!Hopeless, Found
<1>7. Fields(s)
  BY <1>3 DEF Searching, Consistent
<1>8. Search!Return /\ problem' = problem /\ Found' = Found
  BY <1>1, <1>4, <1>7, ReturnMaps
<1>9. Len(Turns) < Search!K
  BY <1>1, <1>3
<1> QED
  BY <1>1, <1>3, <1>6, <1>8, <1>9, Zenon DEF Search!Cut, Turns, Found

LEMMA OpenMaps ==
    ASSUME SearchInv, AnswerInv, Open
    PROVE  Search!Open
<1>1. pc = "enter" /\ remaining > 0 /\ pc' = "loop" /\ UNCHANGED <<devices, request, a, s, frames, next, answer>>
  BY DEF Open
<1>2. /\ Begun /\ Search!K = request.size - Len(selected)
      /\ Len(Turns) = Len(frames) /\ Len(frames) \in Nat
      /\ remaining = request.size - Len(selected) - Len(frames)
      /\ Len(selected) \in Nat /\ request.size \in Nat
  BY <1>1, CallFacts
<1>3. Len(Turns) < Search!K
  BY <1>1, <1>2
<1>4. Begun' /\ Turns' = Turns /\ problem' = problem
  BY <1>1, <1>2 DEF Begun, Turns, problem
<1>5. Found' = Found
  <2>1. selected' = selected /\ s' = s /\ request' = request
    BY <1>1, Fixed
  <2>2. Picked(s.best)' = Picked(s.best)
    BY <2>1 DEF Picked, Optional
  <2> QED BY <1>2, <1>4, <2>2 DEF Found
<1> QED
  BY <1>1, <1>2, <1>3, <1>4, <1>5, Zenon DEF Search!Open, Turns, Found

\* A turn of the loop adds its loop variable.
LEMMA ChooseTurns ==
    ASSUME SearchInv, AnswerInv, Choose
    PROVE  /\ Turns' = Append(Turns, next) /\ next' = next + 1 /\ next \in Nat
           /\ Fields(s') /\ s'.best = s.best
<1> DEFINE f == [i |-> next, previous |-> s.score]
           h == Len(frames)
<1>1. /\ pc = "loop" /\ s' = add(a, s, s.candidates[next])
      /\ frames' = Append(frames, f) /\ next' = next + 1
  BY DEF Choose
<1>2. f.i = next
  OBVIOUS
<1> HIDE DEF f
<1>3. /\ Searching /\ Stacked /\ Turns \in Seq(Nat) /\ Len(Turns) = h /\ h \in Nat
      /\ \A j \in 1 .. h : Turns[j] = frames[j].i
  BY <1>1, CallFacts
<1>4. Fields(s) /\ frames \in Seq(Frame)
  BY <1>3 DEF Searching, Consistent, Stacked
<1>5. Fields(s') /\ s'.best = s.best
  BY <1>1, <1>4, AddFields
<1>6. /\ Len(frames') = h + 1 /\ DOMAIN frames' = 1 .. h + 1
      /\ frames'[h + 1] = f /\ \A j \in 1 .. h : frames'[j] = frames[j]
  BY <1>1, <1>3, <1>4
<1>7. Turns' = [j \in 1 .. h + 1 |-> frames'[j].i]
  BY <1>6 DEF Turns
<1> DEFINE w == Turns
           v == Append(w, next)
<1>8. w \in Seq(Nat) /\ Len(w) = h /\ next \in Nat
  BY <1>1, <1>3 DEF SearchInv
<1> HIDE DEF w
<1>9. /\ v \in Seq(Nat) /\ Len(v) = h + 1 /\ DOMAIN v = 1 .. h + 1
      /\ v[h + 1] = next /\ \A j \in 1 .. h : v[j] = w[j]
  BY <1>3, <1>8
<1> HIDE DEF v
<1>10. v = [j \in 1 .. h + 1 |-> v[j]]
  BY <1>9
<1>11. \A j \in 1 .. h + 1 : v[j] = frames'[j].i
  <2>1. \A j \in 1 .. h + 1 : j = h + 1 \/ j \in 1 .. h
    BY <1>3
  <2> QED BY <1>2, <1>3, <1>6, <1>9, <2>1 DEF w
<1>12. Turns' = v
  BY <1>7, <1>10, <1>11
<1> QED
  BY <1>1, <1>5, <1>8, <1>12 DEF v, w

LEMMA ChooseMaps ==
    ASSUME SearchInv, AnswerInv, Choose
    PROVE  Search!Choose
<1>1. /\ pc = "loop" /\ next <= Len(s.candidates) - remaining + 1
      /\ pc' = "enter" /\ UNCHANGED <<devices, request>>
  BY DEF Choose
<1>2. Turns' = Append(Turns, next) /\ next' = next + 1 /\ Fields(s') /\ s'.best = s.best
  BY ChooseTurns
<1>3. /\ Begun
      /\ Search!K = request.size - Len(selected) /\ Search!N = Len(s.candidates)
      /\ Len(Turns) = Len(frames) /\ Len(frames) \in Nat
      /\ remaining = request.size - Len(selected) - Len(frames)
      /\ Len(selected) \in Nat /\ request.size \in Nat /\ Len(s.candidates) \in Nat
  BY <1>1, CallFacts
<1>4. next <= Search!LastStart
  <2>1. Search!LastStart = Search!N - (Search!K - Len(Turns)) + 1
    BY Zenon DEF Search!LastStart, Search!N, Search!K, Turns
  <2> QED BY <1>1, <1>3, <2>1
<1>5. Begun'
  <2>1. s' # <<>>
    BY <1>2, FieldsBegun
  <2> QED BY <1>1, <2>1 DEF Begun
<1>6. Found' = Found /\ problem' = problem
  BY <1>1, <1>2, <1>3, <1>5, PickedFixed DEF Found, problem
<1> QED
  BY <1>1, <1>2, <1>3, <1>4, <1>5, <1>6, Zenon DEF Search!Choose, Turns, Found

LEMMA ExhaustedMaps ==
    ASSUME SearchInv, AnswerInv, Exhausted
    PROVE  Search!Exhausted
<1>1. pc = "loop" /\ next > Len(s.candidates) - remaining + 1 /\ Return(s)
  BY DEF Exhausted
<1>2. /\ Begun /\ Searching
      /\ Search!K = request.size - Len(selected) /\ Search!N = Len(s.candidates)
      /\ Len(Turns) = Len(frames) /\ Len(frames) \in Nat
      /\ remaining = request.size - Len(selected) - Len(frames)
      /\ Len(selected) \in Nat /\ request.size \in Nat /\ Len(s.candidates) \in Nat
  BY <1>1, CallFacts
<1>3. next > Search!LastStart
  <2>1. Search!LastStart = Search!N - (Search!K - Len(Turns)) + 1
    BY Zenon DEF Search!LastStart, Search!N, Search!K, Turns
  <2> QED BY <1>1, <1>2, <2>1
<1>4. Fields(s)
  BY <1>2 DEF Searching, Consistent
<1>5. Found = Picked(s.best)
  BY <1>2 DEF Found
<1>6. Search!Return /\ problem' = problem /\ Found' = Found
  BY <1>1, <1>4, <1>5, ReturnMaps
<1> QED
  BY <1>1, <1>2, <1>3, <1>6, Zenon DEF Search!Exhausted, Turns, Found

\* To BranchAndBound nothing happens before search is called.
LEMMA BeforeSearchMaps ==
    ASSUME SearchInv, AnswerInv, BestInv, Fallback \/ NoChoice \/ SelectDevices \/ AddMandatory \/ CallSearch
    PROVE  UNCHANGED Search!vars
<1>1. pc \in {"request", "must"} /\ UNCHANGED <<devices, request, frames>>
  BY DEF Fallback, NoChoice, SelectDevices, AddMandatory, CallSearch, Respond
<1>2. ~Begun
  BY <1>1 DEF BestInv, Begun
<1>3. problem' = problem /\ Turns' = Turns
  BY <1>1 DEF problem, Turns
<1>4. CASE Fallback \/ NoChoice \/ SelectDevices \/ AddMandatory
  <2>1. ~Begun'
    BY <1>4 DEF Fallback, NoChoice, SelectDevices, AddMandatory, BestInv, Begun
  <2> QED BY <1>2, <1>3, <2>1, Zenon DEF Search!vars, Turns
<1>5. CASE CallSearch
  <2>1. pc = "must" /\ pc' = "enter" /\ next' = 1 /\ s' = s /\ s.best = <<>> /\ Searching
    BY <1>5 DEF CallSearch, AnswerInv, SearchInv
  <2>2. Asked /\ ~Rejected /\ Fields(s)
    BY <2>1 DEF SearchInv, Searching, Consistent
  <2>3. Begun'
    BY <2>1, <2>2, FieldsBegun DEF Begun
  <2>4. Found' = <<>>
    <3> DEFINE g == Picked(<<>>)
    <3>1. selected \in Seq(Available)
      BY <2>2, RequestFacts
    <3>2. 1 .. Len(<<>>) - Len(selected) = {}
      BY <3>1
    <3>3. DOMAIN g = {} /\ g = [j \in {} |-> g[j]]
      BY <3>2 DEF Picked
    <3>4. g = <<>>
      <4> HIDE DEF g
      <4> QED BY <3>3
    <3>5. Picked(s.best)' = Picked(<<>>)
      BY <1>1, <2>1, PickedFixed
    <3> QED BY <2>3, <3>4, <3>5 DEF Found
  <2> QED BY <1>2, <1>3, <2>1, <2>3, <2>4, Zenon DEF Search!vars, Turns, Found
<1> QED
  BY <1>4, <1>5

\* As long as the bounds are admissible, every step of the search is one of
\* BranchAndBound or none.
LEMMA RefinesIfAdmissible == Spec /\ []BoundsAdmissible => RefinesBranchAndBound
<1>1. Init => (problem \in Searched => Search!Init)
  <2>1. SUFFICES ASSUME Init, problem \in Searched PROVE Search!Init
    OBVIOUS
  <2>2. ~Begun /\ frames = <<>>
    BY <2>1 DEF Init, Begun
  <2>3. Turns = <<>>
    BY <2>2 DEF Turns
  <2> QED BY <2>1, <2>2, <2>3, Zenon DEF Search!Init, Turns
<1>2. SearchInv /\ AnswerInv /\ BestInv /\ BoundsAdmissible /\ [Next]_vars
        => [Search!Next /\ problem \in Searched]_(Search!vars)
  <2>1. SUFFICES ASSUME SearchInv, AnswerInv, BestInv, BoundsAdmissible, [Next]_vars
                 PROVE  (Search!Next /\ problem \in Searched) \/ UNCHANGED Search!vars
    OBVIOUS
  <2>2. CASE Fallback \/ NoChoice \/ SelectDevices \/ AddMandatory \/ CallSearch
    BY <2>1, <2>2, BeforeSearchMaps
  <2>3. CASE Leaf \/ Cut \/ Open \/ Choose \/ Exhausted
    <3>1. problem \in Searched
      BY <2>1, <2>3, CallFacts DEF Leaf, Cut, Open, Choose, Exhausted
    <3>2. Search!Leaf \/ Search!Cut \/ Search!Open \/ Search!Choose \/ Search!Exhausted
      BY <2>1, <2>3, LeafMaps, CutMaps, OpenMaps, ChooseMaps, ExhaustedMaps
    <3> QED BY <3>1, <3>2 DEF Search!Next
  <2>4. CASE Finished \/ UNCHANGED vars
    <3>1. UNCHANGED <<devices, request, pc, s, frames, next>>
      BY <2>4 DEF Finished, vars
    <3>2. (Begun' <=> Begun) /\ problem' = problem /\ Turns' = Turns
      BY <3>1 DEF Begun, problem, Turns
    <3>3. selected' = selected
      BY <3>1, Fixed
    <3>4. Picked(s.best)' = Picked(s.best)
      BY <3>1, <3>3 DEF Picked, Optional
    <3> QED BY <3>1, <3>2, <3>4, Zenon DEF Search!vars, Turns
  <2> QED BY <2>1, <2>2, <2>3, <2>4 DEF Next
<1> QED
  BY <1>1, <1>2, SearchInvariance, AnswerInvariance, BestInvariance, PTL DEF Spec, RefinesBranchAndBound

-----------------------------------------------------------------------------
(***************************************************************************)
(* Optimality.  A theorem of BranchAndBound cannot be cited of an instance *)
(* of it, so its argument is repeated on the search itself, with the       *)
(* lemmas on Remains: what has been visited or skipped is best or loses to *)
(* it, and what remains comes after best, so that a tie does not win.      *)
(***************************************************************************)
Missing == request.size - Len(selected)
Placements == Increasing(Missing, Len(Optional(request)))
Value(c) == Score(devices, WithPick(request, c))
Wins(b, c) == less(Value(b), Value(c)) \/ (~less(Value(c), Value(b)) /\ Precedes(b, c))

Settled(c) ==
    IF Remains(Missing, Turns, next, c)
    THEN s.best # <<>> => Precedes(Picked(s.best), c)
    ELSE s.best # <<>> /\ (c = Picked(s.best) \/ Wins(Picked(s.best), c))

LostInv ==
    /\ pc \in {"enter", "loop"} => \A c \in Placements : Settled(c)
    /\ AnswerOptimal

\* Scores that tie are the same.
LEMMA LessIsTotal ==
    ASSUME NEW x \in allocationScore, NEW y \in allocationScore, ~less(x, y), ~less(y, x)
    PROVE  x = y
<1> DEFINE v == values(x)
           w == values(y)
           B == {i \in 1 .. 7 : v[i] # w[i]}
<1>1. \A r \in allocationScore : \A i \in 1 .. 7 : values(r)[i] \in Int
  BY ScoreValues
<1>2. \A i \in 1 .. 7 : v[i] \in Int /\ w[i] \in Int
  BY <1>1
<1>3. /\ ~\E i \in 1 .. 7 : v[i] < w[i] /\ \A j \in 1 .. i - 1 : v[j] = w[j]
      /\ ~\E i \in 1 .. 7 : w[i] < v[i] /\ \A j \in 1 .. i - 1 : w[j] = v[j]
  BY Zenon DEF less, LessUpTo
<1>4. B = {}
  <2>1. SUFFICES ASSUME B # {} PROVE FALSE
    OBVIOUS
  <2> HIDE DEF v, w
  <2>2. B \subseteq Nat
    OBVIOUS
  <2>3. PICK i \in B : \A m \in B : i <= m
    <3> HIDE DEF B
    <3> QED BY ONLY <2>1, <2>2, LeastNumber
  <2>4. i \in 1 .. 7 /\ (v[i] < w[i] \/ w[i] < v[i])
    BY <1>2
  <2>5. \A j \in 1 .. i - 1 : j \in 1 .. 7 /\ j \notin B
    BY <2>3, <2>4
  <2>6. \A j \in 1 .. i - 1 : v[j] = w[j]
    BY <2>5
  <2> QED BY <1>3, <2>4, <2>6
<1>5. v[1] = w[1] /\ v[2] = w[2] /\ v[3] = w[3] /\ v[4] = w[4] /\ v[5] = w[5] /\ v[6] = w[6] /\ v[7] = w[7]
  BY <1>4
<1>6. /\ x.unknownNUMA = y.unknownNUMA /\ x.numaNodes = y.numaNodes /\ x.sidGroups = y.sidGroups
      /\ x.unknownPCI = y.unknownPCI /\ x.separateRoots = y.separateRoots
      /\ x.maxDistance = y.maxDistance /\ x.totalDistance = y.totalDistance
  BY <1>5 DEF values
<1> QED
  BY <1>6 DEF allocationScore

\* What a complete list picks is a choice.
LEMMA PickedChoice ==
    ASSUME Asked, Searching, Optional(request) = s.candidates, NEW q, Complete(q)
    PROVE  Picked(q) \in Placements
<1> DEFINE c == s.candidates
           n == Len(selected)
           z == request.size
           m == Len(c)
           k == z - n
           Spot(d) == CHOOSE i \in DOMAIN c : c[i] = d
           T == Available \ ToSet(selected)
           g == Picked(q)
<1>1. /\ ~Rejected /\ c = Sorted(T) /\ n < z
      /\ selected \in Seq(Available) /\ Enumerates(c, T) /\ z \in Nat /\ Available \subseteq Nat
  BY RequestFacts DEF Searching
<1>2. /\ q \in Seq(Available) /\ Len(q) = z
      /\ \A i \in n + 1 .. z : q[i] \notin ToSet(selected)
      /\ \A i, j \in n + 1 .. z : i < j => q[i] < q[j]
  BY DEF Complete
<1>3. n \in Nat /\ k \in Nat /\ \A j \in 1 .. k : n + j \in n + 1 .. z /\ n + j \in 1 .. z
  BY <1>1
<1>4. /\ DOMAIN c = 1 .. m /\ m \in Nat
      /\ \A x \in T : \E i \in DOMAIN c : c[i] = x
      /\ \A i, j \in 1 .. m : i < j => c[i] < c[j]
      /\ \A i \in 1 .. m : c[i] \in T
  <2> HIDE DEF c, T
  <2>1. /\ c \in Seq(T) /\ \A x \in T : \E i \in 1 .. Len(c) : c[i] = x
        /\ \A i, j \in 1 .. Len(c) : i < j => c[i] < c[j]
    BY <1>1 DEF Enumerates
  <2> QED BY <2>1
<1>5. \A x \in T : Spot(x) \in 1 .. m /\ c[Spot(x)] = x
  BY <1>4
<1>6. \A j \in 1 .. k : q[n + j] \in T
  BY <1>2, <1>3
<1>7. g = [j \in 1 .. k |-> Spot(q[n + j])]
  BY <1>2 DEF Picked
<1> HIDE DEF Spot, g, m, k, c
<1>8. g \in [1 .. k -> 1 .. m] /\ \A j \in 1 .. k : c[g[j]] = q[n + j]
  BY <1>5, <1>6, <1>7
<1>9. \A i, j \in 1 .. k : i < j => g[i] < g[j]
  <2>1. SUFFICES ASSUME NEW i \in 1 .. k, NEW j \in 1 .. k, i < j, ~(g[i] < g[j]) PROVE FALSE
    OBVIOUS
  <2>2. q[n + i] < q[n + j]
    <3>1. n + i < n + j
      BY <1>3, <2>1
    <3> QED BY <1>2, <1>3, <3>1
  <2>3. g[i] = g[j] \/ g[j] < g[i]
    BY <1>4, <1>8, <2>1
  <2>4. c[g[i]] = c[g[j]] \/ c[g[j]] < c[g[i]]
    BY <1>4, <1>8, <2>3
  <2>5. q[n + i] \in Nat /\ q[n + j] \in Nat
    BY <1>1, <1>6
  <2> QED BY <1>8, <2>2, <2>4, <2>5
<1>10. g \in Increasing(k, m)
  BY <1>3, <1>4, <1>8, <1>9, Gaps
<1> QED
  BY <1>10 DEF Placements, Missing, g, k, m, c

\* Every answer there may be is a complete list's.
LEMMA AnswerIsComplete ==
    ASSUME Asked, ~Rejected, NEW T \in Answers
    PROVE  \E q : Complete(q) /\ ToSet(q) = T
<1> DEFINE m == selected
           n == Len(selected)
           z == request.size
           R == T \ ToSet(selected)
           r == Sorted(R)
           q == m \o r
<1>1. /\ m \in Seq(Available) /\ Distinct(m) /\ z \in Nat /\ n \in Nat
      /\ IsFiniteSet(Available) /\ Available \subseteq Nat \ {0}
      /\ ToSet(m) = ToSet(request.must)
  <2>1. request.must \in Seq(Nat)
    BY DEF Asked
  <2>2. ToSet(m) = ToSet(request.must)
    BY <2>1, NormalizedMust DEF selected
  <2> QED BY <2>2, RequestFacts
<1>2. T \subseteq Available /\ Cardinality(T) = z /\ ToSet(m) \subseteq T
  BY <1>1 DEF Answers
<1>3. IsFiniteSet(T) /\ Cardinality(ToSet(m)) = n
  BY <1>1, <1>2, FS_Subset, LengthIsCardinality DEF Distinct
<1>4. IsFiniteSet(R) /\ Cardinality(R) = z - n /\ R \subseteq Nat \ {0}
  <2> DEFINE M == ToSet(selected)
  <2>1. M \in SUBSET T /\ Cardinality(M) = n
    BY <1>2, <1>3
  <2> HIDE DEF M
  <2>2. IsFiniteSet(T \ M) /\ Cardinality(T \ M) = Cardinality(T) - Cardinality(M)
    BY <1>3, <2>1, WithoutCardinality
  <2>3. T \ M \subseteq Nat \ {0}
    BY <1>1, <1>2
  <2> QED BY <1>2, <2>1, <2>2, <2>3 DEF M
<1> HIDE DEF R, m
<1>5. Enumerates(r, R) /\ Len(r) = z - n
  BY <1>4, SortedEnumerates, SortedLength
<1> HIDE DEF r
<1>6. /\ r \in Seq(R) /\ DOMAIN r = 1 .. z - n
      /\ \A i, j \in 1 .. z - n : i < j => r[i] < r[j]
      /\ \A x \in R : \E i \in 1 .. z - n : r[i] = x
      /\ \A i \in 1 .. z - n : r[i] \in R
  BY <1>5 DEF Enumerates
<1>7. R \subseteq Available /\ R \cap ToSet(m) = {} /\ T = ToSet(m) \cup R
  BY <1>2 DEF R, m
<1>8. r \in Seq(Available)
  BY <1>6, <1>7
<1>9. z - n \in Nat /\ n + (z - n) = z
  <2>1. z - n \in Nat
    BY <1>4, FS_CardinalityType
  <2> QED BY <1>1, <2>1
<1>10. Len(m) = n
  BY DEF m
<1>11. /\ q \in Seq(Available) /\ Len(q) = z
       /\ \A i \in 1 .. n : q[i] = m[i]
       /\ \A i \in n + 1 .. z : q[i] = r[i - n]
  <2>1. /\ q \in Seq(Available) /\ Len(q) = Len(m) + Len(r)
        /\ \A i \in 1 .. Len(m) : q[i] = m[i]
        /\ \A i \in Len(m) + 1 .. Len(m) + Len(r) : q[i] = r[i - Len(m)]
    BY <1>1, <1>8, Concatenated
  <2> HIDE DEF q
  <2> QED BY <1>5, <1>9, <1>10, <2>1
<1> HIDE DEF q
<1>12. \A i \in n + 1 .. z : i - n \in 1 .. z - n
  BY <1>1
<1>13. Complete(q)
  <2>1. \A i \in n + 1 .. z : q[i] \notin ToSet(m)
    BY <1>6, <1>7, <1>11, <1>12
  <2>2. \A i, j \in n + 1 .. z : i < j => q[i] < q[j]
    <3>1. SUFFICES ASSUME NEW i \in n + 1 .. z, NEW j \in n + 1 .. z, i < j PROVE q[i] < q[j]
      OBVIOUS
    <3>2. i - n < j - n
      BY <1>1, <3>1
    <3> QED BY <1>6, <1>11, <1>12, <3>2
  <2> QED BY <1>11, <2>1, <2>2 DEF Complete, m
<1>14. ToSet(q) = T
  <2>1. DOMAIN q = 1 .. z /\ DOMAIN m = 1 .. n
    BY <1>1, <1>10, <1>11
  <2>2. ToSet(m) \subseteq ToSet(q)
    <3>1. \A i \in 1 .. n : i \in 1 .. z
      BY <1>1, <1>9
    <3> QED BY <1>11, <2>1, <3>1 DEF ToSet
  <2>3. R \subseteq ToSet(q)
    <3>1. SUFFICES ASSUME NEW x \in R PROVE x \in ToSet(q)
      OBVIOUS
    <3>2. PICK i \in 1 .. z - n : r[i] = x
      BY <1>6
    <3>3. n + i \in n + 1 .. z /\ n + i \in 1 .. z /\ (n + i) - n = i
      BY <1>1, <1>9
    <3>4. q[n + i] = x
      BY <1>11, <3>2, <3>3
    <3> QED BY <2>1, <3>3, <3>4 DEF ToSet
  <2>4. ToSet(q) \subseteq ToSet(m) \cup R
    <3>1. SUFFICES ASSUME NEW i \in 1 .. z PROVE q[i] \in ToSet(m) \cup R
      BY <2>1 DEF ToSet
    <3>2. CASE i \in 1 .. n
      BY <1>11, <2>1, <3>2 DEF ToSet
    <3>3. CASE i \in n + 1 .. z
      BY <1>6, <1>11, <1>12, <3>3
    <3>4. i \in 1 .. n \/ i \in n + 1 .. z
      BY <1>1
    <3> QED BY <3>2, <3>3, <3>4
  <2> QED BY <1>7, <2>2, <2>3, <2>4
<1> QED
  BY <1>13, <1>14

\* A complete list that no choice beats is the optimum.
LEMMA OptimalAnswer ==
    ASSUME Asked, Searching, Optional(request) = s.candidates, ToSet(request.must) = ToSet(selected),
           NEW q, Complete(q), \A c \in Placements : c = Picked(q) \/ Wins(Picked(q), c),
           NEW T \in Answers, T # ToSet(q)
    PROVE  \/ less(Score(devices, ToSet(q)), Score(devices, T))
           \/ Score(devices, ToSet(q)) = Score(devices, T) /\ Min(SymDiff(ToSet(q), T)) \in ToSet(q)
<1> DEFINE b == Picked(q)
<1>1. ~Rejected
  BY DEF Searching
<1>2. PICK p : Complete(p) /\ ToSet(p) = T
  BY <1>1, AnswerIsComplete
<1> DEFINE c == Picked(p)
<1>3. /\ b \in Placements /\ WithPick(request, b) = ToSet(q) /\ ToSet(q) \in SUBSET DOMAIN devices
      /\ c \in Placements /\ WithPick(request, c) = T /\ T \in SUBSET DOMAIN devices
  BY <1>2, PickedChoice, WithPicked
<1> HIDE DEF b, c
<1>4. Value(b) = Score(devices, ToSet(q)) /\ Value(c) = Score(devices, T)
  BY <1>3 DEF Value
<1>5. Value(b) \in allocationScore /\ Value(c) \in allocationScore
  <2>1. devices \in Seq(Device)
    BY DEF Asked
  <2> QED BY <1>3, <1>4, <2>1, ScoreType
<1>6. Wins(b, c)
  <2>1. c # b
    BY <1>3
  <2> QED BY <1>3, <2>1 DEF b
<1>7. SUFFICES ASSUME ~less(Value(b), Value(c)) PROVE Value(b) = Value(c) /\ Min(SymDiff(ToSet(q), T)) \in ToSet(q)
  BY <1>4
<1>8. ~less(Value(c), Value(b)) /\ Precedes(b, c)
  BY <1>6, <1>7 DEF Wins
<1>9. Value(b) = Value(c)
  BY <1>5, <1>7, <1>8, LessIsTotal
<1>10. Min(SymDiff(ToSet(q), T)) \in ToSet(q)
  <2> DEFINE o == s.candidates
             A == Available \ ToSet(selected)
             k == Missing
             M == ToSet(selected)
  <2>1. /\ Enumerates(o, A) /\ A \in SUBSET Nat /\ Len(selected) < request.size /\ selected \in Seq(Available)
        /\ request.size \in Nat
    BY <1>1, RequestFacts DEF Searching
  <2>2. k \in Nat
    BY <2>1 DEF Missing
  <2> HIDE DEF o, A, k, M
  <2>3. o \in Seq(A) /\ \A i, j \in 1 .. Len(o) : i < j => o[i] < o[j]
    BY <2>1 DEF Enumerates
  <2>4. b \in Increasing(k, Len(o)) /\ c \in Increasing(k, Len(o)) /\ Len(o) \in Nat
    BY <1>3, <2>3 DEF Placements, k, o
  <2>5. DOMAIN b = 1 .. k /\ DOMAIN c = 1 .. k
    BY <2>2, <2>4, IncreasingFacts
  <2>6. ToSet(q) = Taken(M, o, k, b) /\ T = Taken(M, o, k, c)
    BY <1>3, <2>5 DEF WithPick, Taken, o, M
  <2>7. M \cap ToSet(o) = {}
    <3>1. \A i \in DOMAIN o : o[i] \in A
      BY <2>3
    <3> QED BY <3>1 DEF ToSet, A, M
  <2>8. Min(SymDiff(Taken(M, o, k, b), Taken(M, o, k, c))) \in Taken(M, o, k, b)
    BY <1>8, <2>1, <2>2, <2>3, <2>4, <2>7, FirstDifference
  <2> QED BY <2>6, <2>8
<1> QED
  BY <1>9, <1>10

\* When there is no choice there is one answer.
LEMMA NoChoiceOptimal ==
    ASSUME SearchInv, NoChoice
    PROVE  AnswerOptimal'
<1> DEFINE M == ToSet(selected)
           q == Sorted(Available \ ToSet(selected))
<1>1. UNCHANGED <<devices, request>> /\ Asked /\ ~Rejected
  BY DEF NoChoice, Respond, SearchInv
<1>2. \/ Len(selected) = request.size /\ answer' = selected
      \/ request.size = Cardinality(Available) /\ answer' = selected \o q
  BY DEF NoChoice, Respond
<1>3. /\ Available' = Available /\ (Rejected' <=> Rejected) /\ Answers' = Answers
  <2>1. Available' = Available /\ (Rejected' <=> Rejected)
    BY <1>1, Fixed
  <2> QED BY <1>1, <2>1 DEF Answers
<1>4. /\ selected \in Seq(Available) /\ Distinct(selected) /\ IsFiniteSet(Available)
      /\ Enumerates(q, Available \ M)
  BY <1>1, RequestFacts
<1>5. M = ToSet(request.must) /\ M \subseteq Available /\ Cardinality(M) = Len(selected)
  <2>1. request.must \in Seq(Nat)
    BY <1>1 DEF Asked
  <2>2. M = ToSet(request.must)
    BY <2>1, NormalizedMust DEF selected
  <2> QED BY <1>4, <2>2, LengthIsCardinality DEF Distinct
<1>6. ASSUME NEW T \in Answers PROVE T = ToSet(answer')
  <2>1. T \in SUBSET Available /\ Cardinality(T) = request.size /\ M \in SUBSET T
    BY <1>5 DEF Answers
  <2>2. IsFiniteSet(T)
    BY <1>4, <2>1, FS_Subset
  <2> HIDE DEF M
  <2>3. CASE Len(selected) = request.size /\ answer' = selected
    <3>1. T = M
      BY <1>5, <2>1, <2>2, <2>3, FS_Subset
    <3> QED BY <2>3, <3>1 DEF M
  <2>4. CASE request.size = Cardinality(Available) /\ answer' = selected \o q
    <3>1. T = Available
      BY <1>4, <2>1, <2>4, FS_Subset
    <3> DEFINE m == selected
    <3>2. m \in Seq(Available) /\ ToSet(m) = M
      BY <1>4 DEF M
    <3> HIDE DEF m, q
    <3>3. /\ q \in Seq(Available \ M) /\ \A x \in Available \ M : \E i \in 1 .. Len(q) : q[i] = x
      BY <1>4 DEF Enumerates
    <3>4. q \in Seq(Available) /\ DOMAIN q = 1 .. Len(q) /\ \A i \in 1 .. Len(q) : q[i] \in Available
      BY <3>3
    <3> DEFINE w == m \o q
    <3>5. /\ w \in Seq(Available) /\ Len(w) = Len(m) + Len(q)
          /\ \A i \in 1 .. Len(m) : w[i] = m[i]
          /\ \A i \in Len(m) + 1 .. Len(m) + Len(q) : w[i] = q[i - Len(m)]
      BY <3>2, <3>4, Concatenated
    <3> HIDE DEF w
    <3>6. Len(m) \in Nat /\ Len(q) \in Nat /\ DOMAIN w = 1 .. Len(m) + Len(q) /\ DOMAIN m = 1 .. Len(m)
      BY <3>2, <3>4, <3>5
    <3>7. M \subseteq ToSet(w)
      <4>1. \A i \in 1 .. Len(m) : i \in 1 .. Len(m) + Len(q)
        BY <3>6
      <4> QED BY <3>2, <3>5, <3>6, <4>1 DEF ToSet
    <3>8. Available \ M \subseteq ToSet(w)
      <4>1. SUFFICES ASSUME NEW x \in Available \ M PROVE x \in ToSet(w)
        OBVIOUS
      <4>2. PICK i \in 1 .. Len(q) : q[i] = x
        BY <3>3
      <4>3. Len(m) + i \in Len(m) + 1 .. Len(m) + Len(q) /\ Len(m) + i \in DOMAIN w /\ (Len(m) + i) - Len(m) = i
        BY <3>6
      <4>4. w[Len(m) + i] = x
        BY <3>5, <4>2, <4>3
      <4> QED BY <4>3, <4>4 DEF ToSet
    <3>9. ToSet(w) \subseteq Available
      BY <3>5 DEF ToSet
    <3> QED BY <2>4, <3>1, <3>7, <3>8, <3>9 DEF w, m
  <2> QED BY <1>2, <2>3, <2>4
<1> QED
  BY <1>3, <1>6 DEF AnswerOptimal

\* Nothing but the table and the request decides which choices there are and
\* which win.
LEMMA ChoicesFixed ==
    ASSUME UNCHANGED <<devices, request>>
    PROVE  /\ Missing' = Missing /\ Placements' = Placements
           /\ \A b, c : Wins(b, c)' <=> Wins(b, c)
<1>1. selected' = selected /\ request' = request /\ devices' = devices
  BY Fixed
<1>2. Missing' = Missing
  BY <1>1 DEF Missing
<1>3. Placements' = Placements
  BY <1>1, <1>2 DEF Placements, Optional
<1>4. \A b, c : Wins(b, c)' <=> Wins(b, c)
  BY <1>1 DEF Wins, Value, WithPick, Optional
<1> QED
  BY <1>2, <1>3, <1>4

\* A call with nothing left to find returns.
LEMMA ReturnLost ==
    ASSUME SearchInv, AnswerInv, pc \in {"enter", "loop"}, NEW t, Fields(t), Return(t), Complete(t.best),
           NEW b, b = Picked(t.best),
           \A c \in Placements : IF Precedes(Turns, c) THEN Precedes(b, c) ELSE c = b \/ Wins(b, c)
    PROVE  LostInv'
<1>1. /\ Asked /\ Searching /\ Optional(request) = s.candidates /\ ToSet(request.must) = ToSet(selected)
      /\ Turns \in Seq(Nat) /\ Len(Turns) = Len(frames) /\ (Turns = <<>> <=> frames = <<>>)
      /\ Len(selected) \in Nat /\ Len(frames) \in Nat /\ Len(s.candidates) \in Nat /\ request.size \in Nat
      /\ Len(selected) < request.size /\ Stacked
  BY CallFacts
<1>2. Len(t.best) = request.size /\ t.best # <<>>
  BY <1>1 DEF Complete
<1>3. UNCHANGED <<devices, request>>
  BY DEF Return, Respond
<1>4. CASE frames = <<>>
  <2>1. pc' = "done" /\ answer' = t.best
    BY <1>2, <1>4 DEF Return, Respond
  <2>2. \A c : ~Precedes(Turns, c)
    BY <1>1, <1>4 DEF Precedes
  <2>3. \A c \in Placements : c = b \/ Wins(b, c)
    BY <2>2
  <2>4. ASSUME NEW T \in Answers, T # ToSet(t.best)
        PROVE  \/ less(Score(devices, ToSet(t.best)), Score(devices, T))
               \/ Score(devices, ToSet(t.best)) = Score(devices, T) /\ Min(SymDiff(ToSet(t.best), T)) \in ToSet(t.best)
    BY <1>1, <2>3, <2>4, OptimalAnswer
  <2>5. Answers' = Answers
    BY <1>3, Fixed DEF Answers
  <2>6. AnswerOptimal'
    BY <1>3, <2>1, <2>4, <2>5 DEF AnswerOptimal
  <2> QED BY <2>1, <2>6 DEF LostInv
<1>5. CASE frames # <<>>
  <2>1. /\ pc' = "loop" /\ s'.best = t.best
        /\ Turns' = SubSeq(Turns, 1, Len(Turns) - 1) /\ next' = Turns[Len(Turns)] + 1 /\ Len(Turns) >= 1
    BY <1>5, ReturnTurns
  <2>2. Missing' = Missing /\ Placements' = Placements /\ (\A c : Wins(b, c)' <=> Wins(b, c)) /\ Picked(s.best)' = b
    BY <1>3, <2>1, ChoicesFixed, PickedFixed
  <2>3. Len(Turns) <= Missing /\ Missing \in Nat
    <3>1. Len(s.chosen) <= request.size /\ Len(s.chosen) = Len(selected) + Len(frames)
      BY <1>1 DEF SearchInv, Stacked
    <3> QED BY <1>1, <3>1 DEF Missing
  <2>4. ASSUME NEW c \in Placements PROVE Settled(c)'
    <3>1. Remains(Missing, Turns, next, c)' <=> Precedes(Turns, c)
      <4> DEFINE p == Turns
                 k == Missing
      <4>1. c \in Increasing(k, Len(s.candidates)) /\ p \in Seq(Nat) /\ Len(p) >= 1 /\ Len(p) <= k /\ k \in Nat
        BY <1>1, <2>1, <2>3 DEF Placements
      <4> HIDE DEF p, k
      <4>2. Remains(k, SubSeq(p, 1, Len(p) - 1), p[Len(p)] + 1, c) <=> Precedes(p, c)
        BY <1>1, <4>1, RemainsReturning
      <4>3. Remains(Missing, Turns, next, c)' <=> Remains(Missing', Turns', next', c)
        BY DEF Remains, Precedes, Extends
      <4> QED BY <2>1, <2>2, <4>2, <4>3 DEF p, k
    <3>2. Settled(c)' <=> IF Precedes(Turns, c) THEN Precedes(b, c) ELSE c = b \/ Wins(b, c)
      <4>1. s'.best # <<>>
        BY <1>2, <2>1
      <4>2. Precedes(Picked(s.best), c)' <=> Precedes(b, c)
        BY <2>2 DEF Precedes
      <4>3. Wins(Picked(s.best), c)' <=> Wins(b, c)
        BY <1>3, <2>2 DEF Wins, Value, WithPick, Optional, Precedes
      <4> QED BY <2>2, <3>1, <4>1, <4>2, <4>3 DEF Settled
    <3> QED BY <3>2
  <2>5. AnswerOptimal'
    BY <2>1 DEF AnswerOptimal
  <2> QED BY <2>2, <2>4, <2>5 DEF LostInv
<1> QED
  BY <1>4, <1>5

\* An open call, in the terms of Remains.
LEMMA RemainsFacts ==
    ASSUME SearchInv, AnswerInv, pc \in {"enter", "loop"}
    PROVE  /\ Missing \in Nat /\ Missing >= 1
           /\ Placements = Increasing(Missing, Len(s.candidates)) /\ Len(s.candidates) \in Nat
           /\ Placements = Search!Pick(problem)
           /\ Turns \in Seq(Nat) /\ next \in Nat /\ remaining = Missing - Len(Turns)
           /\ \A c \in Placements : Value(c) \in allocationScore
<1>1. /\ Asked /\ ~Rejected /\ Optional(request) = s.candidates /\ ToSet(request.must) = ToSet(selected)
      /\ Search!K = request.size - Len(selected) /\ Search!N = Len(s.candidates)
      /\ Turns \in Seq(Nat) /\ Len(Turns) = Len(frames)
      /\ Len(selected) \in Nat /\ Len(frames) \in Nat /\ Len(s.candidates) \in Nat /\ request.size \in Nat
      /\ remaining = request.size - Len(selected) - Len(frames)
      /\ Len(selected) < request.size /\ Searching
  BY CallFacts
<1>2. Missing \in Nat /\ Missing >= 1 /\ remaining = Missing - Len(Turns)
  BY <1>1 DEF Missing
<1>3. Placements = Increasing(Missing, Len(s.candidates))
  BY <1>1 DEF Placements
<1>4. Placements = Search!Pick(problem)
  <2>1. Search!Pick(problem) = Increasing(Search!K, Search!N)
    BY Zenon DEF Search!Pick, Search!K, Search!N, Increasing
  <2> QED BY <1>1, <1>3, <2>1 DEF Missing
<1>5. next \in Nat
  BY <1>1 DEF SearchInv
<1>6. ASSUME NEW c \in Placements PROVE Value(c) \in allocationScore
  <2>1. DOMAIN c = 1 .. Missing /\ \A i \in 1 .. Missing : c[i] \in 1 .. Len(s.candidates)
    BY <1>1, <1>2, <1>3, IncreasingFacts
  <2>2. /\ devices \in Seq(Device) /\ Available \in SUBSET DOMAIN devices /\ selected \in Seq(Available)
        /\ Enumerates(s.candidates, Available \ ToSet(selected))
    BY <1>1, RequestFacts DEF Searching
  <2>3. \A i \in 1 .. Len(s.candidates) : s.candidates[i] \in Available
    BY <2>2 DEF Enumerates
  <2>4. ToSet(selected) \subseteq Available
    BY <2>2 DEF ToSet
  <2>5. WithPick(request, c) \in SUBSET DOMAIN devices
    BY <1>1, <2>1, <2>2, <2>3, <2>4 DEF WithPick
  <2> QED BY <2>2, <2>5, ScoreType DEF Value
<1> QED
  BY <1>1, <1>2, <1>3, <1>4, <1>5, <1>6

LEMMA LeafLost ==
    ASSUME SearchInv, AnswerInv, BestInv, LostInv, Leaf
    PROVE  LostInv'
<1> DEFINE better == s.best = <<>> \/ less(s.score, s.bestScore)
           t == IF better THEN WithBest(s, s.chosen, s.score) ELSE s
           k == Missing
           n == Len(s.candidates)
           p == Turns
           b == Picked(s.best)
<1>1. pc = "enter" /\ remaining = 0 /\ Return(t)
  BY Zenon DEF Leaf, WithBest
<1>2. /\ Asked /\ Searching /\ Stacked
      /\ Optional(request) = s.candidates /\ ToSet(request.must) = ToSet(selected)
      /\ Len(Turns) = Len(frames) /\ \A j \in 1 .. Len(frames) : Turns[j] = frames[j].i
      /\ Len(selected) \in Nat /\ Len(frames) \in Nat /\ request.size \in Nat
  BY <1>1, CallFacts
<1>3. /\ k \in Nat /\ Placements = Increasing(k, n) /\ n \in Nat /\ p \in Seq(Nat) /\ remaining = k - Len(p)
      /\ \A c \in Placements : Value(c) \in allocationScore
  BY <1>1, RemainsFacts
<1>4. Len(p) = k /\ Len(s.chosen) = request.size
  <2>1. Len(p) \in Nat
    BY <1>3
  <2>2. Len(p) = k
    BY <1>1, <1>3, <2>1
  <2> QED BY <1>2, <2>2 DEF Stacked, Missing
<1>5. Consistent(devices, Available, s) /\ Complete(s.chosen)
  BY <1>2, <1>4, ChosenComplete DEF Searching
<1>6. Fields(t) /\ t.best = IF better THEN s.chosen ELSE s.best
  <2>1. CASE better
    <3>1. t = WithBest(s, s.chosen, s.score)
      BY <2>1
    <3> HIDE DEF t, better
    <3>2. Consistent(devices, Available, t) /\ t.best = s.chosen
      BY <1>5, <3>1, WithBestConsistent
    <3> QED BY <2>1, <3>2 DEF Consistent
  <2>2. CASE ~better
    BY <1>5, <2>2 DEF Consistent
  <2> QED BY <2>1, <2>2
<1>7. Picked(s.chosen) = p
  <2>1. s.chosen \in Seq(Available) /\ frames \in Seq(Frame) /\ Len(s.chosen) = Len(selected) + Len(p)
        /\ \A j \in 1 .. Len(frames) : s.chosen[Len(selected) + j] = s.candidates[frames[j].i]
    BY <1>2, <1>5 DEF Stacked, Consistent
  <2>2. \A j \in 1 .. Len(frames) : frames[j] \in Frame
    BY <2>1
  <2>3. \A j \in 1 .. Len(p) : p[j] \in 1 .. n /\ s.chosen[Len(selected) + j] = s.candidates[p[j]]
    BY <1>2, <2>1, <2>2 DEF Frame
  <2> QED BY <1>2, <1>3, <2>1, <2>3, PickedIs
<1>8. s.score = Value(p) /\ Value(p) \in allocationScore
  <2>1. WithPick(request, p) = ToSet(s.chosen) /\ ToSet(s.chosen) \in SUBSET DOMAIN devices
    BY <1>2, <1>5, <1>7, WithPicked
  <2>2. devices \in Seq(Device)
    BY <1>2 DEF Asked
  <2> QED BY <1>5, <2>1, <2>2, ScoreType DEF Consistent, Value
<1>9. s.best # <<>> => s.bestScore = Value(b) /\ s.bestScore \in allocationScore
  BY <1>1, FoundIs DEF Value
<1>10. \A c \in Placements : Remains(k, p, next, c) <=> c = p \/ Precedes(p, c)
  <2> HIDE DEF k, p, n
  <2> QED BY <1>3, <1>4, RemainsLeaf
<1>11. \A c \in Placements : IF Remains(k, p, next, c) THEN s.best # <<>> => Precedes(b, c)
                          ELSE s.best # <<>> /\ (c = b \/ Wins(b, c))
  BY <1>1 DEF LostInv, Settled
<1>12. Complete(t.best)
  BY <1>1, <1>5, <1>6 DEF AnswerInv
<1> HIDE DEF t, k, p, b, n
<1>13. CASE better
  <2>1. Picked(t.best) = p
    BY <1>6, <1>7, <1>13
  <2>2. ASSUME NEW c \in Placements, ~Precedes(p, c), c # p PROVE less(Value(p), Value(c))
    <3>1. s.best # <<>> /\ (c = b \/ Wins(b, c))
      BY <1>10, <1>11, <2>2
    <3>2. less(Value(p), Value(b)) /\ Value(b) \in allocationScore
      BY <1>8, <1>9, <1>13, <3>1
    <3>3. CASE c = b
      BY <3>2, <3>3
    <3>4. CASE Wins(b, c)
      <4>1. ~less(Value(c), Value(b))
        BY <1>3, <3>2, <3>4, LessIsOrder DEF Wins
      <4> QED BY <1>3, <1>8, <3>2, <4>1, LessIsOrder
    <3> QED BY <3>1, <3>3, <3>4
  <2>3. \A c \in Placements : IF Precedes(p, c) THEN Precedes(p, c) ELSE c = p \/ Wins(p, c)
    BY <2>2 DEF Wins
  <2> QED BY <1>1, <1>6, <1>12, <2>1, <2>3, ReturnLost DEF p
<1>14. CASE ~better
  <2>1. t.best = s.best /\ s.best # <<>> /\ ~less(Value(p), Value(b))
    BY <1>6, <1>8, <1>9, <1>14
  <2>2. Picked(t.best) = b
    BY <2>1 DEF b
  <2>3. ASSUME NEW c \in Placements PROVE IF Precedes(p, c) THEN Precedes(b, c) ELSE c = b \/ Wins(b, c)
    <3>1. CASE Precedes(p, c)
      BY <1>10, <1>11, <2>1, <3>1
    <3>2. CASE ~Precedes(p, c) /\ c = p
      <4>1. Precedes(b, c)
        BY <1>10, <1>11, <2>1, <3>2
      <4> QED BY <2>1, <3>2, <4>1 DEF Wins
    <3>3. CASE ~Precedes(p, c) /\ c # p
      BY <1>10, <1>11, <3>3
    <3> QED BY <3>1, <3>2, <3>3
  <2> QED BY <1>1, <1>6, <1>12, <2>2, <2>3, ReturnLost DEF p
<1> QED
  BY <1>13, <1>14

LEMMA PlainReturnLost ==
    ASSUME SearchInv, AnswerInv, BestInv, BoundsAdmissible, LostInv, Cut \/ Exhausted
    PROVE  LostInv'
<1> DEFINE k == Missing
           n == Len(s.candidates)
           p == Turns
           b == Picked(s.best)
<1>1. pc \in {"enter", "loop"} /\ Return(s) /\ s.best # <<>>
  BY NoDeadEnd DEF Cut, Exhausted
<1>2. Begun /\ Searching /\ Found = b
  <2>1. Begun /\ Searching
    BY <1>1, CallFacts
  <2> QED BY <2>1 DEF Found
<1>3. Fields(s) /\ Complete(s.best)
  BY <1>1, <1>2 DEF Searching, Consistent, AnswerInv
<1>4. /\ k \in Nat /\ Placements = Increasing(k, n) /\ n \in Nat /\ p \in Seq(Nat) /\ remaining = k - Len(p)
      /\ next \in Nat /\ Placements = Search!Pick(problem)
  BY <1>1, RemainsFacts
<1>5. \A c \in Placements : IF Remains(k, p, next, c) THEN Precedes(b, c) ELSE c = b \/ Wins(b, c)
  BY <1>1 DEF LostInv, Settled
<1>6. ASSUME NEW c \in Placements PROVE IF Precedes(p, c) THEN Precedes(b, c) ELSE c = b \/ Wins(b, c)
  <2>1. CASE Cut
    <3>1. Search!Hopeless
      BY <2>1, CutMaps DEF Search!Cut
    <3>2. Extends(p, c) => ~Search!Better(c, b)
      <4>1. \A x \in Search!Pick(problem) : Search!Completes(x) => ~Search!Better(x, Found)
        BY <3>1, Zenon DEF Search!Hopeless, Found
      <4>2. Search!Completes(c) <=> Extends(p, c)
        BY Zenon DEF Search!Completes, Extends, Turns
      <4> QED BY <1>2, <1>4, <4>1, <4>2
    <3>3. Search!Better(c, b) <=> less(Value(c), Value(b))
      <4>1. problem.request = request /\ problem.devices = devices
        BY DEF problem
      <4> QED BY <4>1 DEF Search!Better, Value
    <3> HIDE DEF k, n, p, b
    <3>4. CASE Remains(k, p, next, c)
      <4>1. Precedes(b, c)
        BY <1>5, <3>4
      <4>2. Extends(p, c) \/ Precedes(p, c)
        BY <3>4 DEF Remains
      <4> QED BY <3>2, <3>3, <4>1, <4>2 DEF Wins
    <3>5. CASE ~Remains(k, p, next, c)
      <4>1. ~Precedes(p, c)
        BY <3>5 DEF Remains
      <4> QED BY <1>5, <3>5, <4>1
    <3> QED BY <3>4, <3>5
  <2>2. CASE Exhausted
    <3>1. next > n - remaining + 1 /\ Len(p) < k
      <4>1. next > n - remaining + 1 /\ pc = "loop"
        BY <2>2 DEF Exhausted
      <4>2. remaining > 0
        <5>1. Len(s.chosen) < request.size /\ request.size \in Nat /\ Len(s.chosen) \in Nat
          BY <1>2, <4>1, CallFacts DEF SearchInv, Searching, Consistent
        <5> QED BY <5>1 DEF remaining
      <4> QED BY <1>4, <4>1, <4>2
    <3> HIDE DEF k, n, p, b
    <3>2. Remains(k, p, next, c) <=> Precedes(p, c)
      BY <1>4, <3>1, RemainsExhausted
    <3> QED BY <1>5, <3>2
  <2> QED BY <2>1, <2>2
<1> HIDE DEF k, n, p, b
<1> QED
  BY <1>1, <1>3, <1>6, ReturnLost DEF p, b

LEMMA DescendLost ==
    ASSUME SearchInv, AnswerInv, LostInv, CallSearch \/ Open \/ Choose
    PROVE  LostInv'
<1>1. /\ UNCHANGED <<devices, request, answer>> /\ pc # "done" /\ pc' \in {"enter", "loop"}
  BY DEF CallSearch, Open, Choose
<1>2. Missing' = Missing /\ Placements' = Placements
  BY <1>1, ChoicesFixed
<1>3. AnswerOptimal'
  BY <1>1 DEF AnswerOptimal
<1>4. CASE CallSearch
  <2>1. /\ next' = 1 /\ frames' = <<>> /\ s'.best = <<>>
        /\ Asked /\ ~Rejected /\ Len(selected) < request.size
    BY <1>4 DEF CallSearch, SearchInv, AnswerInv, Searching
  <2>2. Turns' = <<>>
    BY <2>1 DEF Turns
  <2>3. Missing \in Nat /\ Missing >= 1 /\ Len(Optional(request)) \in Nat
    <3>1. selected \in Seq(Available) /\ request.size \in Nat
          /\ Enumerates(Sorted(Available \ ToSet(selected)), Available \ ToSet(selected))
      BY <2>1, RequestFacts
    <3>2. request.must \in Seq(Nat)
      BY <2>1 DEF Asked
    <3>3. Optional(request) = Sorted(Available \ ToSet(selected))
      BY <3>2, NormalizedMust DEF Optional, Available, selected
    <3>4. Len(Optional(request)) \in Nat
      BY <3>1, <3>3 DEF Enumerates
    <3> QED BY <2>1, <3>1, <3>4 DEF Missing
  <2>4. ASSUME NEW c \in Placements PROVE Settled(c)'
    <3>1. Remains(Missing, <<>>, 1, c)
      BY <2>3, RemainsAtFirst DEF Placements
    <3>2. Remains(Missing, Turns, next, c)'
      <4>1. Remains(Missing, Turns, next, c)' <=> Remains(Missing', Turns', next', c)
        BY DEF Remains, Precedes, Extends
      <4> QED BY <1>2, <2>1, <2>2, <3>1, <4>1
    <3> QED BY <2>1, <3>2 DEF Settled
  <2> QED BY <1>2, <1>3, <2>4 DEF LostInv
<1>5. CASE Open \/ Choose
  <2>1. /\ pc \in {"enter", "loop"} /\ s'.best = s.best
        /\ \A c \in Placements : Remains(Missing, Turns, next, c)' <=> Remains(Missing, Turns, next, c)
    <3>1. CASE Open
      <4>1. pc = "enter" /\ UNCHANGED <<s, frames, next>>
        BY <3>1 DEF Open
      <4>2. Turns' = Turns
        BY <4>1 DEF Turns
      <4> QED BY <1>2, <4>1, <4>2 DEF Remains, Precedes, Extends
    <3>2. CASE Choose
      <4>1. pc = "loop" /\ Turns' = Append(Turns, next) /\ next' = next + 1 /\ next \in Nat /\ s'.best = s.best
        BY <3>2, ChooseTurns DEF Choose
      <4> DEFINE k == Missing
                 n == Len(s.candidates)
                 p == Turns
      <4>2. /\ k \in Nat /\ Placements = Increasing(k, n) /\ n \in Nat /\ p \in Seq(Nat) /\ remaining = k - Len(p)
        BY <4>1, RemainsFacts
      <4>3. Len(p) < k
        <5>1. Len(s.chosen) < request.size /\ request.size \in Nat /\ Len(s.chosen) \in Nat
          BY <4>1, CallFacts DEF SearchInv, Searching, Consistent
        <5>2. remaining > 0
          BY <5>1 DEF remaining
        <5> QED BY <4>2, <5>2
      <4> HIDE DEF k, n, p
      <4>4. ASSUME NEW c \in Placements PROVE Remains(Missing, Turns, next, c)' <=> Remains(Missing, Turns, next, c)
        <5>1. Remains(k, Append(p, next), next + 1, c) <=> Remains(k, p, next, c)
          BY <4>1, <4>2, <4>3, RemainsPicking
        <5>2. Remains(Missing, Turns, next, c)' <=> Remains(Missing', Turns', next', c)
          BY DEF Remains, Precedes, Extends
        <5> QED BY <1>2, <4>1, <5>1, <5>2 DEF k, p
      <4> QED BY <4>1, <4>4
    <3> QED BY <1>5, <3>1, <3>2
  <2>2. Picked(s.best)' = Picked(s.best)
    <3>1. selected' = selected /\ request' = request
      BY <1>1, Fixed
    <3> QED BY <2>1, <3>1 DEF Picked, Optional
  <2>3. ASSUME NEW c \in Placements PROVE Settled(c)'
    <3>1. Precedes(Picked(s.best), c)' <=> Precedes(Picked(s.best), c)
      BY <2>2 DEF Precedes
    <3>2. Wins(Picked(s.best), c)' <=> Wins(Picked(s.best), c)
      BY <1>1, <2>2 DEF Wins, Value, WithPick, Optional, Precedes
    <3>3. Settled(c)
      BY <2>1 DEF LostInv
    <3> QED BY <2>1, <2>2, <3>1, <3>2, <3>3 DEF Settled
  <2> QED BY <1>2, <1>3, <2>3 DEF LostInv
<1> QED
  BY <1>4, <1>5

\* As long as the bounds are admissible, the answer is the optimum.
LEMMA OptimalIfAdmissible == Spec /\ []BoundsAdmissible => []AnswerOptimal
<1>1. Init => LostInv
  BY DEF Init, LostInv, AnswerOptimal
<1>2. SearchInv /\ AnswerInv /\ BestInv /\ BoundsAdmissible /\ LostInv /\ [Next]_vars => LostInv'
  <2>1. SUFFICES ASSUME SearchInv, AnswerInv, BestInv, BoundsAdmissible, LostInv, [Next]_vars PROVE LostInv'
    OBVIOUS
  <2>2. CASE Fallback
    <3>1. UNCHANGED <<devices, request>> /\ pc' = "done" /\ Rejected
      BY <2>2 DEF Fallback, Respond
    <3>2. Rejected'
      BY <3>1, Fixed
    <3> QED BY <3>1, <3>2 DEF LostInv, AnswerOptimal
  <2>3. CASE NoChoice
    <3>1. pc' = "done"
      BY <2>3 DEF NoChoice, Respond
    <3> QED BY <2>1, <2>3, <3>1, NoChoiceOptimal DEF LostInv
  <2>4. CASE SelectDevices \/ AddMandatory
    BY <2>4 DEF SelectDevices, AddMandatory, LostInv, AnswerOptimal
  <2>5. CASE Leaf
    BY <2>1, <2>5, LeafLost
  <2>6. CASE Cut \/ Exhausted
    BY <2>1, <2>6, PlainReturnLost
  <2>7. CASE CallSearch \/ Open \/ Choose
    BY <2>1, <2>7, DescendLost
  <2>8. CASE Finished \/ UNCHANGED vars
    <3>1. UNCHANGED vars
      BY <2>8 DEF Finished
    <3>2. UNCHANGED <<devices, request, pc, s, frames, next, answer>>
      BY <3>1 DEF vars
    <3>3. AnswerOptimal'
      <4>1. (Rejected' <=> Rejected) /\ Available' = Available
        BY <3>2, Fixed
      <4> QED BY <2>1, <3>2, <4>1 DEF LostInv, AnswerOptimal, Answers
    <3>4. Placements' = Placements /\ Missing' = Missing /\ selected' = selected /\ Turns' = Turns
      BY <3>2, ChoicesFixed, Fixed DEF Turns
    <3>5. Picked(s.best)' = Picked(s.best)
      BY <3>2, <3>4 DEF Picked, Optional
    <3>6. ASSUME NEW c PROVE Settled(c)' <=> Settled(c)
      <4>1. Remains(Missing, Turns, next, c)' <=> Remains(Missing, Turns, next, c)
        BY <3>2, <3>4 DEF Remains, Precedes, Extends
      <4>2. Precedes(Picked(s.best), c)' <=> Precedes(Picked(s.best), c)
        BY <3>5 DEF Precedes
      <4>3. Wins(Picked(s.best), c)' <=> Wins(Picked(s.best), c)
        BY <3>2, <3>5 DEF Wins, Value, WithPick, Optional, Precedes
      <4> QED BY <3>2, <3>5, <4>1, <4>2, <4>3 DEF Settled
    <3> QED BY <2>1, <3>2, <3>3, <3>4, <3>6 DEF LostInv
  <2> QED BY <2>1, <2>2, <2>3, <2>4, <2>5, <2>6, <2>7, <2>8 DEF Next
<1>3. LostInv => AnswerOptimal
  BY DEF LostInv
<1> QED
  BY <1>1, <1>2, <1>3, SearchInvariance, AnswerInvariance, BestInvariance, PTL DEF Spec

-----------------------------------------------------------------------------
(***************************************************************************)
(* The bounds.  MinimaInv says that what prepareBounds computed once is    *)
(* still there.  With the score and the counters of the chosen devices     *)
(* (SearchInv) that is all a bound is made of, so that every bound is a    *)
(* function of the table, of the chosen devices and of the candidates that *)
(* are left; the lemmas on completions say that it is no higher, in the    *)
(* order of less, than the score of any completion.                        *)
(***************************************************************************)
\* A score that is not above another one in its first four fields, and in the
\* later ones as far as those before them are equal, is not above it.
NoHigher(b, x) ==
    /\ b.unknownNUMA <= x.unknownNUMA /\ b.numaNodes <= x.numaNodes
    /\ b.sidGroups <= x.sidGroups /\ b.unknownPCI <= x.unknownPCI
    /\ b.unknownPCI = x.unknownPCI => b.separateRoots <= x.separateRoots
    /\ b.unknownPCI = x.unknownPCI /\ b.separateRoots = x.separateRoots =>
          b.maxDistance <= x.maxDistance /\ b.totalDistance <= x.totalDistance

LEMMA NoHigherIsNotLess ==
    ASSUME NEW b \in allocationScore, NEW x \in allocationScore, NoHigher(b, x)
    PROVE  ~less(x, b)
<1> DEFINE v == values(x)
           w == values(b)
<1>1. /\ v[1] = x.unknownNUMA /\ v[2] = x.numaNodes /\ v[3] = x.sidGroups /\ v[4] = x.unknownPCI
      /\ v[5] = x.separateRoots /\ v[6] = x.maxDistance /\ v[7] = x.totalDistance
      /\ w[1] = b.unknownNUMA /\ w[2] = b.numaNodes /\ w[3] = b.sidGroups /\ w[4] = b.unknownPCI
      /\ w[5] = b.separateRoots /\ w[6] = b.maxDistance /\ w[7] = b.totalDistance
  BY DEF values
<1>2. \A i \in 1 .. 7 : v[i] \in Int /\ w[i] \in Int
  BY ScoreValues
<1> HIDE DEF v, w
<1>3. SUFFICES ASSUME NEW i \in 1 .. 7, v[i] < w[i], \A j \in 1 .. i - 1 : v[j] = w[j] PROVE FALSE
  BY DEF less, LessUpTo, v, w
<1>4. /\ w[1] <= v[1] /\ w[2] <= v[2] /\ w[3] <= v[3] /\ w[4] <= v[4]
      /\ w[4] = v[4] => w[5] <= v[5]
      /\ w[4] = v[4] /\ w[5] = v[5] => w[6] <= v[6] /\ w[7] <= v[7]
  BY <1>1 DEF NoHigher
<1>5. CASE i <= 4
  <2>1. i = 1 \/ i = 2 \/ i = 3 \/ i = 4
    BY <1>5
  <2> QED BY <1>2, <1>3, <1>4, <2>1
<1>6. CASE i = 5
  <2>1. v[4] = w[4]
    BY <1>3, <1>6
  <2> QED BY <1>2, <1>3, <1>4, <1>6, <2>1
<1>7. CASE i > 5
  <2>1. v[4] = w[4] /\ v[5] = w[5] /\ (i = 6 \/ i = 7)
    BY <1>3, <1>7
  <2> QED BY <1>2, <1>3, <1>4, <1>7, <2>1
<1> QED
  BY <1>5, <1>6, <1>7

\* A score field by field.
ScoreOf(n, m, g, u, r, h, d) ==
    [unknownNUMA |-> n, numaNodes |-> m, sidGroups |-> g, unknownPCI |-> u,
     separateRoots |-> r, maxDistance |-> h, totalDistance |-> d]

LEMMA ScoreOfFields ==
    ASSUME NEW n, NEW m, NEW g, NEW u, NEW r, NEW h, NEW d
    PROVE  LET q == ScoreOf(n, m, g, u, r, h, d)
           IN  /\ q.unknownNUMA = n /\ q.numaNodes = m /\ q.sidGroups = g /\ q.unknownPCI = u
               /\ q.separateRoots = r /\ q.maxDistance = h /\ q.totalDistance = d
               /\ n \in Nat /\ m \in Nat /\ g \in Nat /\ u \in Nat /\ r \in Nat /\ h \in Nat /\ d \in Nat
                    => q \in allocationScore
BY DEF ScoreOf, allocationScore

ScoreNames == {"unknownNUMA", "numaNodes", "sidGroups", "unknownPCI",
               "separateRoots", "maxDistance", "totalDistance"}

\* Scores with other values in the fields that lowerBound sets.
WithPrefix(q, n, g, u, r) == [q EXCEPT !.sidGroups = g, !.unknownNUMA = n, !.unknownPCI = u, !.separateRoots = r]
WithDistances(q, d, h) == [q EXCEPT !.totalDistance = d, !.maxDistance = h]
WithFarthest(q, h) == [q EXCEPT !.maxDistance = h]
WithPlacement(q, r, d, h) == [q EXCEPT !.separateRoots = r, !.totalDistance = d, !.maxDistance = h]

LEMMA ScoreExcept ==
    ASSUME NEW q \in allocationScore, NEW n, NEW g, NEW u, NEW r, NEW h, NEW d
    PROVE  /\ WithPrefix(q, n, g, u, r)
                = ScoreOf(n, q.numaNodes, g, u, r, q.maxDistance, q.totalDistance)
           /\ WithDistances(q, d, h)
                = ScoreOf(q.unknownNUMA, q.numaNodes, q.sidGroups, q.unknownPCI, q.separateRoots, h, d)
           /\ WithFarthest(q, h)
                = ScoreOf(q.unknownNUMA, q.numaNodes, q.sidGroups, q.unknownPCI, q.separateRoots, h, q.totalDistance)
           /\ WithPlacement(q, r, d, h)
                = ScoreOf(q.unknownNUMA, q.numaNodes, q.sidGroups, q.unknownPCI, r, h, d)
<1>1. DOMAIN q = ScoreNames /\ q = [x \in ScoreNames |-> q[x]]
  BY DEF allocationScore, ScoreNames
<1>2. ASSUME NEW p, NEW w, DOMAIN p = ScoreNames, p = [x \in ScoreNames |-> p[x]], DOMAIN w = ScoreNames,
             w = [x \in ScoreNames |-> w[x]],
             p.unknownNUMA = w.unknownNUMA, p.numaNodes = w.numaNodes, p.sidGroups = w.sidGroups,
             p.unknownPCI = w.unknownPCI, p.separateRoots = w.separateRoots, p.maxDistance = w.maxDistance,
             p.totalDistance = w.totalDistance
      PROVE  p = w
  <2>1. \A x \in ScoreNames : p[x] = w[x]
    BY <1>2 DEF ScoreNames
  <2> QED BY <1>2, <2>1
<1>3. \A y1, y2, y3, y4, y5, y6, y7 :
        LET w == ScoreOf(y1, y2, y3, y4, y5, y6, y7)
        IN  DOMAIN w = ScoreNames /\ w = [x \in ScoreNames |-> w[x]]
  BY DEF ScoreOf, ScoreNames
<1>4. [q EXCEPT !.sidGroups = g, !.unknownNUMA = n, !.unknownPCI = u, !.separateRoots = r]
                = ScoreOf(n, q.numaNodes, g, u, r, q.maxDistance, q.totalDistance)
  <2> DEFINE p == [q EXCEPT !.sidGroups = g, !.unknownNUMA = n, !.unknownPCI = u, !.separateRoots = r]
  <2>1. DOMAIN p = ScoreNames /\ p = [x \in ScoreNames |-> p[x]]
    BY <1>1
  <2>2. /\ p.unknownNUMA = n /\ p.numaNodes = q.numaNodes /\ p.sidGroups = g /\ p.unknownPCI = u
        /\ p.separateRoots = r /\ p.maxDistance = q.maxDistance /\ p.totalDistance = q.totalDistance
    BY <1>1 DEF ScoreNames
  <2> HIDE DEF p
  <2>3. p = ScoreOf(n, q.numaNodes, g, u, r, q.maxDistance, q.totalDistance)
    BY <1>2, <1>3, <2>1, <2>2, ScoreOfFields
  <2> QED BY <2>3 DEF p
<1>5. [q EXCEPT !.totalDistance = d, !.maxDistance = h]
                = ScoreOf(q.unknownNUMA, q.numaNodes, q.sidGroups, q.unknownPCI, q.separateRoots, h, d)
  <2> DEFINE p == [q EXCEPT !.totalDistance = d, !.maxDistance = h]
  <2>1. DOMAIN p = ScoreNames /\ p = [x \in ScoreNames |-> p[x]]
    BY <1>1
  <2>2. /\ p.unknownNUMA = q.unknownNUMA /\ p.numaNodes = q.numaNodes /\ p.sidGroups = q.sidGroups
        /\ p.unknownPCI = q.unknownPCI
        /\ p.separateRoots = q.separateRoots /\ p.maxDistance = h /\ p.totalDistance = d
    BY <1>1 DEF ScoreNames
  <2> HIDE DEF p
  <2>3. p = ScoreOf(q.unknownNUMA, q.numaNodes, q.sidGroups, q.unknownPCI, q.separateRoots, h, d)
    BY <1>2, <1>3, <2>1, <2>2, ScoreOfFields
  <2> QED BY <2>3 DEF p
<1>6. [q EXCEPT !.maxDistance = h]
                = ScoreOf(q.unknownNUMA, q.numaNodes, q.sidGroups, q.unknownPCI, q.separateRoots, h, q.totalDistance)
  <2> DEFINE p == [q EXCEPT !.maxDistance = h]
  <2>1. DOMAIN p = ScoreNames /\ p = [x \in ScoreNames |-> p[x]]
    BY <1>1
  <2>2. /\ p.unknownNUMA = q.unknownNUMA /\ p.numaNodes = q.numaNodes /\ p.sidGroups = q.sidGroups
        /\ p.unknownPCI = q.unknownPCI
        /\ p.separateRoots = q.separateRoots /\ p.maxDistance = h /\ p.totalDistance = q.totalDistance
    BY <1>1 DEF ScoreNames
  <2> HIDE DEF p
  <2>3. p = ScoreOf(q.unknownNUMA, q.numaNodes, q.sidGroups, q.unknownPCI, q.separateRoots, h, q.totalDistance)
    BY <1>2, <1>3, <2>1, <2>2, ScoreOfFields
  <2> QED BY <2>3 DEF p
<1>7. [q EXCEPT !.separateRoots = r, !.totalDistance = d, !.maxDistance = h]
                = ScoreOf(q.unknownNUMA, q.numaNodes, q.sidGroups, q.unknownPCI, r, h, d)
  <2> DEFINE p == [q EXCEPT !.separateRoots = r, !.totalDistance = d, !.maxDistance = h]
  <2>1. DOMAIN p = ScoreNames /\ p = [x \in ScoreNames |-> p[x]]
    BY <1>1
  <2>2. /\ p.unknownNUMA = q.unknownNUMA /\ p.numaNodes = q.numaNodes /\ p.sidGroups = q.sidGroups
        /\ p.unknownPCI = q.unknownPCI
        /\ p.separateRoots = r /\ p.maxDistance = h /\ p.totalDistance = d
    BY <1>1 DEF ScoreNames
  <2> HIDE DEF p
  <2>3. p = ScoreOf(q.unknownNUMA, q.numaNodes, q.sidGroups, q.unknownPCI, r, h, d)
    BY <1>2, <1>3, <2>1, <2>2, ScoreOfFields
  <2> QED BY <2>3 DEF p
<1> QED
  BY <1>4, <1>5, <1>6, <1>7, Zenon DEF WithPrefix, WithDistances, WithFarthest, WithPlacement

\* What prepareBounds computes.
AllDistances(al) ==
    LET all == DOMAIN al.path
    IN  {al.pairs[p[1]][p[2]] : p \in {q \in all \X all : q[1] < q[2]}}
LeastDistance(al) ==
    LET known == {p \in AllDistances(al) : p.known}
    IN  IF known = {} THEN 0 ELSE Min({p.hops : p \in known})
LeastSeparate(al) == One(\A p \in AllDistances(al) : p.separateRoots)

\* The minima of a search are those of its allocator, whatever was chosen and
\* undone since.
MinimaInv ==
    pc \in {"must", "enter", "loop"} =>
        s.minDistance = LeastDistance(a) /\ s.minSeparateRoots = LeastSeparate(a)

LEMMA LeastFacts ==
    ASSUME NEW t \in Seq(Device), NEW avail \in SUBSET DOMAIN t
    PROVE  LET al == Allocator(t, avail)
           IN  /\ LeastDistance(al) \in Nat
               /\ \A p \in Linked(t, avail) : LeastDistance(al) <= HopsOf(t, p)
               /\ LeastSeparate(al) \in {0, 1}
               /\ LeastSeparate(al) = 1 => \A d, e \in avail : d < e => Between(t, d, e).separateRoots
<1> DEFINE al == Allocator(t, avail)
           D == AllDistances(al)
           known == {p \in D : p.known}
           H == {p.hops : p \in known}
<1>1. DOMAIN al.path = avail
  BY DEF Allocator
<1>2. \A d, e \in avail : al.pairs[d][e] = Between(t, d, e)
  BY AllocatorFacts
<1> HIDE DEF al
<1>3. \A d, e \in avail : d < e => Between(t, d, e) \in D
  <2>1. SUFFICES ASSUME NEW d \in avail, NEW e \in avail, d < e PROVE Between(t, d, e) \in D
    OBVIOUS
  <2> DEFINE p == <<d, e>>
  <2>2. p \in (DOMAIN al.path) \X (DOMAIN al.path) /\ p[1] = d /\ p[2] = e /\ p[1] < p[2]
    BY <1>1, <2>1
  <2>3. al.pairs[p[1]][p[2]] \in D
    <3> HIDE DEF p
    <3> QED BY <2>2 DEF AllDistances
  <2> QED BY <1>2, <2>2, <2>3
<1>4. \A x \in D : \E d, e \in avail : d < e /\ x = Between(t, d, e)
  <2>1. SUFFICES ASSUME NEW x \in D PROVE \E d, e \in avail : d < e /\ x = Between(t, d, e)
    OBVIOUS
  <2>2. PICK p \in (DOMAIN al.path) \X (DOMAIN al.path) : p[1] < p[2] /\ x = al.pairs[p[1]][p[2]]
    BY <2>1 DEF AllDistances
  <2>3. p[1] \in avail /\ p[2] \in avail
    BY <1>1, <2>2
  <2> QED BY <1>2, <2>2, <2>3
<1> HIDE DEF D
<1>5. H \subseteq Nat
  <2>1. \A d, e \in avail : Between(t, d, e).hops \in Nat
    BY BetweenIs
  <2> QED BY <1>4, <2>1
<1>6. LeastDistance(al) = IF known = {} THEN 0 ELSE Min(H)
  BY DEF LeastDistance, D
<1>7. \A p \in Linked(t, avail) : HopsOf(t, p) \in H
  <2>1. SUFFICES ASSUME NEW p \in Linked(t, avail) PROVE HopsOf(t, p) \in H
    OBVIOUS
  <2>2. p[1] \in avail /\ p[2] \in avail /\ p[1] < p[2] /\ Path(t, p[1]) # NoPath /\ Path(t, p[2]) # NoPath
        /\ Path(t, p[1])[1] = Path(t, p[2])[1]
    BY DEF Linked, Pairs, Known
  <2> DEFINE x == Between(t, p[1], p[2])
  <2>3. x.known /\ x.hops = HopsOf(t, p)
    BY <2>2, BetweenIs DEF HopsOf
  <2>4. x \in D
    BY <1>3, <2>2
  <2> HIDE DEF x
  <2> QED BY <2>3, <2>4
<1>8. H # {} <=> known # {}
  OBVIOUS
<1> HIDE DEF H, known
<1>9. ASSUME H # {} PROVE Min(H) \in H /\ \A x \in H : Min(H) <= x
  BY ONLY <1>5, <1>9, MinNat
<1>10. LeastDistance(al) \in Nat
  <2>1. CASE known = {}
    BY <1>6, <2>1
  <2>2. CASE known # {}
    BY <1>5, <1>6, <1>8, <1>9, <2>2
  <2> QED BY <2>1, <2>2
<1>11. \A p \in Linked(t, avail) : LeastDistance(al) <= HopsOf(t, p)
  <2>1. SUFFICES ASSUME NEW p \in Linked(t, avail) PROVE LeastDistance(al) <= HopsOf(t, p)
    OBVIOUS
  <2>2. HopsOf(t, p) \in H
    BY <1>7
  <2>3. H # {} /\ known # {}
    BY <1>8, <2>2
  <2> QED BY <1>6, <1>9, <2>2, <2>3
<1>12. LeastSeparate(al) \in {0, 1} /\ (LeastSeparate(al) = 1 => \A x \in D : x.separateRoots)
  BY DEF LeastSeparate, One, D
<1> QED
  BY <1>3, <1>10, <1>11, <1>12 DEF al

LEMMA ReturnMinima ==
    ASSUME MinimaInv, NEW t, Fields(t), Return(t), pc \in {"enter", "loop"},
           t.minDistance = s.minDistance, t.minSeparateRoots = s.minSeparateRoots
    PROVE  MinimaInv'
<1>1. CASE frames = <<>>
  BY <1>1 DEF Return, Respond, MinimaInv
<1>2. CASE frames # <<>>
  <2>1. pc' = "loop" /\ s' = undo(t, Last(frames).previous) /\ a' = a
    BY <1>2 DEF Return
  <2>2. s'.minDistance = t.minDistance /\ s'.minSeparateRoots = t.minSeparateRoots
    BY <2>1, UndoFields
  <2> QED BY <2>1, <2>2 DEF MinimaInv
<1> QED
  BY <1>1, <1>2

LEMMA AddMinima ==
    ASSUME SearchInv, MinimaInv, AddMandatory \/ Choose
    PROVE  MinimaInv'
<1>1. /\ pc \in {"must", "enter", "loop"} /\ a' = a
      /\ \E d : s' = add(a, s, d)
  BY DEF AddMandatory, Choose
<1>2. PICK d : s' = add(a, s, d)
  BY <1>1
<1>3. Fields(s)
  BY <1>1 DEF SearchInv, Searching, Consistent
<1>4. s'.minDistance = s.minDistance /\ s'.minSeparateRoots = s.minSeparateRoots
  BY <1>2, <1>3, AddFields
<1> QED
  BY <1>1, <1>4 DEF MinimaInv

LEMMA LeafMinima ==
    ASSUME SearchInv, MinimaInv, Leaf
    PROVE  MinimaInv'
<1> DEFINE t == IF s.best = <<>> \/ less(s.score, s.bestScore) THEN WithBest(s, s.chosen, s.score) ELSE s
<1>1. pc = "enter" /\ Return(t)
  BY Zenon DEF Leaf, WithBest
<1>2. Consistent(devices, Available, s)
  BY <1>1 DEF SearchInv, Searching
<1>3. Fields(t) /\ t.minDistance = s.minDistance /\ t.minSeparateRoots = s.minSeparateRoots
  <2>1. CASE s.best = <<>> \/ less(s.score, s.bestScore)
    <3>1. t = WithBest(s, s.chosen, s.score)
      BY <2>1
    <3> HIDE DEF t
    <3>2. /\ Consistent(devices, Available, t)
          /\ t.minDistance = s.minDistance /\ t.minSeparateRoots = s.minSeparateRoots
      BY <1>2, <3>1, WithBestConsistent
    <3> QED BY <3>2 DEF Consistent
  <2>2. CASE ~(s.best = <<>> \/ less(s.score, s.bestScore))
    BY <1>2, <2>2 DEF Consistent
  <2> QED BY <2>1, <2>2
<1> HIDE DEF t
<1> QED
  BY <1>1, <1>3, ReturnMinima

LEMMA MinimaInvariance == Spec => []MinimaInv
<1>1. Init => MinimaInv
  BY DEF Init, MinimaInv
<1>2. SearchInv /\ MinimaInv /\ [Next]_vars => MinimaInv'
  <2>1. SUFFICES ASSUME SearchInv, MinimaInv, [Next]_vars PROVE MinimaInv'
    OBVIOUS
  <2>2. CASE Fallback \/ NoChoice
    BY <2>2 DEF Fallback, NoChoice, Respond, MinimaInv
  <2>3. CASE SelectDevices
    <3>1. s' = NewSearch(a')
      BY <2>3 DEF SelectDevices
    <3>2. \A al : NewSearch(al).minDistance = LeastDistance(al) /\ NewSearch(al).minSeparateRoots = LeastSeparate(al)
      BY Zenon DEF NewSearch, LeastDistance, LeastSeparate, AllDistances
    <3> QED BY <3>1, <3>2 DEF MinimaInv
  <2>4. CASE AddMandatory \/ Choose
    BY <2>1, <2>4, AddMinima
  <2>5. CASE CallSearch \/ Open
    BY <2>1, <2>5 DEF CallSearch, Open, MinimaInv
  <2>6. CASE Leaf
    BY <2>1, <2>6, LeafMinima
  <2>7. CASE Cut \/ Exhausted
    <3>1. pc \in {"enter", "loop"} /\ Return(s)
      BY <2>7 DEF Cut, Exhausted
    <3>2. Fields(s)
      BY <2>1, <3>1 DEF SearchInv, Searching, Consistent
    <3> QED BY <2>1, <3>1, <3>2, ReturnMinima
  <2>8. CASE Finished \/ UNCHANGED vars
    BY <2>1, <2>8 DEF Finished, vars, MinimaInv
  <2> QED BY <2>1, <2>2, <2>3, <2>4, <2>5, <2>6, <2>7, <2>8 DEF Next
<1> QED
  BY <1>1, <1>2, SearchInvariance, PTL DEF Spec

\* The candidates of a call are not chosen yet.
LEMMA RestIsNew ==
    ASSUME SearchInv, AnswerInv, pc = "enter"
    PROVE  Rest(next) \cap ToSet(s.chosen) = {}
<1>1. Asked /\ Searching /\ Stacked /\ Len(s.candidates) \in Nat
  BY CallFacts
<1>2. next \in 1 .. Len(s.candidates) + 1
  BY DEF SearchInv
<1>3. \A i \in next .. Len(s.candidates) : s.candidates[i] \notin ToSet(s.chosen)
  <2>1. SUFFICES ASSUME NEW i \in next .. Len(s.candidates) PROVE s.candidates[i] \notin ToSet(s.chosen)
    OBVIOUS
  <2>2. i \in 1 .. Len(s.candidates) /\ next \in 1 .. i
    BY <1>1, <1>2
  <2> QED BY <1>1, <2>2, CandidateIsNew
<1> QED
  BY <1>3 DEF Rest

\* R completes the chosen devices C by some of the candidates in rest.
Completing(C, rest, R) ==
    /\ Completion(devices, Available, C, rest, R)
    /\ C = ToSet(s.chosen) /\ rest = Rest(next)
    /\ remaining = Cardinality(R) /\ Len(s.chosen) = Cardinality(C)
    /\ s.score = Score(devices, C)
    /\ s.sidCounts = GroupCounts(devices, Available, C)
    /\ a = Allocator(devices, Available)
    /\ s.minDistance = LeastDistance(a) /\ s.minSeparateRoots = LeastSeparate(a)

LEMMA CompletingIs ==
    ASSUME SearchInv, AnswerInv, MinimaInv, pc = "enter", remaining > 0,
           NEW R \in kSubset(remaining, Rest(next))
    PROVE  Completing(ToSet(s.chosen), Rest(next), R)
<1> DEFINE C == ToSet(s.chosen)
           rest == Rest(next)
<1>1. Asked /\ ~Rejected /\ Searching
  BY CallFacts
<1>2. /\ a = Allocator(devices, Available) /\ s.chosen \in Seq(Available) /\ Distinct(s.chosen)
      /\ s.score = Score(devices, C) /\ s.sidCounts = GroupCounts(devices, Available, C)
  BY <1>1 DEF Searching, Consistent
<1>3. devices \in Seq(Device) /\ Available \in SUBSET DOMAIN devices
  BY <1>1, RequestFacts
<1>4. rest \in SUBSET Available /\ IsFiniteSet(rest) /\ rest \cap C = {}
  BY RestFacts, RestIsNew
<1>5. R \in SUBSET rest /\ Cardinality(R) = remaining
  BY DEF kSubset
<1>6. C \in SUBSET Available /\ Len(s.chosen) = Cardinality(C)
  BY <1>2, LengthIsCardinality DEF Distinct
<1>7. R # {}
  <2>1. Cardinality({}) = 0
    BY FS_EmptySet
  <2> QED BY <1>5, <2>1
<1>8. s.minDistance = LeastDistance(a) /\ s.minSeparateRoots = LeastSeparate(a)
  BY DEF MinimaInv
<1> HIDE DEF C, rest
<1>9. Completion(devices, Available, C, rest, R)
  BY <1>3, <1>4, <1>5, <1>6, <1>7 DEF Completion
<1> QED
  BY <1>2, <1>5, <1>6, <1>8, <1>9 DEF Completing, C, rest

\* A counter is above zero if its group holds a chosen device.
LEMMA GroupIsOpen ==
    ASSUME NEW C, NEW rest, NEW R, Completing(C, rest, R), NEW d \in rest
    PROVE  /\ a.sid[d] = sidKey(devices, d)
           /\ s.sidCounts[sidKey(devices, d)] \in Nat
           /\ s.sidCounts[sidKey(devices, d)] = 0 <=> sidKey(devices, d) \notin {sidKey(devices, e) : e \in C}
<1>1. /\ devices \in Seq(Device) /\ Available \in SUBSET DOMAIN devices /\ d \in Available /\ IsFiniteSet(C)
      /\ a = Allocator(devices, Available) /\ s.sidCounts = GroupCounts(devices, Available, C)
  BY CompletionSizes DEF Completing, Completion
<1> DEFINE k == sidKey(devices, d)
           H == {e \in C : sidKey(devices, e) = k}
<1>2. a.sid[d] = k
  BY <1>1, AllocatorFacts
<1>3. s.sidCounts[k] = Cardinality(H)
  BY <1>1 DEF GroupCounts
<1>4. IsFiniteSet(H) /\ (H = {} <=> k \notin {sidKey(devices, e) : e \in C})
  BY <1>1, FS_Subset
<1> HIDE DEF H, k
<1>5. Cardinality(H) \in Nat /\ (Cardinality(H) = 0 <=> H = {})
  BY <1>4, FS_CardinalityType, FS_EmptySet
<1> QED
  BY <1>2, <1>3, <1>4, <1>5 DEF k

\* NewGroups in the terms of the table.
LEMMA GroupsNeeded ==
    ASSUME NEW C, NEW rest, NEW R, Completing(C, rest, R)
    PROVE  LET g == NewGroups(rest, remaining - Cardinality({d \in rest : s.sidCounts[a.sid[d]] > 0}))
           IN  g \in Nat /\ Score(devices, C).sidGroups + g <= Score(devices, C \cup R).sidGroups
<1> DEFINE held == Keys(devices, C)
           open == Keys(devices, rest) \ held
           need == Cardinality(R) - Cardinality(Holding(devices, rest, held))
<1>1. \A d \in rest : /\ a.sid[d] = sidKey(devices, d) /\ s.sidCounts[sidKey(devices, d)] \in Nat
                      /\ s.sidCounts[sidKey(devices, d)] = 0 <=> sidKey(devices, d) \notin held
  BY GroupIsOpen DEF Keys
<1>2. /\ FewestGroups(devices, rest, open, need) \in Nat
      /\ Score(devices, C).sidGroups + FewestGroups(devices, rest, open, need) <= Score(devices, C \cup R).sidGroups
  <2>1. Completion(devices, Available, C, rest, R)
    BY DEF Completing
  <2> QED BY ONLY <2>1, GroupBound
<1>3. {d \in rest : s.sidCounts[a.sid[d]] > 0} = Holding(devices, rest, held)
  <2>1. \A d \in rest : s.sidCounts[a.sid[d]] > 0 <=> sidKey(devices, d) \in held
    <3> HIDE DEF held
    <3> QED BY <1>1
  <2> HIDE DEF held
  <2> QED BY <2>1 DEF Holding
<1>4. remaining - Cardinality({d \in rest : s.sidCounts[a.sid[d]] > 0}) = need
  BY <1>3 DEF Completing
<1>5. {k \in {a.sid[d] : d \in rest} : s.sidCounts[k] = 0} = open
  <2> HIDE DEF held
  <2> QED BY <1>1 DEF Keys
<1>6. ASSUME NEW H PROVE {d \in rest : a.sid[d] \in H} = Holding(devices, rest, H)
  BY <1>1 DEF Holding
<1>7. NewGroups(rest, need) = FewestGroups(devices, rest, open, need)
  <2> HIDE DEF need, held
  <2>1. NewGroups(rest, need) =
          Min({Cardinality(G) : G \in {H \in SUBSET open : Cardinality({d \in rest : a.sid[d] \in H}) >= need}})
    BY <1>5 DEF NewGroups
  <2>2. {H \in SUBSET open : Cardinality({d \in rest : a.sid[d] \in H}) >= need}
          = {H \in SUBSET open : Cardinality(Holding(devices, rest, H)) >= need}
    <3> HIDE DEF open
    <3> QED BY <1>6
  <2> QED BY <2>1, <2>2 DEF FewestGroups
<1> HIDE DEF need, open
<1> QED
  BY <1>2, <1>4, <1>7

\* What a completion has in common with the chosen devices, as facts on numbers.
LEMMA CompletingFacts ==
    ASSUME NEW C, NEW rest, NEW R, Completing(C, rest, R)
    PROVE  /\ Completion(devices, Available, C, rest, R)
           /\ devices \in Seq(Device) /\ Available \in SUBSET DOMAIN devices
           /\ C \in SUBSET Available /\ rest \in SUBSET Available /\ C \cup R \in SUBSET Available
           /\ Score(devices, C) \in allocationScore /\ Score(devices, C \cup R) \in allocationScore
           /\ s.score = Score(devices, C)
           /\ Cardinality(C) \in Nat /\ Cardinality(R) \in Nat
           /\ Cardinality(C \cup R) = Cardinality(C) + Cardinality(R)
           /\ a = Allocator(devices, Available)
<1>1. /\ Completion(devices, Available, C, rest, R) /\ s.score = Score(devices, C)
      /\ a = Allocator(devices, Available)
  BY DEF Completing
<1>2. /\ devices \in Seq(Device) /\ Available \in SUBSET DOMAIN devices
      /\ C \in SUBSET Available /\ rest \in SUBSET Available /\ C \cup R \in SUBSET Available
  BY <1>1 DEF Completion
<1>3. /\ Cardinality(C) \in Nat /\ Cardinality(R) \in Nat
      /\ Cardinality(C \cup R) = Cardinality(C) + Cardinality(R)
  <2>1. Completion(devices, Available, C, rest, R)
    BY <1>1
  <2>2. Cardinality(C) \in Nat /\ Cardinality(R) \in Nat
    BY ONLY <2>1, CompletionSizes
  <2>3. Cardinality(C \cup R) = Cardinality(C) + Cardinality(R)
    BY ONLY <2>1, CompletionSizes
  <2> QED BY <2>2, <2>3
<1>4. C \in SUBSET DOMAIN devices /\ C \cup R \in SUBSET DOMAIN devices
  BY <1>2
<1>5. Score(devices, C) \in allocationScore /\ Score(devices, C \cup R) \in allocationScore
  BY <1>2, <1>4, ScoreType
<1> QED
  BY <1>1, <1>2, <1>3, <1>5

\* The devices without a node and without a path, in the terms of the table.
LEMMA UnknownNeeded ==
    ASSUME NEW C, NEW rest, NEW R, Completing(C, rest, R)
    PROVE  LET n == Max({0, remaining - Cardinality({d \in rest : a.numa[d] >= 0})})
               p == Max({0, remaining - Cardinality({d \in rest : a.path[d] # NoPath})})
           IN  /\ n \in Nat /\ p \in Nat /\ p <= Cardinality(R)
               /\ Score(devices, C).unknownNUMA + n <= Score(devices, C \cup R).unknownNUMA
               /\ Score(devices, C).unknownPCI + p <= Score(devices, C \cup R).unknownPCI
<1>1. /\ Completion(devices, Available, C, rest, R) /\ a = Allocator(devices, Available)
      /\ devices \in Seq(Device) /\ Available \in SUBSET DOMAIN devices /\ rest \in SUBSET Available
  BY CompletingFacts
<1>2. \A d \in rest : a.numa[d] = devices[d].numa /\ a.path[d] = Path(devices, d)
  BY <1>1, AllocatorFacts
<1>3. {d \in rest : a.numa[d] >= 0} = Homed(devices, rest) /\ {d \in rest : a.path[d] # NoPath} = Known(devices, rest)
  BY <1>2 DEF Homed, Known
<1>4. remaining = Cardinality(R)
  BY DEF Completing
<1> QED
  BY <1>1, <1>3, <1>4, UnknownBound

\* The part of the bound that needs no PCI tree.
LEMMA PrefixAdmissible ==
    ASSUME NEW C, NEW rest, NEW R, Completing(C, rest, R)
    PROVE  LET b == PrefixBound(next, remaining)
               y == Score(devices, C)
               x == Score(devices, C \cup R)
           IN  /\ b \in allocationScore
               /\ b.unknownNUMA <= x.unknownNUMA /\ b.numaNodes <= x.numaNodes
               /\ b.sidGroups <= x.sidGroups /\ b.unknownPCI <= x.unknownPCI
               /\ b.separateRoots <= x.separateRoots
               /\ b.unknownPCI <= y.unknownPCI + Cardinality(R)
               /\ b.maxDistance = y.maxDistance /\ b.totalDistance = y.totalDistance
<1> DEFINE b == PrefixBound(next, remaining)
           y == Score(devices, C)
           x == Score(devices, C \cup R)
           n == Max({0, remaining - Cardinality({d \in rest : a.numa[d] >= 0})})
           p == Max({0, remaining - Cardinality({d \in rest : a.path[d] # NoPath})})
           g == NewGroups(rest, remaining - Cardinality({d \in rest : s.sidCounts[a.sid[d]] > 0}))
           r == remaining * Len(s.chosen) + Choose2(remaining)
           m == s.minSeparateRoots
<1>1. /\ Completion(devices, Available, C, rest, R) /\ a = Allocator(devices, Available)
      /\ devices \in Seq(Device) /\ Available \in SUBSET DOMAIN devices
      /\ y \in allocationScore /\ x \in allocationScore /\ s.score = y /\ Cardinality(R) \in Nat
  BY CompletingFacts
<1>2. rest = Rest(next) /\ remaining = Cardinality(R) /\ Len(s.chosen) = Cardinality(C)
      /\ m = LeastSeparate(a)
  BY DEF Completing
<1>3. /\ n \in Nat /\ p \in Nat /\ p <= Cardinality(R)
      /\ y.unknownNUMA + n <= x.unknownNUMA /\ y.unknownPCI + p <= x.unknownPCI
  BY UnknownNeeded
<1>4. g \in Nat /\ y.sidGroups + g <= x.sidGroups
  BY GroupsNeeded
<1>5. r \in Nat /\ m \in Nat /\ y.separateRoots + r * m <= x.separateRoots
  <2>1. /\ m \in {0, 1}
        /\ m = 1 => \A d, e \in Available : d < e => Between(devices, d, e).separateRoots
    <3>1. m = LeastSeparate(Allocator(devices, Available))
      BY <1>1, <1>2
    <3> HIDE DEF m
    <3> QED BY <1>1, <3>1, LeastFacts
  <2> HIDE DEF m
  <2>2. r = Cardinality(R) * Cardinality(C) + Choose2(Cardinality(R))
    BY <1>2
  <2>3. /\ Cardinality(R) * Cardinality(C) + Choose2(Cardinality(R)) \in Nat
        /\ y.separateRoots + (Cardinality(R) * Cardinality(C) + Choose2(Cardinality(R))) * m <= x.separateRoots
    BY <1>1, <2>1, SeparateBound
  <2> HIDE DEF r
  <2> QED BY <2>1, <2>2, <2>3
<1>6. y.numaNodes <= x.numaNodes
  BY <1>1, NumaBound
<1>7. b = [s.score EXCEPT !.sidGroups = s.score.sidGroups + g, !.unknownNUMA = s.score.unknownNUMA + n,
                          !.unknownPCI = s.score.unknownPCI + p, !.separateRoots = s.score.separateRoots + r * m]
  BY <1>2, Zenon DEF PrefixBound
<1> HIDE DEF b, x, y, n, p, g, r, m
<1>8. PICK q : q = r * m
  OBVIOUS
<1>9. q \in Nat /\ y.separateRoots + q <= x.separateRoots
  <2>1. \A i, j \in Nat : i * j \in Nat
    OBVIOUS
  <2> QED BY ONLY <1>5, <1>8, <2>1
<1>10. b = ScoreOf(y.unknownNUMA + n, y.numaNodes, y.sidGroups + g, y.unknownPCI + p,
                   y.separateRoots + q, y.maxDistance, y.totalDistance)
  <2>1. b = WithPrefix(y, y.unknownNUMA + n, y.sidGroups + g, y.unknownPCI + p, y.separateRoots + q)
    BY <1>1, <1>7, <1>8, Zenon DEF WithPrefix
  <2> QED BY ONLY <1>1, <2>1, ScoreExcept
<1>11. /\ y.unknownNUMA \in Nat /\ y.numaNodes \in Nat /\ y.sidGroups \in Nat /\ y.unknownPCI \in Nat
       /\ y.separateRoots \in Nat /\ y.maxDistance \in Nat /\ y.totalDistance \in Nat
  BY <1>1 DEF allocationScore
<1>12. /\ y.unknownNUMA + n \in Nat /\ y.sidGroups + g \in Nat /\ y.unknownPCI + p \in Nat
       /\ y.separateRoots + q \in Nat /\ y.unknownPCI + p <= y.unknownPCI + Cardinality(R)
  <2>1. \A i, j \in Nat : i + j \in Nat
    OBVIOUS
  <2>2. \A i, j, k \in Nat : j <= k => i + j <= i + k
    OBVIOUS
  <2> QED BY ONLY <1>1, <1>3, <1>4, <1>9, <1>11, <2>1, <2>2
<1>13. /\ b.unknownNUMA = y.unknownNUMA + n /\ b.numaNodes = y.numaNodes /\ b.sidGroups = y.sidGroups + g
       /\ b.unknownPCI = y.unknownPCI + p /\ b.separateRoots = y.separateRoots + q
       /\ b.maxDistance = y.maxDistance /\ b.totalDistance = y.totalDistance
       /\ b \in allocationScore
  BY ONLY <1>10, <1>11, <1>12, ScoreOfFields
<1>14. /\ b.unknownNUMA <= x.unknownNUMA /\ b.numaNodes <= x.numaNodes
       /\ b.sidGroups <= x.sidGroups /\ b.unknownPCI <= x.unknownPCI
       /\ b.separateRoots <= x.separateRoots
       /\ b.unknownPCI <= y.unknownPCI + Cardinality(R)
  BY ONLY <1>3, <1>4, <1>6, <1>9, <1>12, <1>13
<1> QED
  BY <1>13, <1>14 DEF b, x, y

\* The three bounds that lowerBound returns, from the fields b that need no PCI
\* tree, and from k, the devices with a path in the end.
Floor(x, connected) == IF connected THEN Max({x, s.minDistance}) ELSE x
LinksNow == Choose2(Len(s.chosen) - s.score.unknownPCI) - s.score.separateRoots
LinksFinally(b, k) == Choose2(k) - b.separateRoots
CheapBound(b, k) ==
    WithDistances(b, b.totalDistance + Max({0, LinksFinally(b, k) - LinksNow}) * s.minDistance,
                  Floor(b.maxDistance, LinksFinally(b, k) > 0))
FarBound(b) == WithFarthest(b, Max({b.maxDistance, WorstLink(Rest(next), remaining)}))
PlacementBound(k) ==
    pciLowerBound(a.path, k, {d \in ToSet(s.chosen) : a.path[d] # NoPath}, {d \in Rest(next) : a.path[d] # NoPath})
TreeBound(b, k) ==
    WithPlacement(FarBound(b), PlacementBound(k).separateRoots, PlacementBound(k).totalDistance,
                  Floor(FarBound(b).maxDistance, Choose2(k) > PlacementBound(k).separateRoots))
KnownFinally(b) == Len(s.chosen) + remaining - b.unknownPCI

LEMMA LowerBoundIs ==
    LET b == PrefixBound(next, remaining)
        k == KnownFinally(b)
    IN  lowerBound(next, remaining) \in {CheapBound(b, k), FarBound(b), TreeBound(b, k)}
<1> DEFINE b == PrefixBound(next, remaining)
           k == KnownFinally(b)
<1>1. lowerBound(next, remaining) =
        IF ~less(CheapBound(b, k), s.bestScore) \/ LessUpTo(4, b, s.bestScore) THEN CheapBound(b, k)
        ELSE IF ~less(FarBound(b), s.bestScore) THEN FarBound(b) ELSE TreeBound(b, k)
  BY Zenon DEF lowerBound, CheapBound, FarBound, TreeBound, PlacementBound, Floor, LinksNow, LinksFinally,
               KnownFinally, WithDistances, WithFarthest, WithPlacement
<1> HIDE DEF b, k
<1> QED
  BY <1>1 DEF b, k

\* minDistance is a number, and no two devices with a path are nearer.
LEMMA MinDistanceIs ==
    ASSUME NEW C, NEW rest, NEW R, Completing(C, rest, R)
    PROVE  s.minDistance \in Nat /\ \A p \in Linked(devices, Available) : s.minDistance <= HopsOf(devices, p)
<1>1. /\ devices \in Seq(Device) /\ Available \in SUBSET DOMAIN devices
      /\ a = Allocator(devices, Available)
  BY CompletingFacts
<1>2. s.minDistance = LeastDistance(Allocator(devices, Available))
  BY <1>1 DEF Completing
<1> QED
  BY <1>1, <1>2, LeastFacts

\* The links of the chosen devices, and those of a completion.
LEMMA LinksOf ==
    ASSUME NEW C, NEW rest, NEW R, Completing(C, rest, R)
    PROVE  LET y == Score(devices, C)
               x == Score(devices, C \cup R)
           IN  /\ Cardinality(C) - y.unknownPCI \in Nat
               /\ LinksNow = Cardinality(Linked(devices, C)) /\ LinksNow \in Nat
               /\ Cardinality(C \cup R) - x.unknownPCI = Cardinality(Known(devices, C \cup R))
               /\ Cardinality(C \cup R) - x.unknownPCI \in Nat
               /\ Choose2(Cardinality(C \cup R) - x.unknownPCI) \in Nat
               /\ Choose2(Cardinality(C \cup R) - x.unknownPCI) - x.separateRoots
                    = Cardinality(Linked(devices, C \cup R))
               /\ Cardinality(Linked(devices, C \cup R)) \in Nat
<1> DEFINE S == C \cup R
<1>1. /\ devices \in Seq(Device) /\ C \in SUBSET DOMAIN devices /\ S \in SUBSET DOMAIN devices
      /\ s.score = Score(devices, C)
  BY CompletingFacts
<1>2. Len(s.chosen) = Cardinality(C)
  BY DEF Completing
<1>3. /\ Cardinality(C) - Score(devices, C).unknownPCI \in Nat
      /\ Cardinality(Linked(devices, C)) \in Nat
      /\ Cardinality(Linked(devices, C)) =
            Choose2(Cardinality(C) - Score(devices, C).unknownPCI) - Score(devices, C).separateRoots
  BY <1>1, LinkedCount
<1>4. LinksNow = Cardinality(Linked(devices, C))
  BY <1>1, <1>2, <1>3 DEF LinksNow
<1> HIDE DEF S
<1>5. /\ Cardinality(S) - Score(devices, S).unknownPCI = Cardinality(Known(devices, S))
      /\ Cardinality(S) - Score(devices, S).unknownPCI \in Nat
      /\ Choose2(Cardinality(S) - Score(devices, S).unknownPCI) \in Nat
      /\ Cardinality(Linked(devices, S)) =
            Choose2(Cardinality(S) - Score(devices, S).unknownPCI) - Score(devices, S).separateRoots
      /\ Cardinality(Linked(devices, S)) \in Nat
  BY <1>1, LinkedCount
<1> QED
  BY <1>3, <1>4, <1>5 DEF S

\* The number of devices with a path in the end, as far as the bound knows it.
LEMMA KnownFinallyIs ==
    ASSUME NEW C, NEW rest, NEW R, Completing(C, rest, R)
    PROVE  LET b == PrefixBound(next, remaining)
               x == Score(devices, C \cup R)
           IN  /\ KnownFinally(b) \in Nat /\ Choose2(KnownFinally(b)) \in Nat
               /\ b.unknownPCI = x.unknownPCI => KnownFinally(b) = Cardinality(C \cup R) - x.unknownPCI
<1> DEFINE b == PrefixBound(next, remaining)
           y == Score(devices, C)
           u == b.unknownPCI
<1>1. b \in allocationScore /\ u <= y.unknownPCI + Cardinality(R)
  BY PrefixAdmissible
<1>2. Cardinality(C) - y.unknownPCI \in Nat
  BY LinksOf
<1>3. /\ Cardinality(C) \in Nat /\ Cardinality(R) \in Nat /\ y \in allocationScore
      /\ Cardinality(C \cup R) = Cardinality(C) + Cardinality(R)
  BY CompletingFacts
<1>4. KnownFinally(b) = Cardinality(C) + Cardinality(R) - u
  BY DEF Completing, KnownFinally
<1> HIDE DEF b, y
<1>5. u \in Nat /\ y.unknownPCI \in Nat
  BY <1>1, <1>3 DEF allocationScore
<1> HIDE DEF u
<1>6. KnownFinally(b) \in Nat
  <2>1. \A c, r, i, j \in Nat : i <= j + r /\ c - j \in Nat => c + r - i \in Nat
    OBVIOUS
  <2> QED BY ONLY <1>1, <1>2, <1>3, <1>4, <1>5, <2>1
<1>7. Choose2(KnownFinally(b)) \in Nat
  BY <1>6, Choose2Is
<1>8. KnownFinally(b) = Cardinality(C \cup R) - u
  BY ONLY <1>3, <1>4, <1>5
<1> QED
  BY ONLY <1>6, <1>7, <1>8 DEF b, u

\* The first bound: every link of the completion is at least as long as the
\* shortest there is.
LEMMA CheapAdmissible ==
    ASSUME NEW C, NEW rest, NEW R, Completing(C, rest, R)
    PROVE  LET b == PrefixBound(next, remaining)
               q == CheapBound(b, KnownFinally(b))
           IN  q \in allocationScore /\ NoHigher(q, Score(devices, C \cup R))
<1> DEFINE b == PrefixBound(next, remaining)
           k == KnownFinally(b)
           y == Score(devices, C)
           x == Score(devices, C \cup R)
           m == s.minDistance
           l == LinksFinally(b, k)
           z == Max({0, l - LinksNow})
           h == Floor(b.maxDistance, l > 0)
           q == CheapBound(b, k)
<1>1. /\ b \in allocationScore
      /\ b.unknownNUMA <= x.unknownNUMA /\ b.numaNodes <= x.numaNodes
      /\ b.sidGroups <= x.sidGroups /\ b.unknownPCI <= x.unknownPCI
      /\ b.separateRoots <= x.separateRoots
      /\ b.maxDistance = y.maxDistance /\ b.totalDistance = y.totalDistance
  BY PrefixAdmissible
<1>2. /\ k \in Nat /\ Choose2(k) \in Nat
      /\ b.unknownPCI = x.unknownPCI => k = Cardinality(C \cup R) - x.unknownPCI
  BY KnownFinallyIs
<1>3. /\ LinksNow = Cardinality(Linked(devices, C)) /\ LinksNow \in Nat
      /\ Choose2(Cardinality(C \cup R) - x.unknownPCI) - x.separateRoots = Cardinality(Linked(devices, C \cup R))
      /\ Cardinality(Linked(devices, C \cup R)) \in Nat
  BY LinksOf
<1>4. m \in Nat /\ \A p \in Linked(devices, Available) : m <= HopsOf(devices, p)
  BY MinDistanceIs
<1>5. Completion(devices, Available, C, rest, R) /\ y \in allocationScore /\ x \in allocationScore
  BY CompletingFacts
<1>6. q = ScoreOf(b.unknownNUMA, b.numaNodes, b.sidGroups, b.unknownPCI, b.separateRoots, h, b.totalDistance + z * m)
  <2>1. q = WithDistances(b, b.totalDistance + z * m, h)
    BY Zenon DEF CheapBound
  <2> HIDE DEF b, h, z, m, q
  <2> QED BY ONLY <1>1, <2>1, ScoreExcept
<1>7. l = Choose2(k) - b.separateRoots
  BY DEF LinksFinally
<1> HIDE DEF b, k, m, q, x, y, l
<1>8. /\ b.unknownNUMA \in Nat /\ b.numaNodes \in Nat /\ b.sidGroups \in Nat /\ b.unknownPCI \in Nat
      /\ b.separateRoots \in Nat /\ b.maxDistance \in Nat /\ b.totalDistance \in Nat
  BY <1>1 DEF allocationScore
<1>9. l \in Int /\ l - LinksNow \in Int
  BY <1>2, <1>3, <1>7, <1>8
<1>10. z \in Nat /\ (l - LinksNow \in Nat => z = l - LinksNow)
  <2>1. PICK d : d = l - LinksNow
    OBVIOUS
  <2>2. d \in Int /\ z = Max({0, d})
    BY <1>9, <2>1
  <2> HIDE DEF z
  <2>3. Max({0, d}) \in {0, d} /\ 0 <= Max({0, d}) /\ d <= Max({0, d})
    BY ONLY <2>2, MaxOfTwo
  <2>4. z \in Nat /\ (d \in Nat => z = d)
    BY ONLY <2>2, <2>3
  <2> QED BY ONLY <2>1, <2>4
<1>11. /\ h \in Nat
       /\ \A i \in Nat : b.maxDistance <= i /\ (l > 0 => m <= i) => h <= i
  <2>1. /\ Max({b.maxDistance, m}) \in {b.maxDistance, m} /\ Max({b.maxDistance, m}) \in Int
        /\ \A i \in Int : b.maxDistance <= i /\ m <= i => Max({b.maxDistance, m}) <= i
    <3>1. b.maxDistance \in Int /\ m \in Int
      BY <1>4, <1>8
    <3> QED BY ONLY <3>1, MaxOfTwo
  <2>2. h = IF l > 0 THEN Max({b.maxDistance, m}) ELSE b.maxDistance
    BY DEF Floor, m
  <2> HIDE DEF h
  <2> QED BY <1>4, <1>8, <2>1, <2>2
<1> HIDE DEF h, z
<1>12. PICK w : w = z * m
  OBVIOUS
<1>13. w \in Nat
  <2>1. \A i, j \in Nat : i * j \in Nat
    OBVIOUS
  <2> QED BY ONLY <1>4, <1>10, <1>12, <2>1
<1>14. /\ q.unknownNUMA = b.unknownNUMA /\ q.numaNodes = b.numaNodes /\ q.sidGroups = b.sidGroups
       /\ q.unknownPCI = b.unknownPCI /\ q.separateRoots = b.separateRoots
       /\ q.maxDistance = h /\ q.totalDistance = b.totalDistance + w
       /\ q \in allocationScore
  <2>1. b.totalDistance + w \in Nat
    BY <1>8, <1>13
  <2>2. q = ScoreOf(b.unknownNUMA, b.numaNodes, b.sidGroups, b.unknownPCI, b.separateRoots, h, b.totalDistance + w)
    BY <1>6, <1>12
  <2> QED BY ONLY <1>8, <1>11, <2>1, <2>2, ScoreOfFields
<1>15. ASSUME q.unknownPCI = x.unknownPCI, q.separateRoots = x.separateRoots
       PROVE  q.maxDistance <= x.maxDistance /\ q.totalDistance <= x.totalDistance
  <2>1. l = Cardinality(Linked(devices, C \cup R))
    BY <1>2, <1>3, <1>7, <1>14, <1>15
  <2>2. /\ l - LinksNow \in Nat /\ y.totalDistance + (l - LinksNow) * m <= x.totalDistance
    <3>1. LET n == Cardinality(Linked(devices, C \cup R)) - Cardinality(Linked(devices, C))
          IN  n \in Nat /\ Score(devices, C).totalDistance + n * m <= Score(devices, C \cup R).totalDistance
      BY ONLY <1>4, <1>5, TotalBound
    <3> QED BY <1>3, <2>1, <3>1 DEF x, y
  <2>3. q.totalDistance <= x.totalDistance
    <3>1. z = l - LinksNow
      BY <1>10, <2>2
    <3> QED BY <1>1, <1>12, <1>14, <2>2, <3>1
  <2>4. /\ x.maxDistance \in Nat /\ y.maxDistance <= x.maxDistance
        /\ Linked(devices, C \cup R) # {} => m <= x.maxDistance
    BY ONLY <1>4, <1>5, MaxBound DEF x, y
  <2>5. l > 0 => Linked(devices, C \cup R) # {}
    BY <2>1, FS_EmptySet
  <2>6. h <= x.maxDistance
    BY <1>1, <1>11, <2>4, <2>5
  <2> QED BY <1>14, <2>3, <2>6
<1>16. NoHigher(q, x)
  BY <1>1, <1>14, <1>15 DEF NoHigher
<1> QED
  BY <1>14, <1>16 DEF b, k, q, x

\* WorstLink in the terms of the table.
LEMMA WorstLinkIs ==
    ASSUME NEW C, NEW rest, NEW R, Completing(C, rest, R)
    PROVE  LET w == WorstLink(Rest(next), remaining)
           IN  w \in Nat /\ w <= Score(devices, C \cup R).maxDistance
<1> DEFINE n == Cardinality(R)
           worst(d) == Max({0} \cup {a.pairs[d][e].hops : e \in C})
<1>1. /\ Completion(devices, Available, C, rest, R) /\ a = Allocator(devices, Available)
      /\ devices \in Seq(Device) /\ Available \in SUBSET DOMAIN devices
      /\ C \in SUBSET Available /\ rest \in SUBSET Available
  BY CompletingFacts
<1>2. C = ToSet(s.chosen) /\ rest = Rest(next) /\ remaining = n
  BY DEF Completing
<1>3. \A d \in rest : \A e \in C : a.pairs[d][e] = Between(devices, d, e)
  BY <1>1, AllocatorFacts
<1>4. \A d \in rest : worst(d) = FarFrom(devices, C, d)
  <2>1. SUFFICES ASSUME NEW d \in rest PROVE worst(d) = FarFrom(devices, C, d)
    OBVIOUS
  <2>2. {a.pairs[d][e].hops : e \in C} = {Between(devices, d, e).hops : e \in C}
    BY <1>3
  <2> QED BY <2>2 DEF FarFrom
<1>5. WorstLink(Rest(next), remaining) =
        Min({w \in {worst(d) : d \in rest} : Cardinality({d \in rest : worst(d) <= w}) >= n})
  BY <1>2, Zenon DEF WorstLink
<1> HIDE DEF worst
<1>6. {worst(d) : d \in rest} = {FarFrom(devices, C, d) : d \in rest}
  BY <1>4
<1>7. ASSUME NEW w PROVE {d \in rest : worst(d) <= w} = {d \in rest : FarFrom(devices, C, d) <= w}
  BY <1>4
<1>8. {w \in {worst(d) : d \in rest} : Cardinality({d \in rest : worst(d) <= w}) >= n}
        = {w \in {FarFrom(devices, C, d) : d \in rest} : Cardinality({d \in rest : FarFrom(devices, C, d) <= w}) >= n}
  BY <1>6, <1>7
<1>9. WorstLink(Rest(next), remaining) = LeastFar(devices, C, rest, n)
  BY <1>5, <1>8 DEF LeastFar
<1>10. LeastFar(devices, C, rest, n) \in Nat /\ LeastFar(devices, C, rest, n) <= Score(devices, C \cup R).maxDistance
  <2>1. Completion(devices, Available, C, rest, R)
    BY <1>1
  <2> QED BY ONLY <2>1, WorstBound
<1> QED
  BY <1>9, <1>10

\* The second bound: as many devices are as far from a chosen one.
LEMMA FarAdmissible ==
    ASSUME NEW C, NEW rest, NEW R, Completing(C, rest, R)
    PROVE  LET b == PrefixBound(next, remaining)
               q == FarBound(b)
               x == Score(devices, C \cup R)
           IN  /\ q \in allocationScore /\ NoHigher(q, x)
               /\ q.unknownNUMA <= x.unknownNUMA /\ q.numaNodes <= x.numaNodes
               /\ q.sidGroups <= x.sidGroups /\ q.unknownPCI <= x.unknownPCI
               /\ q.unknownPCI = b.unknownPCI /\ q.maxDistance <= x.maxDistance
<1> DEFINE b == PrefixBound(next, remaining)
           y == Score(devices, C)
           x == Score(devices, C \cup R)
           w == WorstLink(Rest(next), remaining)
           h == Max({b.maxDistance, w})
           q == FarBound(b)
<1>1. /\ b \in allocationScore
      /\ b.unknownNUMA <= x.unknownNUMA /\ b.numaNodes <= x.numaNodes
      /\ b.sidGroups <= x.sidGroups /\ b.unknownPCI <= x.unknownPCI
      /\ b.separateRoots <= x.separateRoots
      /\ b.maxDistance = y.maxDistance /\ b.totalDistance = y.totalDistance
  BY PrefixAdmissible
<1>2. w \in Nat /\ w <= x.maxDistance
  BY WorstLinkIs
<1>3. /\ Completion(devices, Available, C, rest, R) /\ y \in allocationScore /\ x \in allocationScore
      /\ devices \in Seq(Device) /\ C \cup R \in SUBSET DOMAIN devices
  BY CompletingFacts
<1>4. y.totalDistance <= x.totalDistance
  <2>1. C \in SUBSET (C \cup R)
    OBVIOUS
  <2> QED BY ONLY <1>3, <2>1, DistanceMonotone
<1>5. y.maxDistance <= x.maxDistance
  <2>1. s.minDistance \in Nat /\ \A p \in Linked(devices, Available) : s.minDistance <= HopsOf(devices, p)
    BY MinDistanceIs
  <2> QED BY ONLY <1>3, <2>1, MaxBound
<1>6. q = ScoreOf(b.unknownNUMA, b.numaNodes, b.sidGroups, b.unknownPCI, b.separateRoots, h, b.totalDistance)
  <2>1. q = WithFarthest(b, h)
    BY Zenon DEF FarBound
  <2> HIDE DEF b, h, q
  <2> QED BY ONLY <1>1, <2>1, ScoreExcept
<1> HIDE DEF b, w, q, x, y
<1>7. /\ b.unknownNUMA \in Nat /\ b.numaNodes \in Nat /\ b.sidGroups \in Nat /\ b.unknownPCI \in Nat
      /\ b.separateRoots \in Nat /\ b.maxDistance \in Nat /\ b.totalDistance \in Nat /\ x.maxDistance \in Nat
  BY <1>1, <1>3 DEF allocationScore
<1>8. h \in Nat /\ h <= x.maxDistance
  <2>1. b.maxDistance \in Int /\ w \in Int
    BY <1>2, <1>7
  <2>2. h \in {b.maxDistance, w}
    BY ONLY <2>1, MaxOfTwo
  <2> HIDE DEF h
  <2> QED BY <1>1, <1>2, <1>5, <1>7, <2>2
<1> HIDE DEF h
<1>9. /\ q.unknownNUMA = b.unknownNUMA /\ q.numaNodes = b.numaNodes /\ q.sidGroups = b.sidGroups
      /\ q.unknownPCI = b.unknownPCI /\ q.separateRoots = b.separateRoots
      /\ q.maxDistance = h /\ q.totalDistance = b.totalDistance
      /\ q \in allocationScore
  BY ONLY <1>6, <1>7, <1>8, ScoreOfFields
<1>10. NoHigher(q, x)
  BY <1>1, <1>4, <1>8, <1>9 DEF NoHigher
<1> QED
  BY <1>1, <1>8, <1>9, <1>10 DEF b, q, x

\* A completion places its devices in the tree.
LEMMA PlacingIs ==
    ASSUME NEW C, NEW rest, NEW R, Completing(C, rest, R),
           Score(devices, Available).totalDistance < impossiblePCICost
    PROVE  Placing(Endpoints(devices, Available), Cardinality(Known(devices, C \cup R)),
                   Known(devices, C), Known(devices, rest), Known(devices, C \cup R))
<1> DEFINE path == Endpoints(devices, Available)
           P == Known(devices, C \cup R)
<1>1. /\ Completion(devices, Available, C, rest, R)
      /\ devices \in Seq(Device) /\ Available \in SUBSET DOMAIN devices
      /\ C \in SUBSET Available /\ rest \in SUBSET Available /\ C \cup R \in SUBSET Available
  BY CompletingFacts
<1>2. /\ Forest(path) /\ DOMAIN path = Available /\ Available \in SUBSET Nat
      /\ \A d \in Available : path[d] = Path(devices, d)
  BY <1>1, EndpointsFacts
<1> HIDE DEF path
<1>3. R \in SUBSET rest
  BY <1>1 DEF Completion
<1>4. /\ Known(devices, C) \in SUBSET DOMAIN path /\ Known(devices, rest) \in SUBSET DOMAIN path
      /\ \A d \in Known(devices, C) \cup Known(devices, rest) : path[d] # NoPath
      /\ Known(devices, C) \in SUBSET P /\ P \in SUBSET (Known(devices, C) \cup Known(devices, rest))
  BY <1>1, <1>2, <1>3 DEF Known
<1>5. Cardinality(P) \in Nat
  <2>1. Cardinality(C \cup R) - Score(devices, C \cup R).unknownPCI \in Nat
        /\ Cardinality(C \cup R) - Score(devices, C \cup R).unknownPCI = Cardinality(P)
    BY LinksOf
  <2> QED BY <2>1
<1>6. Cardinality(Within(path, P)) < impossiblePCICost
  <2>1. Cardinality(Within(path, P)) = Score(devices, C \cup R).totalDistance
    BY <1>1, WithinIsDistance DEF path
  <2>2. Score(devices, C \cup R).totalDistance <= Score(devices, Available).totalDistance
    BY <1>1, DistanceMonotone
  <2>3. Score(devices, C \cup R).totalDistance \in Nat /\ Score(devices, Available).totalDistance \in Nat
    <3>1. C \cup R \in SUBSET DOMAIN devices
      BY <1>1
    <3>2. Score(devices, C \cup R) \in allocationScore /\ Score(devices, Available) \in allocationScore
      BY <1>1, <3>1, ScoreType
    <3> QED BY <3>2 DEF allocationScore
  <2> QED BY <2>1, <2>2, <2>3, CostAssumption
<1>7. DOMAIN path \subseteq Nat
  BY <1>2
<1> HIDE DEF P
<1> QED
  BY <1>2, <1>4, <1>5, <1>6, <1>7 DEF Placing, path, P

\* pciLowerBound in the terms of the table.
LEMMA PlacementIs ==
    ASSUME NEW C, NEW rest, NEW R, Completing(C, rest, R)
    PROVE  /\ \A k : PlacementBound(k) = pciLowerBound(Endpoints(devices, Available), k,
                                                       Known(devices, C), Known(devices, rest))
           /\ \A k \in Nat : PlacementBound(k) \in Placement
<1> DEFINE path == Endpoints(devices, Available)
<1>1. /\ devices \in Seq(Device) /\ Available \in SUBSET DOMAIN devices
      /\ C \in SUBSET Available /\ rest \in SUBSET Available /\ a = Allocator(devices, Available)
  BY CompletingFacts
<1>2. C = ToSet(s.chosen) /\ rest = Rest(next)
  BY DEF Completing
<1>3. Forest(path) /\ DOMAIN path = Available /\ \A d \in Available : path[d] = Path(devices, d)
  BY <1>1, EndpointsFacts
<1>4. \A d \in Available : a.path[d] = Path(devices, d)
  BY <1>1, AllocatorFacts
<1>5. a.path = path
  <2>1. a.path = [d \in Available |-> pciDeviceAncestors(devices[d].link)]
    BY <1>1 DEF Allocator
  <2>2. \A d \in Available : Path(devices, d) = pciDeviceAncestors(devices[d].link)
    BY <1>1, TableFacts
  <2> QED BY <2>1, <2>2 DEF Endpoints
<1>6. {d \in C : a.path[d] # NoPath} = Known(devices, C) /\ {d \in rest : a.path[d] # NoPath} = Known(devices, rest)
  BY <1>1, <1>4 DEF Known
<1> HIDE DEF path
<1>7. \A k : PlacementBound(k) = pciLowerBound(path, k, Known(devices, C), Known(devices, rest))
  BY <1>2, <1>5, <1>6, Zenon DEF PlacementBound
<1>8. Known(devices, C) \in SUBSET DOMAIN path /\ Known(devices, rest) \in SUBSET DOMAIN path
  BY <1>1, <1>3 DEF Known
<1>9. \A k \in Nat : pciLowerBound(path, k, Known(devices, C), Known(devices, rest)) \in Placement
  BY <1>3, <1>8, LowerBoundType
<1> QED
  BY <1>7, <1>9 DEF path

\* The third bound: the cheapest placement costs no more.
LEMMA TreeAdmissible ==
    ASSUME NEW C, NEW rest, NEW R, Completing(C, rest, R),
           Score(devices, Available).totalDistance < impossiblePCICost
    PROVE  LET b == PrefixBound(next, remaining)
               q == TreeBound(b, KnownFinally(b))
           IN  q \in allocationScore /\ NoHigher(q, Score(devices, C \cup R))
<1> DEFINE b == PrefixBound(next, remaining)
           k == KnownFinally(b)
           f == FarBound(b)
           c == PlacementBound(k)
           x == Score(devices, C \cup R)
           m == s.minDistance
           h == Floor(f.maxDistance, Choose2(k) > c.separateRoots)
           q == TreeBound(b, k)
<1>1. /\ f \in allocationScore
      /\ f.unknownNUMA <= x.unknownNUMA /\ f.numaNodes <= x.numaNodes
      /\ f.sidGroups <= x.sidGroups /\ f.unknownPCI <= x.unknownPCI
      /\ f.unknownPCI = b.unknownPCI /\ f.maxDistance <= x.maxDistance
  BY FarAdmissible
<1>2. /\ k \in Nat /\ Choose2(k) \in Nat
      /\ b.unknownPCI = x.unknownPCI => k = Cardinality(C \cup R) - x.unknownPCI
  BY KnownFinallyIs
<1>3. /\ Cardinality(C \cup R) - x.unknownPCI = Cardinality(Known(devices, C \cup R))
      /\ Choose2(Cardinality(C \cup R) - x.unknownPCI) - x.separateRoots = Cardinality(Linked(devices, C \cup R))
      /\ Cardinality(Linked(devices, C \cup R)) \in Nat
  BY LinksOf
<1>4. m \in Nat /\ \A p \in Linked(devices, Available) : m <= HopsOf(devices, p)
  BY MinDistanceIs
<1>5. Completion(devices, Available, C, rest, R) /\ x \in allocationScore
      /\ devices \in Seq(Device) /\ Available \in SUBSET DOMAIN devices /\ C \cup R \in SUBSET Available
  BY CompletingFacts
<1>6. c \in Placement
  <2> HIDE DEF k
  <2> QED BY <1>2, PlacementIs
<1>7. ASSUME b.unknownPCI = x.unknownPCI
      PROVE  NotAbove(c, x.separateRoots, x.totalDistance)
  <2> DEFINE path == Endpoints(devices, Available)
             P == Known(devices, C \cup R)
  <2>1. k = Cardinality(P)
    BY <1>2, <1>3, <1>7
  <2>2. c = pciLowerBound(path, Cardinality(P), Known(devices, C), Known(devices, rest))
    <3> HIDE DEF k
    <3> QED BY <2>1, PlacementIs
  <2>3. Placing(path, Cardinality(P), Known(devices, C), Known(devices, rest), P)
    BY PlacingIs
  <2>4. Cardinality(Within(path, P)) = x.totalDistance /\ Cross(path, P) = Pairs(devices, C \cup R) \ Linked(devices, C \cup R)
    BY <1>5, WithinIsDistance
  <2>5. x.separateRoots = Cardinality(Pairs(devices, C \cup R) \ Linked(devices, C \cup R))
    BY ScoreParts
  <2> HIDE DEF path, P, x, c
  <2>6. NotAbove(c, Cardinality(Cross(path, P)), Cardinality(Within(path, P)))
    BY <2>2, <2>3, ForestBound
  <2> QED BY <2>4, <2>5, <2>6
<1>8. q = ScoreOf(f.unknownNUMA, f.numaNodes, f.sidGroups, f.unknownPCI, c.separateRoots, h, c.totalDistance)
  <2>1. q = WithPlacement(f, c.separateRoots, c.totalDistance, h)
    BY Zenon DEF TreeBound
  <2> HIDE DEF f, c, h, q
  <2> QED BY ONLY <1>1, <2>1, ScoreExcept
<1>9. h = IF Choose2(k) > c.separateRoots THEN Max({f.maxDistance, m}) ELSE f.maxDistance
  BY Zenon DEF Floor
<1> HIDE DEF b, k, f, c, x, m, h, q
<1>10. /\ f.unknownNUMA \in Nat /\ f.numaNodes \in Nat /\ f.sidGroups \in Nat /\ f.unknownPCI \in Nat
       /\ f.maxDistance \in Nat /\ c.separateRoots \in Nat /\ c.totalDistance \in Nat /\ x.maxDistance \in Nat
       /\ x.separateRoots \in Nat
  BY <1>1, <1>5, <1>6 DEF allocationScore, Placement
<1>11. /\ h \in Nat
       /\ (Choose2(k) > c.separateRoots => m <= x.maxDistance) => h <= x.maxDistance
  <2>1. f.maxDistance \in Int /\ m \in Int
    BY <1>4, <1>10
  <2>2. Max({f.maxDistance, m}) \in {f.maxDistance, m}
    BY ONLY <2>1, MaxOfTwo
  <2> QED BY <1>1, <1>4, <1>9, <1>10, <2>2
<1>12. /\ q.unknownNUMA = f.unknownNUMA /\ q.numaNodes = f.numaNodes /\ q.sidGroups = f.sidGroups
       /\ q.unknownPCI = f.unknownPCI /\ q.separateRoots = c.separateRoots
       /\ q.maxDistance = h /\ q.totalDistance = c.totalDistance
       /\ q \in allocationScore
  BY ONLY <1>8, <1>10, <1>11, ScoreOfFields
<1>13. ASSUME q.unknownPCI = x.unknownPCI
       PROVE  /\ q.separateRoots <= x.separateRoots
              /\ q.separateRoots = x.separateRoots => q.maxDistance <= x.maxDistance /\ q.totalDistance <= x.totalDistance
  <2>1. b.unknownPCI = x.unknownPCI
    BY <1>1, <1>12, <1>13
  <2>2. c.separateRoots < x.separateRoots \/ (c.separateRoots = x.separateRoots /\ c.totalDistance <= x.totalDistance)
    BY <1>7, <2>1 DEF NotAbove
  <2>3. q.separateRoots <= x.separateRoots /\ (q.separateRoots = x.separateRoots => q.totalDistance <= x.totalDistance)
    BY <1>10, <1>12, <2>2
  <2>4. ASSUME c.separateRoots = x.separateRoots, Choose2(k) > c.separateRoots PROVE m <= x.maxDistance
    <3>1. Choose2(k) - x.separateRoots = Cardinality(Linked(devices, C \cup R))
      BY <1>2, <1>3, <2>1
    <3>2. Cardinality(Linked(devices, C \cup R)) # 0
      BY <1>2, <1>10, <2>4, <3>1
    <3>3. Linked(devices, C \cup R) # {}
      BY <3>2, FS_EmptySet
    <3> QED BY ONLY <1>4, <1>5, <3>3, MaxBound DEF x
  <2>5. c.separateRoots = x.separateRoots => h <= x.maxDistance
    BY <1>11, <2>4
  <2> QED BY <1>12, <2>3, <2>5
<1>14. NoHigher(q, x)
  BY <1>1, <1>12, <1>13 DEF NoHigher
<1> QED
  BY <1>12, <1>14 DEF b, k, q, x

\* The table and the request are those of the beginning.
Given == \E p \in Problems : devices = p.devices /\ request = p.request

LEMMA BoundIsAdmissible ==
    ASSUME SearchInv, AnswerInv, MinimaInv, Given
    PROVE  BoundsAdmissible
<1>1. SUFFICES ASSUME pc = "enter", remaining > 0, NEW R \in kSubset(remaining, Rest(next))
               PROVE  /\ lowerBound(next, remaining) \in allocationScore
                      /\ ~less(Score(devices, ToSet(s.chosen) \cup R), lowerBound(next, remaining))
  BY DEF BoundsAdmissible
<1> DEFINE C == ToSet(s.chosen)
           rest == Rest(next)
           b == PrefixBound(next, remaining)
           k == KnownFinally(b)
           x == Score(devices, C \cup R)
           bound == lowerBound(next, remaining)
<1>2. Completing(C, rest, R)
  BY <1>1, CompletingIs
<1>3. Score(devices, Available).totalDistance < impossiblePCICost
  <2>1. Available \subseteq DOMAIN devices
    BY <1>2, CompletingFacts
  <2>2. PICK p \in Problems : devices = p.devices /\ request = p.request
    BY DEF Given
  <2> QED BY <2>1, <2>2, DistancesAssumption DEF Available
<1> HIDE DEF C, rest
<1>4. x \in allocationScore
  BY <1>2, CompletingFacts
<1>5. bound \in {CheapBound(b, k), FarBound(b), TreeBound(b, k)}
  BY LowerBoundIs
<1>6. CheapBound(b, k) \in allocationScore /\ NoHigher(CheapBound(b, k), x)
  BY <1>2, CheapAdmissible
<1>7. FarBound(b) \in allocationScore /\ NoHigher(FarBound(b), x)
  BY <1>2, FarAdmissible
<1>8. TreeBound(b, k) \in allocationScore /\ NoHigher(TreeBound(b, k), x)
  BY <1>2, <1>3, TreeAdmissible
<1> HIDE DEF bound, x, b, k
<1>9. bound \in allocationScore /\ NoHigher(bound, x)
  BY <1>5, <1>6, <1>7, <1>8
<1>10. ~less(x, bound)
  BY <1>4, <1>9, NoHigherIsNotLess
<1> QED
  BY <1>9, <1>10 DEF bound, x, C

\* "Admissible bounds", for every table of devices, every request and every
\* moment of the search: whichever of its three exits lowerBound takes, what it
\* returns is a score, and no completion of the chosen devices scores less.
THEOREM BoundsAreAdmissible == Spec => []BoundsAdmissible
<1>1. Init => Given
  BY DEF Init, Given
<1>2. Given /\ [Next]_vars => Given'
  <2>1. SUFFICES ASSUME Given, [Next]_vars PROVE Given'
    OBVIOUS
  <2>2. devices' = devices /\ request' = request
    BY <2>1 DEF Next, vars, Fallback, NoChoice, SelectDevices, AddMandatory, CallSearch, Leaf, Cut, Open,
                Choose, Exhausted, Finished, Return, Respond
  <2> QED BY <2>1, <2>2 DEF Given
<1>3. SearchInv /\ AnswerInv /\ MinimaInv /\ Given => BoundsAdmissible
  BY BoundIsAdmissible
<1> QED
  BY <1>1, <1>2, <1>3, SearchInvariance, AnswerInvariance, MinimaInvariance, PTL DEF Spec

\* Every step of the search is one of BranchAndBound or none, for every table of
\* devices and every request: a call is skipped only when no completion beats
\* best, the loops leave no completion out, and the record that all calls share
\* hands best on unharmed.
THEOREM SearchRefines == Spec => RefinesBranchAndBound
BY RefinesIfAdmissible, BoundsAreAdmissible, PTL

\* For every table of devices and every request: the devices that
\* selectPreferredDeviceIDs answers with have the least score of all sets of that
\* size with the mandatory devices, and are the first by ID among those.
THEOREM AnswersAreOptimal == Spec => []AnswerOptimal
BY OptimalIfAdmissible, BoundsAreAdmissible, PTL
=============================================================================
