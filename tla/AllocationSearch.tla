-------------------------- MODULE AllocationSearch --------------------------
(***************************************************************************)
(* Preferred allocation (topology_allocator.go): the checks of             *)
(* selectPreferredDeviceIDs on a request of the kubelet and, when there is *)
(* a choice to make, the branch-and-bound search of SelectDevices with its *)
(* incremental score, its undo and its lower bounds.                       *)
(*                                                                         *)
(* Device IDs are numbers in the order of sortedDeviceIDs.  A device is a  *)
(* record: pf, its parent PF (0 for a PF); sid, its serial (0 if unknown); *)
(* numa (-1 if unknown); link, its canonical sysfs path.                   *)
(***************************************************************************)
EXTENDS PciTopology

CONSTANT
    Problems   \* what p.devices and a request of the kubelet may be together

\* The device tables and requests there are.
AnyProblem ==
    [devices : Seq([pf : Nat, sid : Nat, numa : Nat \cup {-1}, link : Seq(Nat)]),
     request : [available : Seq(Nat), must : Seq(Nat), size : Int]]

ASSUME ProblemsAssumption == Problems \subseteq AnyProblem

VARIABLES
    devices,   \* p.devices
    request,   \* available and must, lists of IDs, and size
    pc,        \* "request", "must" (the mandatory devices are being chosen),
               \* "enter" or "loop" of a call of search, or "done"
    a,         \* the topologyAllocator of the request
    s,         \* the allocationSearch: chosen, counters, score, best, bestScore
    frames,    \* for every open call above this one, i and previous of its loop
    next,      \* start, then the loop variable, of this call
    answer     \* the device IDs of the response; <<>> leaves it to the kubelet

vars == <<devices, request, pc, a, s, frames, next, answer>>

Init ==
    /\ \E p \in Problems : devices = p.devices /\ request = p.request
    /\ pc = "request"
    /\ a = <<>> /\ s = <<>> /\ frames = <<>> /\ next = 0 /\ answer = <<>>

-----------------------------------------------------------------------------
(* selectPreferredDeviceIDs *)

\* sortedDeviceIDs
Sorted(S) ==
    LET last == Max(S \cup {0})
        upTo[n \in 0 .. last] ==
            IF n = 0 THEN <<>>
            ELSE IF n \in S THEN Append(upTo[n - 1], n) ELSE upTo[n - 1]
    IN  upTo[last]

Available == ToSet(request.available)

\* availableDevices and validateMustInclude fail, or the size is impossible.
Rejected ==
    \/ request.size < 0
    \/ ~(Available \subseteq DOMAIN devices)
    \/ request.size > Cardinality(Available)
    \/ ~(ToSet(request.must) \subseteq Available)
    \/ Cardinality(ToSet(request.must)) > request.size

\* The first occurrence of every ID, in order.
normalizeMustInclude(must) ==
    LET first == Sorted({i \in DOMAIN must : \A j \in 1 .. i - 1 : must[j] # must[i]})
    IN  [k \in DOMAIN first |-> must[first[k]]]

selected == normalizeMustInclude(request.must)

Respond(ids) ==
    /\ answer' = ids
    /\ pc' = "done"
    /\ UNCHANGED <<devices, request, frames>>

\* An error: GetPreferredAllocation logs it and answers with no IDs.
Fallback ==
    /\ pc = "request"
    /\ Rejected
    /\ Respond(<<>>)
    /\ UNCHANGED <<a, s, next>>

\* Every device of the answer is mandatory, or every available one is needed.
NoChoice ==
    /\ pc = "request"
    /\ ~Rejected
    /\ \/ /\ Len(selected) = request.size
          /\ Respond(selected)
       \/ /\ Len(selected) # request.size
          /\ request.size = Cardinality(Available)
          /\ Respond(selected \o Sorted(Available \ ToSet(selected)))
    /\ UNCHANGED <<a, s, next>>

-----------------------------------------------------------------------------
(* newTopologyAllocator *)

\* VFs are packed by their parent, PFs by a known serial.
sidKey(table, d) ==
    LET v == table[d]
    IN  IF v.pf # 0 THEN <<"pf", v.pf>>
        ELSE IF v.sid # 0 THEN <<"sid", v.sid>>
        ELSE <<"device", d>>

newTopologyAllocator ==
    LET endpoint == [d \in Available |-> pciDeviceAncestors(devices[d].link)]
    IN  [sid |-> [d \in Available |-> sidKey(devices, d)],
         numa |-> [d \in Available |-> devices[d].numa],
         path |-> endpoint,
         pairs |-> [d \in Available |-> [e \in Available |-> distance(endpoint[d], endpoint[e])]]]

-----------------------------------------------------------------------------
(* allocationScore *)

allocationScore ==
    [unknownNUMA : Nat, numaNodes : Nat, sidGroups : Nat, unknownPCI : Nat,
     separateRoots : Nat, maxDistance : Nat, totalDistance : Nat]

Zero == [unknownNUMA |-> 0, numaNodes |-> 0, sidGroups |-> 0, unknownPCI |-> 0,
         separateRoots |-> 0, maxDistance |-> 0, totalDistance |-> 0]

values(x) == <<x.unknownNUMA, x.numaNodes, x.sidGroups, x.unknownPCI,
               x.separateRoots, x.maxDistance, x.totalDistance>>

LessUpTo(n, x, y) ==
    LET v == values(x)
        w == values(y)
    IN  \E i \in 1 .. n : v[i] < w[i] /\ \A j \in 1 .. i - 1 : v[j] = w[j]

less(x, y) == LessUpTo(7, x, y)

One(condition) == IF condition THEN 1 ELSE 0

Sum(f) == SumFunctionOnSet(f, DOMAIN f)

\* allocationSearch.add
add(al, t, d) ==
    LET key == al.sid[d]
        node == al.numa[d]
        chosen == ToSet(t.chosen)
        pair(e) == al.pairs[d][e]
    IN  [t EXCEPT
            !.chosen = Append(t.chosen, d),
            !.sidCounts = [t.sidCounts EXCEPT ![key] = @ + 1],
            !.numaCounts = IF node < 0 THEN t.numaCounts ELSE [t.numaCounts EXCEPT ![node] = @ + 1],
            !.score =
                [unknownNUMA |-> t.score.unknownNUMA + One(node < 0),
                 numaNodes |-> t.score.numaNodes + One(node >= 0 /\ t.numaCounts[node] = 0),
                 sidGroups |-> t.score.sidGroups + One(t.sidCounts[key] = 0),
                 unknownPCI |-> t.score.unknownPCI + One(al.path[d] = NoPath),
                 separateRoots |->
                    t.score.separateRoots + Cardinality({e \in chosen : pair(e).separateRoots}),
                 maxDistance |-> Max({t.score.maxDistance} \cup {pair(e).hops : e \in chosen}),
                 totalDistance |-> t.score.totalDistance + Sum([e \in chosen |-> pair(e).hops])]]

\* Mutant of undo: the groups are not given back.
undoKeepsGroups(t, previous) ==
    LET node == a.numa[Last(t.chosen)]
    IN  [t EXCEPT
            !.chosen = Front(t.chosen),
            !.numaCounts = IF node < 0 THEN t.numaCounts ELSE [t.numaCounts EXCEPT ![node] = @ - 1],
            !.score = previous]

\* Mutant of undo: a device without a NUMA node gives one back.
undoAnyNode(t, previous) ==
    LET d == Last(t.chosen)
    IN  [t EXCEPT
            !.chosen = Front(t.chosen),
            !.sidCounts = [t.sidCounts EXCEPT ![a.sid[d]] = @ - 1],
            !.numaCounts = [n \in DOMAIN @ |-> IF a.numa[d] \in {n, -1} THEN @[n] - 1 ELSE @[n]],
            !.score = previous]

\* What search undoes after a recursive call.
undo(t, previous) ==
    LET d == Last(t.chosen)
        node == a.numa[d]
    IN  [t EXCEPT
            !.chosen = Front(t.chosen),
            !.sidCounts = [t.sidCounts EXCEPT ![a.sid[d]] = @ - 1],
            !.numaCounts = IF node < 0 THEN t.numaCounts ELSE [t.numaCounts EXCEPT ![node] = @ - 1],
            !.score = previous]

-----------------------------------------------------------------------------
(* lowerBound *)

\* The candidates a call may still choose.
Rest(start) == {s.candidates[i] : i \in start .. Len(s.candidates)}

\* The fewest further groups that can hold need devices of rest.
NewGroups(rest, need) ==
    LET open == {k \in {a.sid[d] : d \in rest} : s.sidCounts[k] = 0}
        capacity(G) == Cardinality({d \in rest : a.sid[d] \in G})
    IN  Min({Cardinality(G) : G \in {H \in SUBSET open : capacity(H) >= need}})

Choose2(n) == (n * (n - 1)) \div 2

\* The bound in the fields that need no PCI tree.
PrefixBound(start, remaining) ==
    LET rest == Rest(start)
        missing(known) == Max({0, remaining - Cardinality(known)})
        inOpenGroups == Cardinality({d \in rest : s.sidCounts[a.sid[d]] > 0})
        newPairs == remaining * Len(s.chosen) + Choose2(remaining)
    IN  [s.score EXCEPT
            !.sidGroups = @ + NewGroups(rest, remaining - inOpenGroups),
            !.unknownNUMA = @ + missing({d \in rest : a.numa[d] >= 0}),
            !.unknownPCI = @ + missing({d \in rest : a.path[d] # NoPath}),
            !.separateRoots = @ + newPairs * s.minSeparateRoots]

\* The largest distance of a candidate to the chosen devices; the n-th least.
WorstLink(rest, n) ==
    LET worst(d) == Max({0} \cup {a.pairs[d][e].hops : e \in ToSet(s.chosen)})
    IN  Min({w \in {worst(d) : d \in rest} : Cardinality({d \in rest : worst(d) <= w}) >= n})

lowerBound(start, remaining) ==
    LET bound == PrefixBound(start, remaining)
        knownFinally == Len(s.chosen) + remaining - bound.unknownPCI
        connectedNow == Choose2(Len(s.chosen) - s.score.unknownPCI) - s.score.separateRoots
        connectedFinally == Choose2(knownFinally) - bound.separateRoots
        floor(x, connected) == IF connected THEN Max({x, s.minDistance}) ELSE x
        cheap == [bound EXCEPT
                    !.totalDistance = @ + Max({0, connectedFinally - connectedNow}) * s.minDistance,
                    !.maxDistance = floor(@, connectedFinally > 0)]
        far == [bound EXCEPT !.maxDistance = Max({@, WorstLink(Rest(start), remaining)})]
        withPath(S) == {d \in S : a.path[d] # NoPath}
        pci == pciLowerBound(a.path, knownFinally, withPath(ToSet(s.chosen)), withPath(Rest(start)))
    IN  IF ~less(cheap, s.bestScore) \/ LessUpTo(4, bound, s.bestScore) THEN cheap
        ELSE IF ~less(far, s.bestScore) THEN far
        ELSE [far EXCEPT
                !.separateRoots = pci.separateRoots,
                !.totalDistance = pci.totalDistance,
                !.maxDistance = floor(@, Choose2(knownFinally) > pci.separateRoots)]

-----------------------------------------------------------------------------
(* SelectDevices and search *)

\* An allocationSearch with nothing chosen: its candidates by ID, and what
\* prepareBounds computes over all pairs of devices.
NewSearch(al) ==
    LET all == DOMAIN al.path
        pairs == {al.pairs[p[1]][p[2]] : p \in {q \in all \X all : q[1] < q[2]}}
        known == {p \in pairs : p.known}
    IN
    [candidates |-> Sorted(all \ ToSet(selected)),
     minDistance |-> IF known = {} THEN 0 ELSE Min({p.hops : p \in known}),
     minSeparateRoots |-> One(\A p \in pairs : p.separateRoots),
     chosen |-> <<>>,
     sidCounts |-> [k \in {al.sid[d] : d \in DOMAIN al.sid} |-> 0],
     numaCounts |-> [n \in {al.numa[d] : d \in DOMAIN al.numa} \ {-1} |-> 0],
     score |-> Zero, best |-> <<>>, bestScore |-> Zero]

SelectDevices ==
    /\ pc = "request"
    /\ ~Rejected
    /\ Len(selected) < request.size
    /\ request.size < Cardinality(Available)
    /\ a' = newTopologyAllocator
    /\ s' = NewSearch(a')
    /\ pc' = "must"
    /\ UNCHANGED <<devices, request, frames, next, answer>>

\* The mandatory devices are chosen first, one by one.
AddMandatory ==
    /\ pc = "must"
    /\ Len(s.chosen) < Len(selected)
    /\ s' = add(a, s, selected[Len(s.chosen) + 1])
    /\ UNCHANGED <<devices, request, pc, a, frames, next, answer>>

\* Then search(0, remaining) is called.
CallSearch ==
    /\ pc = "must"
    /\ Len(s.chosen) = Len(selected)
    /\ next' = 1
    /\ pc' = "enter"
    /\ UNCHANGED <<devices, request, a, s, frames, answer>>

remaining == request.size - Len(s.chosen)

\* The call returns: its caller undoes its choice and goes on.  The first call
\* returns to SelectDevices, which answers with best; the answer's length is
\* checked once more.
Return(t) ==
    IF frames = <<>>
    THEN Respond(IF Len(t.best) = request.size THEN t.best ELSE <<>>) /\ s' = t /\ UNCHANGED <<a, next>>
    ELSE /\ s' = undo(t, Last(frames).previous)
         /\ next' = Last(frames).i + 1
         /\ frames' = Front(frames)
         /\ pc' = "loop"
         /\ UNCHANGED <<devices, request, a, answer>>

\* A complete set: it becomes best if it is better.
Leaf ==
    /\ pc = "enter"
    /\ remaining = 0
    /\ Return(IF s.best = <<>> \/ less(s.score, s.bestScore)
              THEN [s EXCEPT !.best = s.chosen, !.bestScore = s.score] ELSE s)

\* Mutant of Pruned: a tie in the fields before the PCI ones is enough.
PrunedOnPrefix ==
    \/ Len(s.candidates) - next + 1 < remaining
    \/ s.best # <<>> /\ ~LessUpTo(4, lowerBound(next, remaining), s.bestScore)

\* Mutant of Pruned: a search that has found nothing yet has bestScore Zero.
PrunedWithoutBest ==
    \/ Len(s.candidates) - next + 1 < remaining
    \/ ~less(lowerBound(next, remaining), s.bestScore)

Pruned ==
    \/ Len(s.candidates) - next + 1 < remaining
    \/ s.best # <<>> /\ ~less(lowerBound(next, remaining), s.bestScore)

\* The early returns of search.
Cut ==
    /\ pc = "enter"
    /\ remaining > 0
    /\ Pruned
    /\ Return(s)

Open ==
    /\ pc = "enter"
    /\ remaining > 0
    /\ ~Pruned
    /\ pc' = "loop"
    /\ UNCHANGED <<devices, request, a, s, frames, next, answer>>

\* One turn of the loop, up to the recursive call.
Choose ==
    /\ pc = "loop"
    /\ next <= Len(s.candidates) - remaining + 1
    /\ s' = add(a, s, s.candidates[next])
    /\ frames' = Append(frames, [i |-> next, previous |-> s.score])
    /\ next' = next + 1
    /\ pc' = "enter"
    /\ UNCHANGED <<devices, request, a, answer>>

Exhausted ==
    /\ pc = "loop"
    /\ next > Len(s.candidates) - remaining + 1
    /\ Return(s)

Finished == pc = "done" /\ UNCHANGED vars

Next ==
    \/ Fallback \/ NoChoice \/ SelectDevices \/ AddMandatory \/ CallSearch
    \/ Leaf \/ Cut \/ Open \/ Choose \/ Exhausted \/ Finished

Spec == Init /\ [][Next]_vars

-----------------------------------------------------------------------------
(* The policy the README documents, on sets of devices of a table *)

\* The PCI path of a link with one host bridge and only PCI devices below it.
Upstream(link) ==
    LET below == {t \in Suffixes(link) : Len(t) > 1 /\ HostBridge(t[1]) /\ \A i \in 2 .. Len(t) : PCIAddress(t[i])}
    IN  IF Cardinality({i \in DOMAIN link : HostBridge(link[i])}) = 1 /\ below # {} THEN CHOOSE t \in below : TRUE ELSE NoPath

\* Hops between two endpoints: the nodes above one of them and not the other.
Hops(v, w) == Cardinality(SymDiff(Prefixes(v), Prefixes(w)))

Score(table, S) ==
    LET path == [d \in S |-> Upstream(table[d].link)]
        known == {d \in S : path[d] # NoPath}
        pairs == {p \in known \X known : p[1] < p[2]}
        linked == {p \in pairs : path[p[1]][1] = path[p[2]][1]}
        hops(p) == Hops(path[p[1]], path[p[2]])
    IN  [unknownNUMA |-> Cardinality({d \in S : table[d].numa < 0}),
         numaNodes |-> Cardinality({table[d].numa : d \in S} \ {-1}),
         sidGroups |-> Cardinality({sidKey(table, d) : d \in S}),
         unknownPCI |-> Cardinality(S \ known),
         separateRoots |-> Cardinality(pairs \ linked),
         maxDistance |-> Max({0} \cup {hops(p) : p \in linked}),
         totalDistance |-> Sum([p \in linked |-> hops(p)])]

\* Distances are far below the cost that marks what cannot be.
ASSUME DistancesAssumption ==
    \A p \in Problems :
        LET available == ToSet(p.request.available)
        IN  available \subseteq DOMAIN p.devices => Score(p.devices, available).totalDistance < impossiblePCICost

\* The answers a valid request may have.
Answers == {S \in SUBSET Available : Cardinality(S) = request.size /\ ToSet(request.must) \subseteq S}

-----------------------------------------------------------------------------
(* The search as an instance of BranchAndBound *)

Optional(r) == Sorted(ToSet(r.available) \ ToSet(r.must))

\* The devices of a request with a pick of its optional ones.
WithPick(r, c) ==
    LET optional == Optional(r)
    IN  ToSet(r.must) \cup {optional[c[i]] : i \in DOMAIN c}

\* The devices of a list after the mandatory ones, as positions among the
\* optional ones.
Picked(list) ==
    LET optional == Optional(request)
        position(d) == CHOOSE i \in DOMAIN optional : optional[i] = d
        must == Len(selected)
    IN  [j \in 1 .. Len(list) - must |-> position(list[must + j])]

\* The problems that SelectDevices searches.
Searched ==
    {p \in AnyProblem :
        /\ ToSet(p.request.must) \subseteq ToSet(p.request.available)
        /\ ToSet(p.request.available) \subseteq DOMAIN p.devices
        /\ Cardinality(ToSet(p.request.must)) < p.request.size
        /\ p.request.size < Cardinality(ToSet(p.request.available))}

problem == [devices |-> devices, request |-> request]

\* To the search, a request that is answered without one never begins.
Begun == s # <<>> /\ pc # "must"

Search == INSTANCE BranchAndBound WITH
    Problem <- Searched,
    Candidates <- LAMBDA p : Len(Optional(p.request)),
    Remaining <- LAMBDA p : p.request.size - Cardinality(ToSet(p.request.must)),
    Score <- LAMBDA p, c : Score(p.devices, WithPick(p.request, c)),
    Less <- less,
    problem <- problem,
    pc <- IF Begun THEN pc ELSE "enter",
    picks <- [j \in DOMAIN frames |-> frames[j].i],
    next <- IF Begun THEN next ELSE 1,
    best <- IF Begun THEN Picked(s.best) ELSE <<>>

-----------------------------------------------------------------------------
(* Properties *)

\* The state of a search: counters of the groups and nodes there are, one frame
\* per device chosen after the mandatory ones.
TypeOK ==
    /\ pc \in {"request", "must", "enter", "loop", "done"}
    /\ answer \in Seq(Available)
    /\ pc \in {"enter", "loop"} =>
        /\ s.chosen \in Seq(Available) /\ s.best \in Seq(Available)
        /\ \A k \in DOMAIN s.sidCounts : s.sidCounts[k] \in 0 .. Cardinality(Available)
        /\ \A n \in DOMAIN s.numaCounts : s.numaCounts[n] \in 0 .. Cardinality(Available)
        /\ Len(s.chosen) = Len(selected) + Len(frames)
        /\ next \in 1 .. Len(s.candidates) + 1

\* However deep the recursion has been, after any number of undone choices the
\* incremental score and the counters are those of the chosen set.
ScoreMatchesChosen ==
    pc \in {"must", "enter", "loop"} =>
        LET S == ToSet(s.chosen)
        IN  /\ s.score = Score(devices, S)
            /\ \A k \in DOMAIN s.sidCounts : s.sidCounts[k] = Cardinality({d \in S : sidKey(devices, d) = k})
            /\ \A n \in DOMAIN s.numaCounts :
                   s.numaCounts[n] = Cardinality({d \in S : devices[d].numa = n})

\* "Admissible bounds": where there are completions of the chosen devices by
\* later candidates, lowerBound is a score and none of them scores less.
BoundsAdmissible ==
    pc = "enter" /\ remaining > 0 /\ s.best # <<>> =>
        LET bound == lowerBound(next, remaining)
        IN  \A R \in kSubset(remaining, Rest(next)) :
                /\ bound \in allocationScore
                /\ ~less(Score(devices, ToSet(s.chosen) \cup R), bound)

\* Whatever the bounds skip, a request that makes sense is answered: with as many
\* devices as it asks for, the mandatory ones first and in order, then others by
\* ID.  Any other request is left to the kubelet.
AnswerValid ==
    LET S == ToSet(answer)
    IN  pc = "done" =>
            IF Rejected THEN answer = <<>>
            ELSE S \in Answers /\ answer = selected \o Sorted(S \ ToSet(selected))

\* Among all sets that hold the mandatory devices the answer has the least score
\* and, among those, the first IDs.
AnswerOptimal ==
    LET S == ToSet(answer)
        score == Score(devices, S)
    IN  pc = "done" /\ ~Rejected =>
            \A T \in Answers \ {S} :
                \/ less(score, Score(devices, T))
                \/ score = Score(devices, T) /\ Min(SymDiff(S, T)) \in S

\* Every step of the search is one of BranchAndBound: in particular a call is
\* skipped only when no completion beats best.
RefinesBranchAndBound ==
    /\ problem \in Searched => Search!Init
    /\ [][Search!Next /\ problem \in Searched]_(Search!vars)
=============================================================================
