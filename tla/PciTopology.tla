----------------------------- MODULE PciTopology -----------------------------
(***************************************************************************)
(* The PCI side of preferred allocation (pci_topology.go and               *)
(* pci_allocation_bounds.go): the forest of PCI paths, distances in it and *)
(* the cheapest way to place a number of devices in it.                    *)
(*                                                                         *)
(* A device's link is the canonical sysfs path its address leads to, as a  *)
(* sequence of components: 0 for a directory that is no PCI component, 1   *)
(* to 9 for a host bridge, more for a PCI address; <<>> if it cannot be    *)
(* resolved or does not end at the device.  A node of the forest is the    *)
(* sequence of components that leads to it from its host bridge, which     *)
(* determines what is above the bridge; newPCITree interns nodes by it.  A *)
(* function path gives every device its endpoint or NoPath.                *)
(***************************************************************************)
EXTENDS Integers, Sequences, FiniteSets, FiniteSetsExt, SequencesExt

CONSTANT
    impossiblePCICost   \* the cost of what cannot be; about 2^61 in the program

ASSUME CostAssumption == impossiblePCICost \in Nat

NoPath == <<>>

HostBridge(c) == c \in 1 .. 9
PCIAddress(c) == c > 9

\* The host bridge, all PCI devices upstream of the NPU and the NPU; NoPath for
\* an error: no bridge, nothing below it, or something that is not PCI.
pciDeviceAncestors(link) ==
    LET root == SelectInSeq(link, HostBridge)
    IN  IF root \in 1 .. Len(link) - 1 /\ \A i \in root + 1 .. Len(link) : PCIAddress(link[i])
        THEN SubSeq(link, root, Len(link)) ELSE NoPath

Depth(v) == Len(v) - 1
Root(v) == <<v[1]>>
Parent(v) == Front(v)

\* newPCITree: every prefix of a path is a node, shared by the paths below it.
Nodes(path) == (UNION {Prefixes(path[d]) : d \in DOMAIN path}) \ {NoPath}
Roots(path) == {v \in Nodes(path) : Len(v) = 1}
Children(path, v) == {w \in Nodes(path) : Len(w) = Len(v) + 1 /\ Parent(w) = v}

\* Climb as in distance(): the deeper node first, then both, until they meet.
LCA[p \in Seq(Nat) \X Seq(Nat)] ==
    LET a == p[1]
        b == p[2]
    IN  CASE Depth(a) > Depth(b) -> LCA[<<Parent(a), b>>]
          [] Depth(b) > Depth(a) -> LCA[<<a, Parent(b)>>]
          [] Depth(a) = Depth(b) /\ a # b -> LCA[<<Parent(a), Parent(b)>>]
          [] OTHER -> a

Unknown == [known |-> FALSE, separateRoots |-> FALSE, hops |-> 0]
Separate == [known |-> FALSE, separateRoots |-> TRUE, hops |-> 0]

\* pciTree.distance for two endpoints.
distance(a, b) ==
    CASE a = NoPath \/ b = NoPath -> Unknown
      [] a # NoPath /\ b # NoPath /\ Root(a) # Root(b) -> Separate
      [] OTHER -> [known |-> TRUE, separateRoots |-> FALSE,
                   hops |-> Depth(a) + Depth(b) - 2 * Depth(LCA[<<a, b>>])]

-----------------------------------------------------------------------------
(* pciLowerBound *)

Below(path, S, v) == {d \in S : IsPrefix(v, path[d])}
At(path, S, v) == {d \in S : path[d] = v}

\* Mutant of MergeChild: the edge to a child is counted for all K devices.
MergeChildForAll(costs, childCosts, K) ==
    [n \in DOMAIN costs |->
        Min({impossiblePCICost} \cup
            {costs[n - c] + childCosts[c] + c * K :
                c \in {m \in DOMAIN childCosts : m <= n /\ childCosts[m] # impossiblePCICost
                                                  /\ costs[n - m] # impossiblePCICost}})]

\* Merge one child into the costs of its parent: cost[n] is the least cost of
\* n devices in what was merged so far.  The edge to a child that holds c of
\* the root's K devices lies on c * (K - c) of their paths.
MergeChild(costs, childCosts, K) ==
    [n \in DOMAIN costs |->
        Min({impossiblePCICost} \cup
            {costs[n - c] + childCosts[c] + c * (K - c) :
                c \in {m \in DOMAIN childCosts : m <= n /\ childCosts[m] # impossiblePCICost
                                                  /\ costs[n - m] # impossiblePCICost}})]

MergeChildren(own, children, costs, K) ==
    FoldSet(LAMBDA w, acc : MergeChild(acc, costs[w], K), own, children)

\* The devices at v itself: all that are forced there and any of the free ones.
OwnCosts(path, v, K, forced, free) ==
    LET atV == Cardinality(At(path, forced, v))
    IN  [n \in 0 .. Min({Cardinality(Below(path, forced \cup free, v)), K}) |->
            IF n \in atV .. atV + Cardinality(At(path, free, v)) THEN 0 ELSE impossiblePCICost]

\* For a root that holds K devices, the least sum of the distances' parts below
\* root, for every number of devices below it.
pciSubtreeCosts(path, root, K, forced, free) ==
    LET costs[v \in Nodes(path)] ==
            MergeChildren(OwnCosts(path, v, K, forced, free),
                          {w \in Children(path, v) : Below(path, forced \cup free, w) # {}}, costs, K)
    IN  costs[root]

\* pciPlacementCost.less
Invalid == [valid |-> FALSE, separateRoots |-> 0, totalDistance |-> 0]
placementLess(a, b) ==
    /\ a.valid
    /\ \/ ~b.valid
       \/ a.separateRoots < b.separateRoots
       \/ a.separateRoots = b.separateRoots /\ a.totalDistance < b.totalDistance

Cheapest(S) ==
    IF S = {} THEN Invalid ELSE CHOOSE a \in S : \A b \in S : ~placementLess(b, a)

\* Merge one root into the costs of the forest: devices before it and devices
\* below it are pairwise under separate roots.
MergeRoot(forest, rootCosts) ==
    [n \in DOMAIN forest |->
        Cheapest({[valid |-> TRUE,
                   separateRoots |-> forest[n - c].separateRoots + (n - c) * c,
                   totalDistance |-> forest[n - c].totalDistance + rootCosts[c]] :
                  c \in {m \in DOMAIN rootCosts : m <= n /\ forest[n - m].valid
                                                  /\ rootCosts[m] # impossiblePCICost}})]

\* The numbers of devices root r can hold when the forest holds K of them.
RootCounts(path, r, K, forced, free) ==
    LET held == Cardinality(Below(path, forced, r))
        capacity == Cardinality(Below(path, forced \cup free, r))
    IN  Max({held, K - (Cardinality(forced \cup free) - capacity)})
          .. Min({capacity, K - (Cardinality(forced) - held)})

RootCosts(path, r, K, forced, free) ==
    [n \in 0 .. Min({Cardinality(Below(path, forced \cup free, r)), K}) |->
        IF n \in RootCounts(path, r, K, forced, free)
        THEN pciSubtreeCosts(path, r, n, forced, free)[n] ELSE impossiblePCICost]

\* The least PCI cost of a placement of K devices with a path: all of forced
\* and some of free.
pciLowerBound(path, K, forced, free) ==
    FoldSet(LAMBDA r, acc : MergeRoot(acc, RootCosts(path, r, K, forced, free)),
            [n \in 0 .. K |-> IF n = 0 THEN [Invalid EXCEPT !.valid = TRUE] ELSE Invalid],
            {r \in Roots(path) : Below(path, forced \cup free, r) # {}})[K]
=============================================================================
