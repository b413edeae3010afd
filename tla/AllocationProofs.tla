-------------------------- MODULE AllocationProofs --------------------------
(***************************************************************************)
(* Proofs, for any devices, any number of Allocate calls and containers    *)
(* and any failures, that concurrent calls never share or remake an RSD    *)
(* group a container was promised, unless the kubelet abandoned one.       *)
(***************************************************************************)
EXTENDS Allocation, TLAPS

(***************************************************************************)
(* The inductive invariant.  The kubelet asks for a device once            *)
(* (Exclusive); a handler that still runs has a caller that waits or gave  *)
(* up, and gets to the driver only with devices (Working); a path is       *)
(* recorded only for a container with devices (Answered).  Then the group  *)
(* at every recorded path stays the container's own, long before the       *)
(* answer (Owned): no group of another call overlaps it, none is empty,    *)
(* and whoever may still remake it is counted in trampled.                 *)
(***************************************************************************)
Exclusive ==
    /\ \A b, c \in Call : b # c /\ Taken(b) /\ Taken(c) => Asked(b) \cap Asked(c) = {}
    /\ \A c \in Call : \A i, j \in Container : i # j => req[c][i] \cap req[c][j] = {}

Working ==
    \A c \in Call :
        /\ pc[c] \in {"select", "recreate", "stat", "annotate"} => status[c] \in {"waiting", "abandoned"}
        /\ pc[c] = "recreate" => Wanted(c) # {}

Answered ==
    \A c \in Call : \A i \in Container :
        path[c][i] # NoPath => status[c] # "unused" /\ req[c][i] # {}

Owned ==
    \A c \in Call : Taken(c) /\ c \notin trampled => \A i \in Container : OwnGroup(c, i)

GroupInv == TypeOK /\ Exclusive /\ Working /\ Answered /\ Owned

-----------------------------------------------------------------------------
(* The types *)

LEMMA InitType == Init => TypeOK
<1> SUFFICES ASSUME Init
             PROVE  TypeOK
    OBVIOUS
<1>1. 1 \in Container /\ 0 \in 0 .. MaxFaults
    BY BoundsAssumption DEF Container
<1> QED
    BY <1>1 DEF Init, TypeOK

LEMMA FaultType ==
    ASSUME TypeOK, Fault \/ NoFault
    PROVE  faults' \in 0 .. MaxFaults
BY BoundsAssumption DEF TypeOK, Fault, NoFault

\* What the driver and the history can be after a call of RecreateRsdGroup.
LEMMA RegroupType ==
    ASSUME TypeOK, NEW c \in Call, NEW new \in SUBSET Path,
           Regroup(c, new) \/ NoGroupLost
    PROVE  /\ groups' \in [Path -> SUBSET Device]
           /\ maker' \in [Path -> SUBSET Call]
           /\ nodes' \subseteq Device \cup Path
           /\ trampled' \subseteq Call
<1>1. CASE NoGroupLost
    BY <1>1 DEF NoGroupLost, driver, TypeOK
<1>2. CASE Regroup(c, new)
    <2>1. busIDs(c) \in SUBSET Device
        BY DEF busIDs, Wanted, TypeOK
    <2>2. groups' \in [Path -> SUBSET Device]
        BY <1>2, <2>1 DEF Regroup, TypeOK
    <2>3. maker' \in [Path -> SUBSET Call]
        BY <1>2 DEF Regroup, TypeOK
    <2>4. nodes' \subseteq Device \cup Path
        BY <1>2 DEF Regroup, TypeOK
    <2>5. \A p \in Overlapping(busIDs(c)) : maker[p] \subseteq Call
        BY DEF Overlapping, TypeOK
    <2>6. trampled' \subseteq Call
        BY <1>2, <2>5 DEF Regroup, TypeOK
    <2> QED
        BY <2>2, <2>3, <2>4, <2>6
<1> QED
    BY <1>1, <1>2

LEMMA FailType ==
    ASSUME TypeOK, NEW c \in Call, Fail(c), Fault \/ NoFault,
           NoGroupLost \/ Regroup(c, {})
    PROVE  TypeOK'
<1>1. faults' \in 0 .. MaxFaults
    BY FaultType
<1>2. /\ groups' \in [Path -> SUBSET Device]
      /\ maker' \in [Path -> SUBSET Call]
      /\ nodes' \subseteq Device \cup Path
      /\ trampled' \subseteq Call
    BY RegroupType
<1>3. path' \in [Call -> [Container -> Path \cup {NoPath}]]
    <2>1. [i \in Container |-> NoPath] \in [Container -> Path \cup {NoPath}]
        OBVIOUS
    <2> QED
        BY <2>1 DEF Fail, TypeOK
<1> QED
    BY <1>1, <1>2, <1>3 DEF Fail, Goto, kubelet, TypeOK

LEMMA HandlerType ==
    ASSUME TypeOK, NEW c \in Call, Handler(c)
    PROVE  TypeOK'
<1>0. ASSUME NoFault
      PROVE  faults' \in 0 .. MaxFaults
    BY <1>0, FaultType
<1> USE DEF Goto, WaitFor, driver, kubelet
<1>1. CASE Select(c)
    BY <1>0, <1>1 DEF Select, TypeOK
<1>2. CASE Recreate(c)
    <2>1. PICK p \in Path :
            /\ Regroup(c, {p})
            /\ path' = [path EXCEPT ![c][ctr[c]] = p]
            /\ WaitFor(c, {p}, Wanted(c))
        BY <1>2 DEF Recreate
    <2>2. /\ groups' \in [Path -> SUBSET Device]
          /\ maker' \in [Path -> SUBSET Call]
          /\ nodes' \subseteq Device \cup Path
          /\ trampled' \subseteq Call
        BY <2>1, RegroupType
    <2>3. ctr[c] \in Container /\ Wanted(c) \subseteq Device
        BY DEF Wanted, TypeOK
    <2>4. path' \in [Call -> [Container -> Path \cup {NoPath}]]
        BY <2>1, <2>3 DEF TypeOK
    <2> QED
        BY <1>0, <1>2, <2>1, <2>2, <2>3, <2>4 DEF Recreate, TypeOK
<1>3. CASE RecreateNothing(c)
    <2>1. Wanted(c) \subseteq Device
        BY DEF Wanted, TypeOK
    <2> QED
        BY <1>0, <1>3, <2>1 DEF RecreateNothing, TypeOK
<1>4. CASE Found(c)
    <2>1. PICK S \in SUBSET (Device \cup Path), T \in SUBSET (Device \cup Path) : WaitFor(c, S, T)
        BY <1>4 DEF Found, TypeOK
    <2>2. pc' \in [Call -> {"idle", "select", "recreate", "stat", "annotate", "ok", "error"}]
        BY <1>4 DEF Found, TypeOK
    <2> QED
        BY <1>0, <1>4, <2>1, <2>2 DEF Found, TypeOK
<1>5. CASE Annotate(c)
    <2>1. ctr' \in [Call -> Container]
        <3>1. ctr[c] \in Container /\ size[c] \in Container
            BY DEF TypeOK
        <3>2. ctr[c] < size[c] => ctr[c] + 1 \in Container
            BY <3>1, BoundsAssumption DEF Container
        <3> QED
            BY <1>5, <3>2 DEF Annotate, TypeOK
    <2>2. pc' \in [Call -> {"idle", "select", "recreate", "stat", "annotate", "ok", "error"}]
        BY <1>5 DEF Annotate, TypeOK
    <2> QED
        BY <1>0, <1>5, <2>1, <2>2 DEF Annotate, TypeOK
<1>6. CASE SelectFails(c) \/ RecreateFails(c) \/ GiveUp(c) \/ StatFails(c) \/ AnnotateFails(c)
    BY <1>6, FailType DEF SelectFails, RecreateFails, GiveUp, StatFails, AnnotateFails
<1> QED
    BY <1>1, <1>2, <1>3, <1>4, <1>5, <1>6 DEF Handler

LEMMA KubeletType ==
    ASSUME TypeOK, NEW c \in Call,
           \/ Allocate(c) \/ Abandon(c) \/ PodStarts(c)
           \/ PodRejected(c) \/ PodEnds(c) \/ LateAnswer(c)
    PROVE  TypeOK'
<1>0. ASSUME NoFault
      PROVE  faults' \in 0 .. MaxFaults
    BY <1>0, FaultType
<1>1. CASE Allocate(c)
    BY <1>0, <1>1 DEF Allocate, Goto, driver, TypeOK
<1>2. CASE Abandon(c) \/ PodStarts(c)
    BY <1>0, <1>2 DEF Abandon, PodStarts, Kubelet, call, driver, TypeOK
<1>3. CASE PodRejected(c) \/ PodEnds(c) \/ LateAnswer(c)
    <2>1. PICK from : Kubelet(c, from, "over")
        BY <1>3 DEF PodRejected, PodEnds, LateAnswer
    <2>2. Forget(c)
        BY <1>3 DEF PodRejected, PodEnds, LateAnswer
    <2>3. 1 \in Container
        BY BoundsAssumption DEF Container
    <2>4. /\ path' \in [Call -> [Container -> Path \cup {NoPath}]]
          /\ req' \in [Call -> [Container -> SUBSET Device]]
        <3>1. /\ [i \in Container |-> NoPath] \in [Container -> Path \cup {NoPath}]
              /\ [i \in Container |-> {}] \in [Container -> SUBSET Device]
            OBVIOUS
        <3> QED
            BY <2>2, <3>1 DEF Forget, TypeOK
    <2> QED
        BY <1>0, <2>1, <2>2, <2>3, <2>4 DEF Kubelet, Forget, driver, TypeOK
<1> QED
    BY <1>1, <1>2, <1>3

LEMMA TypeStep ==
    ASSUME TypeOK, [Next]_vars
    PROVE  TypeOK'
<1>1. CASE Change
    BY <1>1, FaultType DEF Change, call, kubelet, TypeOK
<1>2. ASSUME NEW p \in Path, GroupNode(p)
      PROVE  TypeOK'
    BY <1>2, FaultType DEF GroupNode, call, kubelet, TypeOK
<1>3. CASE UNCHANGED vars
    BY <1>3 DEF vars, call, driver, kubelet, TypeOK
<1> QED
    BY <1>1, <1>2, <1>3, HandlerType, KubeletType DEF Next

\* Every reachable state is well typed.
THEOREM TypeCorrect == Spec => []TypeOK
<1>1. TypeOK /\ [Next]_vars => TypeOK'
    BY TypeStep
<1> QED
    BY <1>1, InitType, PTL DEF Spec

-----------------------------------------------------------------------------
(* The groups *)

LEMMA AskedContains ==
    ASSUME NEW c \in Call, NEW i \in Container
    PROVE  req[c][i] \subseteq Asked(c)
BY DEF Asked

(***************************************************************************)
(* The heart of the matter: when a call hands devices to the driver, the   *)
(* group at any other path that was recorded for a call whose devices are  *)
(* taken is not touched, or the caller was abandoned and the victim noted. *)
(***************************************************************************)
LEMMA RegroupSpares ==
    ASSUME GroupInv, NEW c \in Call, pc[c] = "recreate",
           NEW new \in SUBSET Path, Regroup(c, new),
           \A p \in new : groups[p] = {} \/ p \in Overlapping(busIDs(c)),
           NEW b \in Call, Taken(b), b \notin trampled',
           NEW i \in Container, path[b][i] # NoPath, b # c \/ i # ctr[c]
    PROVE  /\ groups'[path[b][i]] = req[b][i]
           /\ maker'[path[b][i]] = {b}
<1> DEFINE p == path[b][i]
<1>1. p \in Path /\ ctr[c] \in Container
    BY DEF GroupInv, TypeOK
<1>2. trampled \subseteq trampled'
    BY DEF Regroup
<1>3. maker[p] = {b} /\ groups[p] = req[b][i] /\ req[b][i] # {}
    BY <1>2 DEF GroupInv, Owned, OwnGroup, Answered
<1>4. p \notin Overlapping(busIDs(c))
    <2> SUFFICES ASSUME p \in Overlapping(busIDs(c))
                 PROVE  FALSE
        OBVIOUS
    <2>1. req[b][i] \cap req[c][ctr[c]] # {}
        BY <1>3 DEF Overlapping, busIDs, Wanted
    <2>2. b # c
        BY <1>1, <2>1 DEF GroupInv, Exclusive
    <2>3. ~Taken(c)
        BY <1>1, <2>1, <2>2, AskedContains DEF GroupInv, Exclusive
    <2>4. status[c] = "abandoned"
        BY <2>3 DEF GroupInv, Working, Taken
    <2>5. b \in trampled'
        BY <1>3, <2>4 DEF Regroup
    <2> QED
        BY <2>5
<1>5. p \notin new
    BY <1>3, <1>4
<1> QED
    BY <1>1, <1>3, <1>4, <1>5 DEF Regroup

\* An error drops the paths of its own call and leaves the others' groups.
LEMMA FailGroup ==
    ASSUME GroupInv, NEW c \in Call, Fail(c),
           NoGroupLost \/ (pc[c] = "recreate" /\ Regroup(c, {}))
    PROVE  Exclusive' /\ Working' /\ Answered' /\ Owned'
<1>1. /\ UNCHANGED <<req, size, status, ctr>>
      /\ pc' = [pc EXCEPT ![c] = "error"]
      /\ path' = [path EXCEPT ![c] = [i \in Container |-> NoPath]]
    BY DEF Fail, Goto, kubelet
<1>2. \A b \in Call : \A i \in Container :
        path'[b][i] = IF b = c THEN NoPath ELSE path[b][i]
    BY <1>1 DEF GroupInv, TypeOK
<1>3. Exclusive'
    BY <1>1 DEF GroupInv, Exclusive, Taken, Asked
<1>4. Working'
    BY <1>1 DEF GroupInv, TypeOK, Working, Wanted
<1>5. Answered'
    BY <1>1, <1>2 DEF GroupInv, Answered
<1>6. Owned'
    <2> SUFFICES ASSUME NEW b \in Call, Taken(b), b \notin trampled',
                        NEW i \in Container, path'[b][i] # NoPath
                 PROVE  maker'[path'[b][i]] = {b} /\ groups'[path'[b][i]] = req[b][i]
        BY <1>1 DEF Owned, OwnGroup, Taken
    <2>1. b # c /\ path'[b][i] = path[b][i]
        BY <1>2
    <2>2. CASE NoGroupLost
        BY <2>1, <2>2 DEF NoGroupLost, driver, GroupInv, Owned, OwnGroup
    <2>3. CASE pc[c] = "recreate" /\ Regroup(c, {})
        BY <2>1, <2>3, RegroupSpares
    <2> QED
        BY <2>2, <2>3
<1> QED
    BY <1>3, <1>4, <1>5, <1>6

\* RecreateRsdGroup makes the container a group of its own.
LEMMA RecreateGroup ==
    ASSUME GroupInv, NEW c \in Call, Recreate(c)
    PROVE  Exclusive' /\ Working' /\ Answered' /\ Owned'
<1>1. PICK p \in Path :
        /\ groups[p] = {} \/ p \in Overlapping(busIDs(c))
        /\ Regroup(c, {p})
        /\ path' = [path EXCEPT ![c][ctr[c]] = p]
    BY DEF Recreate
<1>2. /\ pc[c] = "recreate"
      /\ UNCHANGED <<req, size, status, ctr>>
      /\ pc' = [pc EXCEPT ![c] = "stat"]
    BY DEF Recreate, Goto, kubelet
<1>3. ctr[c] \in Container
    BY DEF GroupInv, TypeOK
<1>4. \A b \in Call : \A i \in Container :
        path'[b][i] = IF b = c /\ i = ctr[c] THEN p ELSE path[b][i]
    BY <1>1, <1>3 DEF GroupInv, TypeOK
<1>5. status[c] \in {"waiting", "abandoned"} /\ Wanted(c) # {}
    BY <1>2 DEF GroupInv, Working
<1>6. Exclusive'
    BY <1>2 DEF GroupInv, Exclusive, Taken, Asked
<1>7. Working'
    BY <1>2, <1>5 DEF GroupInv, TypeOK, Working, Wanted
<1>8. Answered'
    BY <1>2, <1>4, <1>5 DEF GroupInv, Answered, Wanted
<1>9. Owned'
    <2> SUFFICES ASSUME NEW b \in Call, Taken(b), b \notin trampled',
                        NEW i \in Container, path'[b][i] # NoPath
                 PROVE  maker'[path'[b][i]] = {b} /\ groups'[path'[b][i]] = req[b][i]
        BY <1>2 DEF Owned, OwnGroup, Taken
    <2>1. CASE b = c /\ i = ctr[c]
        BY <1>1, <1>4, <2>1 DEF Regroup, busIDs, Wanted
    <2>2. CASE b # c \/ i # ctr[c]
        BY <1>1, <1>2, <1>4, <2>2, RegroupSpares
    <2> QED
        BY <2>1, <2>2
<1> QED
    BY <1>6, <1>7, <1>8, <1>9

LEMMA HandlerGroup ==
    ASSUME GroupInv, NEW c \in Call, Handler(c)
    PROVE  Exclusive' /\ Working' /\ Answered' /\ Owned'
<1>1. CASE Select(c) \/ RecreateNothing(c) \/ Found(c) \/ Annotate(c)
    <2>1. /\ UNCHANGED <<req, size, status, path, groups, maker, trampled>>
          /\ pc[c] \in {"select", "recreate", "stat", "annotate"}
        BY <1>1 DEF Select, RecreateNothing, Found, Annotate, driver, kubelet
    <2>2. Working'
        <3>1. CASE Select(c)
            BY <3>1 DEF Select, Selectable, Goto, kubelet, GroupInv, TypeOK, Working, Wanted
        <3>2. CASE RecreateNothing(c)
            BY <3>2 DEF RecreateNothing, Goto, kubelet, GroupInv, TypeOK, Working, Wanted
        <3>3. CASE Found(c)
            BY <3>3 DEF Found, Goto, kubelet, GroupInv, TypeOK, Working, Wanted
        <3>4. CASE Annotate(c)
            BY <3>4 DEF Annotate, Goto, kubelet, GroupInv, TypeOK, Working, Wanted
        <3> QED
            BY <1>1, <3>1, <3>2, <3>3, <3>4
    <2>3. Exclusive' /\ Answered' /\ Owned'
        <3>1. \A b \in Call : Asked(b)' = Asked(b) /\ (Taken(b)' <=> Taken(b))
            BY <2>1 DEF Asked, Taken
        <3>2. Exclusive'
            BY <2>1, <3>1 DEF GroupInv, Exclusive
        <3>3. Answered' /\ Owned'
            BY <2>1, <3>1 DEF GroupInv, Answered, Owned, OwnGroup
        <3> QED
            BY <3>2, <3>3
    <2> QED
        BY <2>2, <2>3
<1>2. CASE SelectFails(c) \/ RecreateFails(c) \/ GiveUp(c) \/ StatFails(c) \/ AnnotateFails(c)
    BY <1>2, FailGroup DEF SelectFails, RecreateFails, GiveUp, StatFails, AnnotateFails
<1> QED
    BY <1>1, <1>2, RecreateGroup DEF Handler

\* The kubelet asks only for devices it counts as free.
LEMMA AllocateGroup ==
    ASSUME GroupInv, NEW c \in Call, Allocate(c)
    PROVE  Exclusive' /\ Working' /\ Answered' /\ Owned'
<1>1. PICK r \in [Container -> SUBSET Device] :
        /\ \A i, j \in Container : i # j => r[i] \cap r[j] = {}
        /\ \A b \in Call : Taken(b) => Asked(b) \cap UNION {r[i] : i \in Container} = {}
        /\ req' = [req EXCEPT ![c] = r]
    BY DEF Allocate
<1>2. /\ status[c] = "unused"
      /\ status' = [status EXCEPT ![c] = "waiting"]
      /\ pc' = [pc EXCEPT ![c] = "select"]
      /\ UNCHANGED <<groups, maker, ctr, path, trampled>>
    BY DEF Allocate, Goto, driver
<1>3. \A b \in Call : /\ req'[b] = IF b = c THEN r ELSE req[b]
                      /\ status'[b] = IF b = c THEN "waiting" ELSE status[b]
                      /\ pc'[b] = IF b = c THEN "select" ELSE pc[b]
    BY <1>1, <1>2 DEF GroupInv, TypeOK
<1>4. \A b \in Call : /\ b # c => (Taken(b)' <=> Taken(b))
                      /\ Asked(b)' = IF b = c THEN UNION {r[i] : i \in Container} ELSE Asked(b)
    BY <1>3 DEF Taken, Asked
<1>5. \A i \in Container : path[c][i] = NoPath
    BY <1>2 DEF GroupInv, Answered
<1>6. Exclusive'
    <2>1. ASSUME NEW a \in Call, NEW b \in Call, a # b, Taken(a)', Taken(b)'
          PROVE  Asked(a)' \cap Asked(b)' = {}
        BY <1>1, <1>4, <2>1 DEF GroupInv, Exclusive
    <2>2. ASSUME NEW b \in Call, NEW i \in Container, NEW j \in Container, i # j
          PROVE  req'[b][i] \cap req'[b][j] = {}
        BY <1>1, <1>3, <2>2 DEF GroupInv, Exclusive
    <2> QED
        BY <2>1, <2>2 DEF Exclusive
<1>7. Working'
    BY <1>2, <1>3 DEF GroupInv, Working, Wanted
<1>8. Answered'
    BY <1>2, <1>3, <1>5 DEF GroupInv, Answered
<1>9. Owned'
    BY <1>2, <1>3, <1>4, <1>5 DEF GroupInv, Owned, OwnGroup
<1> QED
    BY <1>6, <1>7, <1>8, <1>9

LEMMA KubeletGroup ==
    ASSUME GroupInv, NEW c \in Call,
           \/ Allocate(c) \/ Abandon(c) \/ PodStarts(c)
           \/ PodRejected(c) \/ PodEnds(c) \/ LateAnswer(c)
    PROVE  Exclusive' /\ Working' /\ Answered' /\ Owned'
<1>1. CASE Abandon(c) \/ PodStarts(c)
    <2>1. /\ UNCHANGED <<req, ctr, path, pc, groups, maker, trampled>>
          /\ status[c] = "waiting" /\ Taken(c)
          /\ \A b \in Call \ {c} : status'[b] = status[b]
          /\ \/ status'[c] = "abandoned"
             \/ status'[c] = "running" /\ pc[c] = "ok"
        BY <1>1 DEF Abandon, PodStarts, Kubelet, call, driver, Taken, GroupInv, TypeOK
    <2>2. \A b \in Call : Asked(b)' = Asked(b) /\ (Taken(b)' => Taken(b))
        BY <2>1 DEF Taken, Asked
    <2>3. Exclusive'
        BY <2>1, <2>2 DEF GroupInv, Exclusive
    <2>4. Working'
        BY <2>1 DEF GroupInv, Working, Wanted
    <2>5. Answered' /\ Owned'
        BY <2>1, <2>2 DEF GroupInv, Answered, Owned, OwnGroup
    <2> QED
        BY <2>3, <2>4, <2>5
<1>2. CASE PodRejected(c) \/ PodEnds(c) \/ LateAnswer(c)
    <2>1. /\ status'[c] = "over"
          /\ \A b \in Call \ {c} : status'[b] = status[b]
          /\ UNCHANGED <<pc, groups, maker, trampled>>
        BY <1>2 DEF PodRejected, PodEnds, LateAnswer, Kubelet, Forget, driver, GroupInv, TypeOK
    <2>2. pc[c] \notin {"select", "recreate", "stat", "annotate"}
        BY <1>2 DEF PodRejected, PodEnds, LateAnswer, Kubelet, GroupInv, Working
    <2>3. \A b \in Call :
            /\ req'[b] = IF b = c THEN [i \in Container |-> {}] ELSE req[b]
            /\ path'[b] = IF b = c THEN [i \in Container |-> NoPath] ELSE path[b]
            /\ b # c => ctr'[b] = ctr[b]
        BY <1>2 DEF PodRejected, PodEnds, LateAnswer, Forget, GroupInv, TypeOK
    <2>4. \A b \in Call : Taken(b)' => b # c /\ Taken(b) /\ Asked(b)' = Asked(b)
        BY <2>1, <2>3 DEF Taken, Asked
    <2>5. Exclusive'
        <3>1. ASSUME NEW a \in Call, NEW b \in Call, a # b, Taken(a)', Taken(b)'
              PROVE  Asked(a)' \cap Asked(b)' = {}
            BY <2>4, <3>1 DEF GroupInv, Exclusive
        <3>2. ASSUME NEW b \in Call, NEW i \in Container, NEW j \in Container, i # j
              PROVE  req'[b][i] \cap req'[b][j] = {}
            BY <2>3, <3>2 DEF GroupInv, Exclusive
        <3> QED
            BY <3>1, <3>2 DEF Exclusive
    <2>6. Working'
        BY <2>1, <2>2, <2>3 DEF GroupInv, Working, Wanted
    <2>7. Answered'
        BY <2>1, <2>3 DEF GroupInv, Answered
    <2>8. Owned'
        BY <2>1, <2>3, <2>4 DEF GroupInv, Owned, OwnGroup
    <2> QED
        BY <2>5, <2>6, <2>7, <2>8
<1> QED
    BY <1>1, <1>2, AllocateGroup

\* GroupInv holds in every reachable state.
THEOREM GroupInvariance == Spec => []GroupInv
<1>1. Init => GroupInv
    <2> SUFFICES ASSUME Init
                 PROVE  Exclusive /\ Working /\ Answered /\ Owned
        BY InitType DEF GroupInv
    <2> QED
        BY DEF Init, Exclusive, Working, Answered, Owned, Taken
<1>2. GroupInv /\ [Next]_vars => GroupInv'
    <2> SUFFICES ASSUME GroupInv, [Next]_vars
                 PROVE  Exclusive' /\ Working' /\ Answered' /\ Owned'
        BY TypeStep DEF GroupInv
    <2>1. CASE Change \/ (\E p \in Path : GroupNode(p)) \/ UNCHANGED vars
        <3>1. UNCHANGED <<req, size, status, pc, ctr, path, groups, maker, trampled>>
            BY <2>1 DEF Change, GroupNode, vars, call, kubelet, driver
        <3>2. \A b \in Call : Asked(b)' = Asked(b) /\ (Taken(b)' <=> Taken(b))
            BY <3>1 DEF Asked, Taken
        <3>3. Exclusive' /\ Working'
            BY <3>1, <3>2 DEF GroupInv, Exclusive, Working, Wanted
        <3>4. Answered' /\ Owned'
            BY <3>1, <3>2 DEF GroupInv, Answered, Owned, OwnGroup
        <3> QED
            BY <3>3, <3>4
    <2> QED
        BY <2>1, HandlerGroup, KubeletGroup DEF Next
<1> QED
    BY <1>1, <1>2, PTL DEF Spec

\* Every container of an answered call has an RSD group of its own, made by its
\* own call of exactly its devices, unless an abandoned call remade it.
THEOREM GroupsAreDedicated == Spec => []DedicatedGroups
<1>1. GroupInv => DedicatedGroups
    <2> SUFFICES ASSUME GroupInv, NEW c \in Call, Taken(c), c \notin trampled,
                        NEW i \in 1 .. size[c]
                 PROVE  OwnGroup(c, i)
        BY DEF DedicatedGroups
    <2>1. i \in Container
        BY BoundsAssumption DEF GroupInv, TypeOK, Container
    <2> QED
        BY <2>1 DEF GroupInv, Owned
<1> QED
    BY <1>1, GroupInvariance, PTL
=============================================================================
