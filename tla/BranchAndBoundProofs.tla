------------------------ MODULE BranchAndBoundProofs ------------------------
(***************************************************************************)
(* Proof that the search returns the first of the best picks, for any      *)
(* number of candidates, any scores and any sound way of skipping calls.   *)
(***************************************************************************)
EXTENDS BranchAndBound, TLAPS, SequenceTheorems

\* The loop variables of the open calls increase, leave enough candidates for
\* the calls below, and next continues them.
Shape ==
    /\ \A i, j \in 1 .. Len(picks) : i < j => picks[i] + (j - i) <= picks[j]
    /\ \A i \in 1 .. Len(picks) : /\ picks[i] + (Len(picks) + 1 - i) <= next
                                  /\ picks[i] <= N - K + i
    /\ pc = "enter" => next <= N - K + Len(picks) + 1
    /\ pc = "loop" => Len(picks) < K /\ next <= N - K + Len(picks) + 2
    /\ pc = "done" => picks = <<>>

\* c comes after the current pick of an open call.
Later(c) == \E j \in 1 .. Len(picks) : /\ picks[j] < c[j]
                                       /\ \A i \in 1 .. j - 1 : c[i] = picks[i]

\* What is ahead comes after best, so a tie cannot win.
BestFirst == best # <<>> => \A c \in Pick(problem) : Ahead(c) => Before(best, c)

IInv == TypeOK /\ Shape /\ NothingLost /\ BestFirst

-----------------------------------------------------------------------------
(* Sizes, picks and the order *)

LEMMA Sizes ==
    ASSUME TypeOK
    PROVE  /\ N \in Nat /\ K \in Nat /\ 1 <= K /\ K <= N
           /\ Len(picks) \in Nat /\ next \in Nat
           /\ picks \in [1 .. Len(picks) -> 1 .. N]
           /\ DOMAIN picks = 1 .. Len(picks)
           /\ picks = <<>> <=> Len(picks) = 0
<1>1. N \in Nat /\ K \in 1 .. N
    BY SizeAssumption DEF TypeOK, N, K
<1>2. picks \in Seq(1 .. N)
    BY DEF TypeOK
<1>3. /\ Len(picks) \in Nat
      /\ picks \in [1 .. Len(picks) -> 1 .. N]
      /\ DOMAIN picks = 1 .. Len(picks)
    BY <1>2, LenProperties
<1>4. picks = <<>> <=> Len(picks) = 0
    BY <1>2, EmptySeq
<1>5. next \in Nat
    BY <1>1 DEF TypeOK
<1> QED
    BY <1>1, <1>3, <1>4, <1>5

LEMMA Picks ==
    ASSUME TypeOK, NEW c \in Pick(problem)
    PROVE  /\ c \in [1 .. K -> 1 .. N]
           /\ \A i, j \in 1 .. K : i < j => c[i] + (j - i) <= c[j]
           /\ c # <<>>
<1>1. /\ c \in [1 .. K -> 1 .. N]
      /\ \A i, j \in 1 .. K : i < j => c[i] + (j - i) <= c[j]
    BY DEF Pick, K, N
<1>2. DOMAIN c = 1 .. K /\ 1 \in 1 .. K
    BY <1>1, Sizes
<1>3. DOMAIN <<>> = {}
    OBVIOUS
<1> QED
    BY <1>1, <1>2, <1>3

\* A full set of loop variables is a pick.
LEMMA FullIsPick ==
    ASSUME TypeOK, Shape, Len(picks) = K
    PROVE  /\ picks \in Pick(problem)
           /\ \A c \in Pick(problem) : Completes(c) => c = picks
<1>1. picks \in [1 .. K -> 1 .. N]
    BY Sizes
<1>2. picks \in Pick(problem)
    BY <1>1 DEF Shape, Pick, K, N
<1>3. ASSUME NEW c \in Pick(problem), Completes(c)
      PROVE  c = picks
    <2>1. c \in [1 .. K -> 1 .. N]
        BY Picks
    <2>2. \A i \in 1 .. K : c[i] = picks[i]
        BY <1>3 DEF Completes
    <2> QED
        BY <1>1, <2>1, <2>2
<1> QED
    BY <1>2, <1>3

LEMMA Order ==
    ASSUME problem \in Problem,
           NEW a \in Pick(problem), NEW b \in Pick(problem), NEW c \in Pick(problem)
    PROVE  /\ ~(Better(a, b) /\ Better(b, a))
           /\ Better(a, b) => Better(a, c) \/ Better(c, b)
BY OrderAssumption DEF Better

-----------------------------------------------------------------------------
(* Steps of the search *)

\* What a return leaves on the stack.
LEMMA Popped ==
    ASSUME TypeOK, Return, picks # <<>>
    PROVE  /\ picks' \in Seq(1 .. N)
           /\ Len(picks') = Len(picks) - 1
           /\ \A i \in 1 .. Len(picks) - 1 : picks'[i] = picks[i]
           /\ next' = picks[Len(picks)] + 1
           /\ pc' = "loop"
<1>1. \A i \in 1 .. Len(picks) - 1 : picks[i] \in 1 .. N
    BY Sizes
<1>2. Len(picks) \in Nat /\ Len(picks) >= 1
    BY Sizes
<1>3. picks' = SubSeq(picks, 1, Len(picks) - 1)
    BY DEF Return
<1>a. 1 \in Int /\ Len(picks) - 1 \in Int
    BY <1>2
<1>4. /\ SubSeq(picks, 1, Len(picks) - 1) \in Seq(1 .. N)
      /\ Len(SubSeq(picks, 1, Len(picks) - 1))
           = IF 1 <= Len(picks) - 1 THEN Len(picks) - 1 - 1 + 1 ELSE 0
      /\ \A i \in 1 .. Len(picks) - 1 - 1 + 1 :
            SubSeq(picks, 1, Len(picks) - 1)[i] = picks[1 + i - 1]
    BY <1>1, <1>a, SubSeqProperties
<1>5. Len(picks') = Len(picks) - 1
    <2>1. CASE 1 <= Len(picks) - 1
        BY <1>2, <1>3, <1>4, <2>1
    <2>2. CASE Len(picks) = 1
        BY <1>2, <1>3, <1>4, <2>2
    <2>3. \A n \in Nat : n >= 1 => n = 1 \/ 1 <= n - 1
        OBVIOUS
    <2> QED
        BY <1>2, <2>1, <2>2, <2>3
<1>6. \A i \in 1 .. Len(picks) - 1 : picks'[i] = picks[i]
    BY <1>2, <1>3, <1>4
<1> QED
    BY <1>3, <1>4, <1>5, <1>6 DEF Return

LEMMA ReturnShape ==
    ASSUME TypeOK, Shape, Return, pc \in {"enter", "loop"}, problem' = problem
    PROVE  /\ Shape'
           /\ pc' \in {"enter", "loop", "done"}
           /\ picks' \in Seq(1 .. N) /\ Len(picks') <= K
           /\ next' \in 1 .. N + 1
<1> K' = K /\ N' = N
    BY DEF K, N
<1>1. CASE picks = <<>>
    <2>1. pc' = "done" /\ picks' = <<>> /\ next' = next
        BY <1>1 DEF Return
    <2>2. Len(picks') = 0
        BY <2>1
    <2> QED
        BY <1>1, <2>1, <2>2, Sizes DEF Shape, TypeOK
<1>2. CASE picks # <<>>
    <2>1. /\ picks' \in Seq(1 .. N)
          /\ Len(picks') = Len(picks) - 1
          /\ \A i \in 1 .. Len(picks) - 1 : picks'[i] = picks[i]
          /\ next' = picks[Len(picks)] + 1
          /\ pc' = "loop"
        BY <1>2, Popped
    <2>2. /\ Len(picks) \in Nat /\ Len(picks) >= 1 /\ Len(picks) <= K
          /\ N \in Nat /\ K \in Nat
          /\ \A i \in 1 .. Len(picks) : picks[i] \in 1 .. N
        BY <1>2, Sizes DEF TypeOK
    <2>3. picks[Len(picks)] <= N - K + Len(picks) /\ picks[Len(picks)] \in 1 .. N
        BY <2>2 DEF Shape
    <2>4. next' \in 1 .. N + 1 /\ next' <= N - K + Len(picks') + 2 /\ Len(picks') < K
        BY <2>1, <2>2, <2>3
    <2>5. ASSUME NEW i \in 1 .. Len(picks'), NEW j \in 1 .. Len(picks'), i < j
          PROVE  picks'[i] + (j - i) <= picks'[j]
        <3>1. i \in 1 .. Len(picks) - 1 /\ j \in 1 .. Len(picks) - 1
            BY <2>1, <2>2
        <3>2. i \in 1 .. Len(picks) /\ j \in 1 .. Len(picks)
            BY <2>2, <3>1
        <3>3. picks[i] + (j - i) <= picks[j]
            BY <2>5, <3>2 DEF Shape
        <3>4. picks'[i] = picks[i] /\ picks'[j] = picks[j]
            BY <2>1, <3>1
        <3> QED
            BY <3>3, <3>4
    <2>6. ASSUME NEW i \in 1 .. Len(picks')
          PROVE  picks'[i] + (Len(picks') + 1 - i) <= next' /\ picks'[i] <= N - K + i
        <3>1. i \in 1 .. Len(picks) /\ i < Len(picks) /\ Len(picks) \in 1 .. Len(picks)
            BY <2>1, <2>2
        <3>2. picks[i] + (Len(picks) - i) <= picks[Len(picks)] /\ picks[i] <= N - K + i
            BY <3>1 DEF Shape
        <3>3. i \in 1 .. Len(picks) - 1
            BY <2>1, <2>2
        <3>4. picks'[i] = picks[i]
            BY <2>1, <3>3
        <3>5. picks[i] \in Nat /\ picks[Len(picks)] \in Nat /\ i \in Nat
            BY <2>2, <3>1
        <3>6. picks[i] + (Len(picks) - 1 + 1 - i) <= picks[Len(picks)] + 1
            BY <2>2, <3>2, <3>5
        <3> QED
            BY <2>1, <3>2, <3>4, <3>6
    <2> QED
        BY <2>1, <2>2, <2>4, <2>5, <2>6 DEF Shape
<1> QED
    BY <1>1, <1>2

\* After a return, what is ahead is what comes after an open call's pick.
LEMMA ReturnAhead ==
    ASSUME TypeOK, Return, pc \in {"enter", "loop"}, problem' = problem,
           NEW c \in Pick(problem)
    PROVE  Ahead(c)' <=> Later(c)
<1> K' = K
    BY DEF K
<1>1. CASE picks = <<>>
    <2>1. pc' = "done" /\ picks' = <<>> /\ Len(picks) = 0 /\ Len(picks') = 0
        BY <1>1 DEF Return
    <2> QED
        BY <2>1 DEF Ahead, Later
<1>2. CASE picks # <<>>
    <2>1. /\ Len(picks') = Len(picks) - 1
          /\ \A i \in 1 .. Len(picks) - 1 : picks'[i] = picks[i]
          /\ next' = picks[Len(picks)] + 1
          /\ pc' = "loop"
        BY <1>2, Popped
    <2>2. /\ Len(picks) \in Nat /\ Len(picks) >= 1 /\ Len(picks) <= K /\ K \in Nat
          /\ \A i \in 1 .. Len(picks) : picks[i] \in Nat
          /\ \A i \in 1 .. K : c[i] \in Nat
        BY <1>2, Sizes, Picks DEF TypeOK
    <2>a. Completes(c)' <=> \A i \in 1 .. Len(picks) - 1 : c[i] = picks[i]
        BY <2>1, <2>2 DEF Completes
    <2>b. /\ Len(picks') < K
          /\ next' <= c[Len(picks') + 1] <=> picks[Len(picks)] < c[Len(picks)]
        <3>1. Len(picks') + 1 = Len(picks) /\ Len(picks') < K
            BY <2>1, <2>2
        <3>2. Len(picks) \in 1 .. K /\ c[Len(picks)] \in Nat /\ picks[Len(picks)] \in Nat
            BY <2>2
        <3>3. c[Len(picks') + 1] = c[Len(picks)]
            BY <3>1
        <3>4. picks[Len(picks)] + 1 <= c[Len(picks)] <=> picks[Len(picks)] < c[Len(picks)]
            BY <3>2
        <3> QED
            BY <2>1, <3>1, <3>3, <3>4
    <2>c. Later(c)' <=> \E j \in 1 .. Len(picks) - 1 :
                /\ picks[j] < c[j]
                /\ \A i \in 1 .. j - 1 : c[i] = picks[i]
        <3>1. ASSUME NEW j \in 1 .. Len(picks) - 1
              PROVE  /\ picks'[j] = picks[j]
                     /\ \A i \in 1 .. j - 1 : picks'[i] = picks[i]
            BY <2>1, <2>2
        <3>2. 1 .. Len(picks') = 1 .. Len(picks) - 1
            BY <2>1
        <3> QED
            BY <3>1, <3>2 DEF Later
    <2>d. Ahead(c)' <=>
            \/ pc' # "done" /\ Completes(c)' /\ (Len(picks') < K => next' <= c[Len(picks') + 1])
            \/ Later(c)'
        BY DEF Ahead, Later
    <2>3. Ahead(c)' <=>
            \/ /\ \A i \in 1 .. Len(picks) - 1 : c[i] = picks[i]
               /\ picks[Len(picks)] < c[Len(picks)]
            \/ \E j \in 1 .. Len(picks) - 1 : /\ picks[j] < c[j]
                                              /\ \A i \in 1 .. j - 1 : c[i] = picks[i]
        BY <2>1, <2>a, <2>b, <2>c, <2>d
    <2> QED
        BY <2>2, <2>3 DEF Later
<1> QED
    BY <1>1, <1>2

\* A return from a call with nothing left to find keeps the invariant, if
\* best stays.
LEMMA ReturnKeeps ==
    ASSUME IInv, Return, pc \in {"enter", "loop"}, UNCHANGED <<problem, best>>,
           \A c \in Pick(problem) :
               Ahead(c) => Later(c) \/ (best # <<>> /\ (c = best \/ Preferred(best, c)))
    PROVE  IInv'
<1> K' = K /\ N' = N
    BY DEF K, N
<1>1. TypeOK' /\ Shape'
    BY ReturnShape DEF IInv, TypeOK
<1>2. \A c \in Pick(problem) : Ahead(c)' <=> Later(c)
    BY ReturnAhead DEF IInv
<1>3. \A c \in Pick(problem) : Later(c) => Ahead(c)
    BY DEF Later, Ahead
<1>4. \A x, y : Preferred(x, y)' <=> Preferred(x, y)
    BY DEF Preferred, Better, Before
<1>5. NothingLost'
    BY <1>2, <1>4 DEF IInv, NothingLost
<1>6. BestFirst'
    BY <1>2, <1>3 DEF IInv, BestFirst, Before
<1> QED
    BY <1>1, <1>5, <1>6 DEF IInv

LEMMA LeafKeeps ==
    ASSUME IInv, Leaf
    PROVE  IInv'
<1> USE DEF IInv
<1> K' = K /\ N' = N /\ problem' = problem /\ Return /\ pc = "enter" /\ Len(picks) = K
    BY DEF Leaf, K, N
<1>1. picks \in Pick(problem) /\ \A c \in Pick(problem) : Completes(c) => c = picks
    BY FullIsPick
<1>2. picks # <<>>
    BY <1>1, Picks
<1>3. \A c \in Pick(problem) : Ahead(c) <=> c = picks \/ Later(c)
    BY <1>1 DEF Ahead, Later, Completes
<1>4. CASE ~Improves(picks)
    <2>1. best' = best /\ best # <<>> /\ ~Better(picks, best)
        BY <1>4 DEF Leaf, Improves
    <2>2. Before(best, picks)
        BY <1>1, <1>3, <2>1 DEF BestFirst
    <2>3. Preferred(best, picks)
        BY <2>1, <2>2 DEF Preferred
    <2> QED
        BY <1>3, <2>1, <2>3, ReturnKeeps
<1>5. CASE Improves(picks)
    <2>1. best' = picks
        BY <1>5 DEF Leaf
    <2>2. TypeOK' /\ Shape'
        <3>1. Shape' /\ pc' \in {"enter", "loop", "done"} /\ picks' \in Seq(1 .. N)
                     /\ Len(picks') <= K /\ next' \in 1 .. N + 1
            BY ReturnShape
        <3> QED
            BY <1>1, <2>1, <3>1 DEF TypeOK
    <2>3. \A c \in Pick(problem) : Ahead(c)' <=> Later(c)
        BY ReturnAhead
    <2>4. \A x, y : Better(x, y)' <=> Better(x, y)
        BY DEF Better
    <2>5. ASSUME NEW c \in Pick(problem), ~Later(c)
          PROVE  c = picks \/ Better(picks, c)
        <3>1. CASE Ahead(c)
            BY <1>3, <2>5, <3>1
        <3>2. CASE ~Ahead(c)
            <4>1. best # <<>> /\ (c = best \/ Preferred(best, c))
                BY <3>2 DEF NothingLost
            <4>2. best \in Pick(problem) /\ Better(picks, best)
                BY <1>5, <4>1 DEF TypeOK, Improves
            <4>3. CASE c = best
                BY <4>2, <4>3
            <4>4. CASE Better(best, c) \/ ~Better(c, best)
                <5>1. ~Better(c, best)
                    BY <4>2, <4>4, Order DEF TypeOK
                <5> QED
                    BY <1>1, <4>2, <5>1, Order DEF TypeOK
            <4> QED
                BY <4>1, <4>3, <4>4 DEF Preferred
        <3> QED
            BY <3>1, <3>2
    <2>6. NothingLost'
        BY <1>2, <2>1, <2>3, <2>4, <2>5 DEF NothingLost, Preferred
    <2>7. \A c \in Pick(problem) : Later(c) => Before(picks, c)
        BY Sizes DEF Later, Before
    <2>8. BestFirst'
        BY <2>1, <2>3, <2>7 DEF BestFirst, Before
    <2> QED
        BY <2>2, <2>6, <2>8
<1> QED
    BY <1>4, <1>5

LEMMA CutKeeps ==
    ASSUME IInv, Cut
    PROVE  IInv'
<1> USE DEF IInv
<1>1. Return /\ pc = "enter" /\ UNCHANGED <<problem, best>> /\ Len(picks) < K
    BY DEF Cut
<1>2. best # <<>> /\ \A c \in Pick(problem) : Completes(c) => ~Better(c, best)
    BY DEF Cut, Hopeless
<1>3. ASSUME NEW c \in Pick(problem), Ahead(c), ~Later(c)
      PROVE  Preferred(best, c)
    <2>1. Completes(c)
        BY <1>3 DEF Ahead, Later
    <2>2. Before(best, c)
        BY <1>2, <1>3 DEF BestFirst
    <2> QED
        BY <1>2, <2>1, <2>2 DEF Preferred
<1> QED
    BY <1>1, <1>2, <1>3, ReturnKeeps

LEMMA ExhaustedKeeps ==
    ASSUME IInv, Exhausted
    PROVE  IInv'
<1> USE DEF IInv
<1>1. /\ Return /\ pc = "loop" /\ UNCHANGED <<problem, best>> /\ Len(picks) < K
      /\ next > N - (K - Len(picks)) + 1
    BY DEF Exhausted, Shape, LastStart
<1>2. ASSUME NEW c \in Pick(problem), Ahead(c), ~Later(c)
      PROVE  FALSE
    <2>1. next <= c[Len(picks) + 1]
        BY <1>1, <1>2 DEF Ahead, Later
    <2>2. /\ N \in Nat /\ K \in Nat /\ Len(picks) \in Nat /\ next \in Nat
          /\ c \in [1 .. K -> 1 .. N]
          /\ \A i, j \in 1 .. K : i < j => c[i] + (j - i) <= c[j]
        BY Sizes, Picks
    <2>3. Len(picks) + 1 \in 1 .. K /\ K \in 1 .. K
        BY <1>1, <2>2
    <2>4. c[Len(picks) + 1] \in 1 .. N /\ c[K] \in 1 .. N
        BY <2>2, <2>3
    <2>5. c[Len(picks) + 1] + (K - (Len(picks) + 1)) <= N
        <3>1. CASE Len(picks) + 1 = K
            BY <2>2, <2>4, <3>1
        <3>2. CASE Len(picks) + 1 < K
            <4>1. c[Len(picks) + 1] + (K - (Len(picks) + 1)) <= c[K]
                BY <2>2, <2>3, <3>2
            <4> QED
                BY <2>2, <2>3, <2>4, <4>1
        <3> QED
            BY <2>2, <2>3, <3>1, <3>2
    <2> QED
        BY <1>1, <2>1, <2>2, <2>4, <2>5
<1> QED
    BY <1>1, <1>2, ReturnKeeps

\* Going into a call, or into its loop, changes nothing of what is ahead.
LEMMA OpenKeeps ==
    ASSUME IInv, Open
    PROVE  IInv'
<1> USE DEF IInv
<1>1. /\ pc = "enter" /\ pc' = "loop" /\ Len(picks) < K
      /\ UNCHANGED <<problem, picks, next, best>> /\ K' = K /\ N' = N
    BY DEF Open, K, N
<1>2. TypeOK'
    BY <1>1 DEF TypeOK
<1>3. Shape'
    BY <1>1, Sizes DEF Shape
<1>4. \A c : Ahead(c)' <=> Ahead(c)
    BY <1>1 DEF Ahead, Completes
<1>5. \A x, y : Preferred(x, y)' <=> Preferred(x, y)
    BY <1>1 DEF Preferred, Better, Before
<1>6. NothingLost' /\ BestFirst'
    BY <1>1, <1>4, <1>5 DEF NothingLost, BestFirst, Before
<1> QED
    BY <1>2, <1>3, <1>6

LEMMA ChooseKeeps ==
    ASSUME IInv, Choose
    PROVE  IInv'
<1> USE DEF IInv
<1> DEFINE L == Len(picks)
<1>1. /\ pc = "loop" /\ pc' = "enter" /\ UNCHANGED <<problem, best>>
      /\ next <= N - (K - L) + 1 /\ picks' = Append(picks, next) /\ next' = next + 1
      /\ K' = K /\ N' = N /\ L < K
    BY DEF Choose, LastStart, K, N, Shape
<1>2. /\ N \in Nat /\ K \in Nat /\ L \in Nat /\ next \in Nat /\ K <= N
      /\ picks \in Seq(1 .. N) /\ \A i \in 1 .. L : picks[i] \in 1 .. N
    BY Sizes DEF TypeOK
<1>3. next \in 1 .. N
    BY <1>1, <1>2 DEF TypeOK
<1>4. /\ picks' \in Seq(1 .. N)
      /\ Len(picks') = L + 1
      /\ \A i \in 1 .. L : picks'[i] = picks[i]
      /\ picks'[L + 1] = next
    BY <1>1, <1>2, <1>3, AppendProperties
<1>5. TypeOK'
    BY <1>1, <1>2, <1>3, <1>4 DEF TypeOK
<1>6. Shape'
    <2>1. ASSUME NEW i \in 1 .. L + 1, NEW j \in 1 .. L + 1, i < j
          PROVE  picks'[i] + (j - i) <= picks'[j]
        <3>1. i \in 1 .. L
            BY <1>2, <2>1
        <3>2. CASE j = L + 1
            BY <1>4, <3>1, <3>2 DEF Shape
        <3>3. CASE j # L + 1
            <4>1. j \in 1 .. L
                BY <1>2, <3>3
            <4> QED
                BY <1>4, <2>1, <3>1, <4>1 DEF Shape
        <3> QED
            BY <3>2, <3>3
    <2>2. ASSUME NEW i \in 1 .. L + 1
          PROVE  picks'[i] + (L + 1 + 1 - i) <= next + 1 /\ picks'[i] <= N - K + i
        <3>1. CASE i = L + 1
            BY <1>1, <1>2, <1>4, <3>1
        <3>2. CASE i # L + 1
            <4>1. i \in 1 .. L
                BY <1>2, <3>2
            <4>2. picks[i] + (L + 1 - i) <= next /\ picks[i] <= N - K + i /\ picks[i] \in Nat
                BY <1>2, <4>1 DEF Shape
            <4>3. picks[i] + (L + 1 + 1 - i) <= next + 1
                BY <1>2, <4>1, <4>2
            <4> QED
                BY <1>4, <4>1, <4>2, <4>3
        <3> QED
            BY <3>1, <3>2
    <2>3. next + 1 <= N - K + (L + 1) + 1
        BY <1>1, <1>2
    <2> QED
        BY <1>1, <1>4, <2>1, <2>2, <2>3 DEF Shape
<1>7. ASSUME NEW c \in Pick(problem)
      PROVE  Ahead(c)' <=> Ahead(c)
    <2>1. /\ c \in [1 .. K -> 1 .. N]
          /\ \A i, j \in 1 .. K : i < j => c[i] + (j - i) <= c[j]
        BY Picks
    <2>2. L + 1 \in 1 .. K /\ c[L + 1] \in Nat
        BY <1>1, <1>2, <2>1
    <2>3. Completes(c)' <=> Completes(c) /\ c[L + 1] = next
        <3>1. \A i : i \in 1 .. L + 1 <=> i \in 1 .. L \/ i = L + 1
            BY <1>2
        <3> QED
            BY <1>4, <3>1 DEF Completes
    <2>4. c[L + 1] = next /\ L + 1 < K => next + 1 <= c[L + 2]
        <3>1. SUFFICES ASSUME c[L + 1] = next, L + 1 < K
                       PROVE  next + 1 <= c[L + 2]
            OBVIOUS
        <3>2. L + 2 \in 1 .. K /\ L + 1 < L + 2 /\ (L + 2) - (L + 1) = 1
            BY <1>2, <3>1
        <3>3. c[L + 1] + ((L + 2) - (L + 1)) <= c[L + 2]
            BY <2>1, <2>2, <3>2
        <3> QED
            BY <3>1, <3>2, <3>3
    <2>5. Ahead(c)' <=> Completes(c)' \/ Later(c)'
        <3>1. Len(picks') + 1 = L + 2
            BY <1>2, <1>4
        <3>2. Completes(c)' /\ Len(picks') < K => next' <= c[Len(picks') + 1]
            BY <1>1, <1>4, <2>3, <2>4, <3>1
        <3> QED
            BY <1>1, <3>2 DEF Ahead, Later
    <2>6. Later(c)' <=> Later(c) \/ (Completes(c) /\ next < c[L + 1])
        <3>1. \A j : j \in 1 .. L + 1 <=> j \in 1 .. L \/ j = L + 1
            BY <1>2
        <3>2. \A j \in 1 .. L : \A i \in 1 .. j - 1 : picks'[i] = picks[i]
            BY <1>2, <1>4
        <3>3. 1 .. (L + 1) - 1 = 1 .. L
            BY <1>2
        <3>4. (\A i \in 1 .. (L + 1) - 1 : c[i] = picks'[i]) <=> Completes(c)
            BY <1>4, <3>3 DEF Completes
        <3>5. ASSUME NEW j \in 1 .. L
              PROVE  (picks'[j] < c[j] /\ \A i \in 1 .. j - 1 : c[i] = picks'[i])
                        <=> (picks[j] < c[j] /\ \A i \in 1 .. j - 1 : c[i] = picks[i])
            BY <1>4, <3>2
        <3> QED
            BY <1>4, <3>1, <3>4, <3>5 DEF Later
    <2>7. Ahead(c) <=> (Completes(c) /\ next <= c[L + 1]) \/ Later(c)
        BY <1>1 DEF Ahead, Later
    <2>8. next <= c[L + 1] <=> next = c[L + 1] \/ next < c[L + 1]
        BY <1>2, <2>2
    <2> QED
        BY <2>3, <2>5, <2>6, <2>7, <2>8
<1>8. \A x, y : Preferred(x, y)' <=> Preferred(x, y)
    BY <1>1 DEF Preferred, Better, Before
<1>9. NothingLost' /\ BestFirst'
    BY <1>1, <1>7, <1>8 DEF NothingLost, BestFirst, Before
<1> QED
    BY <1>5, <1>6, <1>9

-----------------------------------------------------------------------------
(* The theorems *)

LEMMA InitInv == Init => IInv
<1> SUFFICES ASSUME Init PROVE IInv
    OBVIOUS
<1>1. /\ problem \in Problem /\ pc = "enter" /\ picks = <<>> /\ next = 1 /\ best = <<>>
    BY DEF Init
<1>2. N \in Nat /\ K \in 1 .. N
    BY <1>1, SizeAssumption DEF N, K
<1>3. Len(picks) = 0 /\ picks \in Seq(1 .. N)
    BY <1>1
<1>4. TypeOK
    BY <1>1, <1>2, <1>3 DEF TypeOK
<1>5. Shape
    BY <1>1, <1>2, <1>3 DEF Shape
<1>6. ASSUME NEW c \in Pick(problem)
      PROVE  Ahead(c)
    <2>1. c \in [1 .. K -> 1 .. N] /\ 1 \in 1 .. K
        BY <1>2, <1>4, Picks
    <2>2. next <= c[1]
        BY <1>1, <2>1
    <2> QED
        BY <1>1, <1>3, <2>2 DEF Ahead, Completes
<1> QED
    BY <1>1, <1>4, <1>5, <1>6 DEF IInv, NothingLost, BestFirst

\* The inductive invariant: beside the type and the shape of the stack, nothing
\* that was passed is preferable to best, and everything ahead comes after it.
THEOREM SearchInvariance == Spec => []IInv
<1>1. ASSUME IInv, [Next]_vars
      PROVE  IInv'
    <2>1. CASE Leaf
        BY <1>1, <2>1, LeafKeeps
    <2>2. CASE Cut
        BY <1>1, <2>2, CutKeeps
    <2>3. CASE Open
        BY <1>1, <2>3, OpenKeeps
    <2>4. CASE Choose
        BY <1>1, <2>4, ChooseKeeps
    <2>5. CASE Exhausted
        BY <1>1, <2>5, ExhaustedKeeps
    <2>6. CASE UNCHANGED vars
        BY <1>1, <2>6 DEF vars, IInv, TypeOK, Shape, NothingLost, BestFirst, Ahead, Completes,
            Preferred, Better, Before, K, N
    <2> QED
        BY <1>1, <2>1, <2>2, <2>3, <2>4, <2>5, <2>6 DEF Next, Finished
<1> QED
    BY <1>1, InitInv, PTL DEF Spec

\* The variables of the search keep their types: no loop runs past its candidates.
THEOREM TypeCorrect == Spec => []TypeOK
BY SearchInvariance, PTL DEF IInv

\* The loops, the returns and the skipped calls lose no pick that would win.
THEOREM NothingIsLost == Spec => []NothingLost
BY SearchInvariance, PTL DEF IInv

\* For any number of candidates, any score and any sound bounds, the search of
\* topology_allocator.go ends with the optimum, the first in the order of IDs.
THEOREM SearchIsExact == Spec => []Exact
<1>1. ASSUME IInv
      PROVE  Exact
    <2>1. SUFFICES ASSUME pc = "done"
                   PROVE  /\ best \in Pick(problem)
                          /\ \A c \in Pick(problem) : c = best \/ Preferred(best, c)
        BY DEF Exact
    <2>2. picks = <<>> /\ Len(picks) = 0
        BY <1>1, <2>1 DEF IInv, Shape
    <2>3. \A c \in Pick(problem) : ~Ahead(c)
        BY <2>1, <2>2 DEF Ahead
    <2>4. \A c \in Pick(problem) : best # <<>> /\ (c = best \/ Preferred(best, c))
        BY <1>1, <2>3 DEF IInv, NothingLost
    <2>5. [i \in 1 .. K |-> i] \in Pick(problem)
        <3>1. N \in Nat /\ K \in Nat /\ K <= N
            BY <1>1, Sizes DEF IInv
        <3>2. [i \in 1 .. K |-> i] \in [1 .. K -> 1 .. N]
            BY <3>1
        <3> QED
            BY <3>1, <3>2 DEF Pick, K, N
    <2> QED
        BY <1>1, <2>4, <2>5 DEF IInv, TypeOK
<1> QED
    BY <1>1, SearchInvariance, PTL
=============================================================================
