--------------------------- MODULE BranchAndBound ---------------------------
(***************************************************************************)
(* What allocationSearch.search (topology_allocator.go) relies on, without *)
(* scores, counters or bounds: a depth-first enumeration of the ways to    *)
(* pick Remaining(p) of Candidates(p) candidates in increasing order, in   *)
(* which a subtree may be skipped whenever nothing in it beats the best    *)
(* pick so far.  It need not be: every rule for skipping that is sound is  *)
(* a special case.                                                         *)
(*                                                                         *)
(* A problem p is a request together with the devices it may use.  The     *)
(* recursion's stack is the sequence of the loop variables i of the calls  *)
(* that are open, which is also what has been picked.                      *)
(***************************************************************************)
EXTENDS Naturals, Sequences

CONSTANTS
    Problem,         \* the requests
    Candidates(_),   \* how many candidates each has
    Remaining(_),    \* and how many are to be picked
    Score(_, _),     \* the score of a pick
    Less(_, _)       \* the order of scores

\* The picks of p in increasing order.  Differences of an increasing sequence
\* of integers are at least the differences of its indices.
Pick(p) ==
    {c \in [1 .. Remaining(p) -> 1 .. Candidates(p)] :
        \A i, j \in 1 .. Remaining(p) : i < j => c[i] + (j - i) <= c[j]}

\* selectPreferredDeviceIDs only searches when there is something to choose.
ASSUME SizeAssumption ==
    \A p \in Problem :
        /\ Candidates(p) \in Nat
        /\ Remaining(p) \in 1 .. Candidates(p)

\* less is a strict order whose ties are transitive (a lexicographic order of
\* vectors of integers is one).
ASSUME OrderAssumption ==
    \A p \in Problem : \A a, b, c \in Pick(p) :
        /\ ~(Less(Score(p, a), Score(p, b)) /\ Less(Score(p, b), Score(p, a)))
        /\ Less(Score(p, a), Score(p, b)) =>
               Less(Score(p, a), Score(p, c)) \/ Less(Score(p, c), Score(p, b))

VARIABLES
    problem,  \* the request that is searched
    pc,       \* "enter" a call of search, "loop" in it, or "done"
    picks,    \* the loop variable of every open call above this one
    next,     \* start, then the loop variable, of this call
    best      \* the best pick so far, <<>> if there is none

vars == <<problem, pc, picks, next, best>>

K == Remaining(problem)
N == Candidates(problem)
Better(a, b) == Less(Score(problem, a), Score(problem, b))

Init ==
    /\ problem \in Problem
    /\ pc = "enter"
    /\ picks = <<>>
    /\ next = 1
    /\ best = <<>>

\* The call returns, and its caller goes on with its loop.
Return ==
    IF picks = <<>>
    THEN pc' = "done" /\ UNCHANGED <<picks, next>>
    ELSE /\ pc' = "loop"
         /\ next' = picks[Len(picks)] + 1
         /\ picks' = SubSeq(picks, 1, Len(picks) - 1)

\* Mutant of Improves: the last of equals wins.
ImprovesOrTies(c) == best = <<>> \/ ~Better(best, c)

Improves(c) == best = <<>> \/ Better(c, best)

\* remaining = 0
Leaf ==
    /\ pc = "enter"
    /\ Len(picks) = K
    /\ best' = IF Improves(picks) THEN picks ELSE best
    /\ Return
    /\ UNCHANGED problem

\* The picks that this call could still find.
Completes(c) == \A i \in 1 .. Len(picks) : c[i] = picks[i]

\* Nothing in the subtree of this call is better than best.
Hopeless == best # <<>> /\ \A c \in Pick(problem) : Completes(c) => ~Better(c, best)

\* The call is skipped.
Cut ==
    /\ pc = "enter"
    /\ Len(picks) < K
    /\ Hopeless
    /\ Return
    /\ UNCHANGED <<problem, best>>

\* It is not.
Open ==
    /\ pc = "enter"
    /\ Len(picks) < K
    /\ pc' = "loop"
    /\ UNCHANGED <<problem, picks, next, best>>

\* Mutant of LastStart: it does not leave enough candidates.
LastStartLate == N - (K - Len(picks)) + 2

\* Mutant of LastStart: the loop ends one candidate early.
LastStartShort == N - (K - Len(picks))

\* The last candidate that leaves enough of them.
LastStart == N - (K - Len(picks)) + 1

\* One turn of the loop: pick a candidate and recurse.
Choose ==
    /\ pc = "loop"
    /\ next <= LastStart
    /\ picks' = Append(picks, next)
    /\ next' = next + 1
    /\ pc' = "enter"
    /\ UNCHANGED <<problem, best>>

\* The loop is over.
Exhausted ==
    /\ pc = "loop"
    /\ next > LastStart
    /\ Return
    /\ UNCHANGED <<problem, best>>

Finished == pc = "done" /\ UNCHANGED vars

Next == Leaf \/ Cut \/ Open \/ Choose \/ Exhausted \/ Finished

Spec == Init /\ [][Next]_vars

-----------------------------------------------------------------------------
(* Properties *)

\* a precedes b in the order of device IDs.
Before(a, b) ==
    \E j \in DOMAIN a : a[j] < b[j] /\ \A i \in 1 .. j - 1 : a[i] = b[i]

\* a is to be preferred to b: it is better, or as good and comes first.
Preferred(a, b) == Better(a, b) \/ (~Better(b, a) /\ Before(a, b))

\* Every variable has its type, and picks is the beginning of a pick that
\* next can go on with.
TypeOK ==
    /\ problem \in Problem
    /\ pc \in {"enter", "loop", "done"}
    /\ picks \in Seq(1 .. N)
    /\ Len(picks) <= K
    /\ next \in 1 .. N + 1
    /\ best \in Pick(problem) \cup {<<>>}

\* Whatever was skipped, a search that is done has found the first of the best
\* picks: "exact for the documented score" (topology_allocator.go:126) and, with
\* sorted IDs, "the lexicographic winner".
Exact ==
    pc = "done" => /\ best \in Pick(problem)
                   /\ \A c \in Pick(problem) : c = best \/ Preferred(best, c)

\* c is still ahead of the search: in the subtree of this call, from candidate
\* next on, or after one of the open calls' loop variables.
Ahead(c) ==
    \/ pc # "done" /\ Completes(c) /\ (Len(picks) < K => next <= c[Len(picks) + 1])
    \/ \E j \in 1 .. Len(picks) : /\ picks[j] < c[j]
                                  /\ \A i \in 1 .. j - 1 : c[i] = picks[i]

\* At any time what was visited or skipped is best, or best is preferred to it:
\* the loops and the returns leave no pick out, and no skip loses a winner, not
\* even one that wins by its place in the order.
NothingLost ==
    \A c \in Pick(problem) :
        Ahead(c) \/ (best # <<>> /\ (c = best \/ Preferred(best, c)))
=============================================================================
