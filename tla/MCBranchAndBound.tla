-------------------------- MODULE MCBranchAndBound --------------------------
(* Model-checking instance of BranchAndBound: every assignment of scores to *)
(* the picks of every request of the given sizes.                           *)
EXTENDS BranchAndBound

CONSTANTS
    Sizes,     \* pairs <<candidates, picked>>
    MaxScore   \* the largest score

MCCandidates(p) == p.size[1]
MCRemaining(p) == p.size[2]
MCScore(p, c) == p.score[c]
MCLess(a, b) == a < b

Increasing(n, k) ==
    {c \in [1 .. k -> 1 .. n] : \A i, j \in 1 .. k : i < j => c[i] < c[j]}

MCProblem ==
    UNION {[size : {s}, score : [Increasing(s[1], s[2]) -> 0 .. MaxScore]] : s \in Sizes}

MCSizes == {<<3, 2>>, <<3, 3>>, <<4, 1>>, <<4, 2>>, <<4, 3>>}
=============================================================================
