SPECIFICATION Spec
CONSTANTS
    Sizes <- MCSizes
    MaxScore = 2
    Problem <- MCProblem
    Candidates <- MCCandidates
    Remaining <- MCRemaining
    Score <- MCScore
    Less <- MCLess
INVARIANTS
    TypeOK
    Exact
    NothingLost
