SPECIFICATION Spec
CONSTANT
    Problems <- MCProblems
    impossiblePCICost = 1000000
INVARIANTS
    TypeOK
    ScoreMatchesChosen
    BoundsAdmissible
    AnswerValid
    AnswerOptimal
PROPERTY
    RefinesBranchAndBound
