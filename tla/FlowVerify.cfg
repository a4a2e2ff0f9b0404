SPECIFICATION Spec
CHECK_DEADLOCK FALSE
CONSTANTS
    Nodes <- MCNodes
    Questions <- MCQuestions
    Values <- MCValues
    MaxFields = 2
    MaxSteps = 6
INVARIANTS
    CandidatesCover
    NoMeansNo
    YesIsWitnessed
    StuckIsWarned
    DeadIsDead
