\* Two requests, one on each of two replicas, racing for one simulation.
SPECIFICATION Spec
CONSTANTS
    s1 = s1
    p1 = p1
    p2 = p2
    r1 = r1
    r2 = r2
    Absent = Absent
    NoStep = NoStep
    NoCall = NoCall
    Sims <- OneSim
    Steps <- TwoSteps
    Replicas = {p1, p2}
    Requests = {r1, r2}
    Home <- TwoReplicas
SYMMETRY Exchange
INVARIANTS
    WellFormed
    EachStepConsumedOnce
    AnswerIsOwnCommit
    ConflictMeansProgress
    AnswerIsCurrent
    NothingServedAfterRemoval
PROPERTIES
    ImplementsCursor
