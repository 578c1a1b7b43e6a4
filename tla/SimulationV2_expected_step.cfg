\* The handler says an advance carrying expected_step cannot double-advance.
SPECIFICATION Spec
CONSTANTS
    s1 = s1
    p1 = p1
    p2 = p2
    r1 = r1
    r2 = r2
    Absent = Absent
    NoStep = NoStep
    NoCall = NoCall
    Sims <- OneSim
    Steps <- TwoSteps
    Replicas = {p1}
    Requests = {r1, r2}
    Home <- OneReplica
INVARIANTS
    ExpectedStepHonoured
