\* Callers that may disconnect anywhere, more simulations than tapes.
SPECIFICATION Spec
CONSTANTS
    Sims = {s1, s2, s3}
    Callers = {c1, c2}
    MaxTapes = 2
    NoSim = NoSim
INVARIANTS
    OneBuildAtATime
    WaiterHasEntry
PROPERTIES
    FilingKeepsTheNewTape
    OnlyADisconnectOrphans
    CallersAreAnswered
