\* Two advances of two simulations, a channel of two records, room for three rows.
SPECIFICATION Spec
CONSTANTS
    Sims = {s1, s2}
    Horizon = 2
    Weight <- OneOrTwoRows
    Largest = 2
    Advances = {a1, a2}
    Depth = 2
    Budget = 3
    NoRecord = NoRecord
INVARIANTS
    CounterIsExact
    OvershootIsBounded
    FiledIsCommitted
    EachStepSentOnce
PROPERTIES
    QueueDrains
