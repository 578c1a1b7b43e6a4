\* The simulator says a rebuilt walk replays the identical price series.
SPECIFICATION Spec
CONSTANTS
    p1 = p1
    p2 = p2
    r1 = r1
    r2 = r2
    Replicas = {p1}
    Requests = {r1, r2}
    Home <- OneReplica
    Seeds = {1, 2}
    Horizons = {1, 2}
    Loads <- Drifting
    Absent = Absent
    Tables <- GrowingTables
    Frame = "day"
    Interval <- Ticks
    Span <- Ticks
    DayTicks = 2
    Draw <- FirstOrLast
    NoSymbol = NoSymbol
    Keep = Keep
    NoWalk = NoWalk
    NoStep = NoStep
    NoCall = NoCall
INVARIANTS
    RebuildsAreIdentical
