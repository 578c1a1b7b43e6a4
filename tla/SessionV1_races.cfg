\* Two requests racing for one session, its parameters and its cached walk, or
\* one request at a time with every kind of update.
SPECIFICATION Spec
CONSTANTS
    p1 = p1
    p2 = p2
    r1 = r1
    r2 = r2
    Replicas = {p1}
    Requests = {r1, r2}
    Home <- OneReplica
    Seeds = {1, 2}
    Horizons = {1, 2}
    Loads <- RacingOrAlone
    Absent = Absent
    Tables <- GrowingTables
    Frame = "day"
    Interval <- Ticks
    Span <- Ticks
    DayTicks = 2
    Draw <- FirstOrLast
    NoSymbol = NoSymbol
    Keep = Keep
    NoWalk = NoWalk
    NoStep = NoStep
    NoCall = NoCall
SYMMETRY Interchangeable
INVARIANTS
    SessionMatchesHistory
    AnswerIsOwnWrite
    ConflictMeansProgress
    AloneWalkIsCurrent
    AloneUpdatesAreHonoured
    AloneTapeIsOneSeries
    SeriesIsSettled
PROPERTIES
    ImplementsCursor
