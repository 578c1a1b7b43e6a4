\* Two requests of one replica serve and cache the steps of two simulations.
SPECIFICATION Spec
CONSTANTS
    s1 = s1
    s2 = s2
    Simulations = {s1, s2}
    Requests = {r1, r2}
    Nothing = Nothing
    NotFinite = NotFinite
    Nowhere = Nowhere
    Blank = Blank
    Text = Text
    DayTicks = 4
    FirstOf <- Calendar
    MaxRules = 3
    MaxTargetCount = 3
    MaxExpirations = 5
    One = 100
    Exp <- ExpHundredths
    Log <- LogHundredths
    Root <- RootHundredths
    MaxDecimal = 5000
    Samples <- Streams
    Symbols = {"SPX"}
    Zones <- KnownZones
    Times = {0, 3}
    Calendars = {"weekdays_v1"}
    FrameTicks <- TicksOf
    YearTicks = 1460
    YearFactor <- RootPeriods
    MinInterval = 1
    MaxInterval = 8
    DefaultChainSize = 1
    Offered <- OfferedParameters
    Defaults <- UnsetValues
    Ceilings <- LargestValues
    Environments <- SomeEnvironments
    Clock = {212}
    Seeds = {2}
    LongestHorizon = 5
    LaterPrices = {40, 100}
INVARIANTS
    InventoryIsComplete
    WorkIsBounded
    RowsFitTheWarehouse
    RowsIgnoreTheFuture
    RefusalsAreForeseen
    CacheIsExact
