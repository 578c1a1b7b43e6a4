\* One export at a time from a warehouse that is written, failing and expiring.
SPECIFICATION Spec
CONSTANTS
    Horizon = 5
    Count <- RowCounts
    Unstorable = {4}
    BatchRows = 2
    MaxReadRows = 1
    Writers = {w1}
    NoStep = NoStep
    Queries <- SomeQueries
    MaxRows = 5
    Window = 4
    Capacity = 1
    Unset = Unset
    NoExport = NoExport
    DecimalScale = 2
    MaxMantissa = 792
    MaxColumn = 1701
    Instants <- Representable
    Snapshots <- Priced
INVARIANTS
    WindowHoldsWholeSteps
    FailuresAreBounded
    ServedAsPriced
PROPERTIES
    MarkerFollowsRows
    DisconnectStopsProducer
    ImplementsReplay
