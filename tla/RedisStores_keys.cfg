\* Two simulations and a session on one server, with a clock of half seconds.
SPECIFICATION Spec
CONSTANTS
    TicksPerSecond = 2
    MaxTime = 8
    MaxVersion = 2
    Absent = Absent
    Simulations = {s1, s2}
    Retention = 2
    Batch = 1
    Sessions = {u1}
    SessionTtl = 2
SYMMETRY Interchangeable
INVARIANTS
    KeysAgree
    EndsAreReported
PROPERTIES
    ImplementsStore
