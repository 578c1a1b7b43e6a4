\* The comment says a waiter whose owner is gone builds the tape itself.
SPECIFICATION Spec
CONSTANTS
    Sims = {s1}
    Callers = {c1, c2}
    MaxTapes = 1
    NoSim = NoSim
PROPERTIES
    WaitersDoNotHang
