CONSTANTS
    Proc = {p1, p2}
    Thread = {t1, t2}
    MaxNow = 3
    MaxNet = 2
    Window = 1
    i32_max = 1
    Unset = Unset
SPECIFICATION Spec
SYMMETRY Symmetry
INVARIANTS
    ClockMonotonic
PROPERTIES
    RejectionNeedsOlderProcess
