CONSTANTS
    Proc = {p1, p2}
    Thread = {t1, t2}
    MaxNow = 4
    MaxNet = 2
    Window = 1
    i32_max = 3
    Unset = Unset
SPECIFICATION Spec
INVARIANTS
    EngineTimeSinceProcessStart
