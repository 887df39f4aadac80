SPECIFICATION Spec
CONSTANTS
    Sched = sched
    Vtimers = {v1, v2}
    Slice = 2
    MaxDelay = 1
INVARIANTS
    NeverSleptThrough
PROPERTIES
    WholeSlice
    SchedulingGoesOn
    VtimerFires
