CONSTANTS
    Programs = {p1}
    Workstreams = {w1}
    Ticks = {k1, k2}
    None = None
    MaxTasks = 4
    MaxPlan = 2
    MaxBacklog = 0
    MaxRestarts = 0
    MaxLost = 0
    MaxCancels = 1
    MaxMishaps = 1
SPECIFICATION Spec
INVARIANT PlannedIsListed
CHECK_DEADLOCK FALSE
