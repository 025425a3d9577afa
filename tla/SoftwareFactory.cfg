CONSTANTS
    Programs = {p1}
    Workstreams = {w1}
    Ticks = {k1, k2}
    None = None
    MaxTasks = 4
    MaxPlan = 2
    MaxBacklog = 0
    MaxRestarts = 1
    MaxLost = 1
    MaxCancels = 1
    MaxMishaps = 1
SPECIFICATION Spec
SYMMETRY Symmetry
INVARIANTS
    TypeOK
    DependenciesFirst
    SubmittedOnce
    DependenciesStayKnown
    DrainedIsDurable
CHECK_DEADLOCK FALSE
