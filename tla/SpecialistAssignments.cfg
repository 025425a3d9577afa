CONSTANTS
    Tasks = {t1, t2}
    Agents = {a1, a2}
    Projects = {"p1"}
    Workspaces = {"w1"}
    ProjectOf <- MCProjectOf
    Assignments = {x1, x2}
    Leases = {l1, l2}
    Segments = {"src", "api", "x", "docs", ".", ""}
    Paths <- MCPaths
    Scopes <- MCScopes
    Whole = "*"
    None = None
    MaxBacklog = 0
    MaxFaults = 1
SPECIFICATION Spec
SYMMETRY Symmetry
INVARIANTS
    TypeOK
    
    
CHECK_DEADLOCK FALSE
