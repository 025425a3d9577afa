CONSTANTS
    asker = asker
    Requests = {r1}
    Operators = {asker, a1, a2}
    Targets = {t1}
    Projects = {"p1"}
    ProjectOf <- MCProjectOf
    Grave = {t1}
    Decisions <- MCDecisions
    Requesters <- MCRequesters
    Approvers <- MCApprovers
    Calls = {c1, c2}
    None = None
    MaxRevisions = 2
    MaxChanges = 1
SPECIFICATION Spec
SYMMETRY Symmetry
INVARIANTS
    TypeOK
    
    
PROPERTIES
    ExecutionIsAuthorised
CHECK_DEADLOCK FALSE
