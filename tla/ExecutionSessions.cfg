CONSTANTS
    NoCall = NoCall
    Sessions = {"tight", "open"}
    Keys = {"k1"}
    KeyOf <- MCKeyOf
    Persistent = {"open", "tight"}
    Instances = {i1, i2}
    Calls = {c1, c2}
    Invocations = {"v1"}
    Operators = {"o1"}
    MaxToolCalls <- MCMaxToolCalls
    MaxConcurrent = 1
    MaxFaults = 1
SPECIFICATION Spec
SYMMETRY Symmetry
INVARIANTS
    TypeOK
    OneInvocationPerSession
    ToolCallsWithinLimit
    CancelWins
    OneSessionPerKey
PROPERTIES
    HistoryIsFinal
