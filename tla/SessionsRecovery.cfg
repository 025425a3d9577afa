CONSTANTS
    NoCall = NoCall
    Sessions = {"once", "open"}
    Keys = {"k1"}
    KeyOf <- MCKeyOf
    Persistent = {"open"}
    Instances = {i1, i2}
    Calls = {c1}
    Invocations = {"v1"}
    Operators = {"o1"}
    MaxToolCalls <- MCMaxToolCalls
    MaxConcurrent = 1
    MaxFaults = 1
SPECIFICATION Spec
PROPERTY NeverStuckRunning
