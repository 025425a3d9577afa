CONSTANTS
    NoWorker = NoWorker
    Jobs <- MCJobs
    Keys = {"k1"}
    KeyOf <- MCKeyOf
    Workers = {"w1", "w2"}
    ScanLimit = 2
    MaxFailures = 1
    MaxOverruns = 2
SPECIFICATION Spec
PROPERTY CancelledJobIsNotClaimed
