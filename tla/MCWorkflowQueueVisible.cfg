\* A job given up after database errors: is its run's failure visible?
CONSTANTS
    Run = {r1}
    Worker = {w1}
    Drain = {}
    NoProc = NoProc
    NoRun = NoRun
    NSteps = 1
    MaxAttempts = 2
    MaxJobs = 1
    MaxFaults = 2
    MaxOverruns = 0
SPECIFICATION Spec
INVARIANT FailuresVisible
