\* Liveness: two runs compete for two workers (no symmetry).
CONSTANTS
    Run = {r1, r2}
    Worker = {w1, w2}
    Drain = {}
    NoProc = NoProc
    NoRun = NoRun
    NSteps = 1
    MaxAttempts = 2
    MaxJobs = 1
    MaxFaults = 1
    MaxOverruns = 1
SPECIFICATION FairSpec
PROPERTY EventuallySettled
