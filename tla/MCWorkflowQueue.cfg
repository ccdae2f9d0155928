\* One run, two workers and an inline drain, so that a run can have
\* three executors, each pair of them separated by a crash or an overrun.
CONSTANTS
    Run = {r1}
    Worker = {w1, w2}
    Drain = {d1}
    NoProc = NoProc
    NoRun = NoRun
    NSteps = 2
    MaxAttempts = 2
    MaxJobs = 1
    MaxFaults = 2
    MaxOverruns = 2
SPECIFICATION FairSpec
INVARIANTS
    SingleExecutor
    DoneIsSettled
    RepeatedOnlyByFaults
    NothingToResume
PROPERTIES
    RunLifecycleSpec
    EventuallySettled
