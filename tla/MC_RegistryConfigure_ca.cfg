CONSTANTS
    ca1 = ca1
    ca2 = ca2
    NoCA = NoCA
    BrokenToml = BrokenToml
    Servers <- MC_Servers
    CAs <- MC_CAs
    Desired <- MC_DesiredBothT
    MaxRuns = 1
    RetryTimes = 1
    FailingOps = {}
SPECIFICATION Spec
INVARIANT HttpsTrustsItsCA
