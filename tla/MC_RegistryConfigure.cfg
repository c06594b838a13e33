CONSTANTS
    ca1 = ca1
    ca2 = ca2
    NoCA = NoCA
    BrokenToml = BrokenToml
    Servers <- MC_Servers
    CAs <- MC_CAs
    Desired <- MC_Desired
    MaxRuns = 3
    RetryTimes = 1
    FailingOps = {"ReadDir", "MkdirAll", "WriteCA", "Create", "Encode", "RemoveAll", "WriteConfig", "Restart"}
SPECIFICATION Spec
INVARIANTS
    TypeOK
    DaemonStaleOnlyWhenLogged
PROPERTY
    RefinesAbstract
