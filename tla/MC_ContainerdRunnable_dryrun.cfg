CONSTANTS
    ca1 = ca1
    NoCA = NoCA
    Servers <- MC_Servers
    CAs <- MC_CAs
    Desired <- MC_Desired
    ClusterVersion <- MC_ClusterVersion
    PauseTable <- MC_PauseTable
    PauseByMinor <- MC_PauseByMinor
    KubeVersions <- MC_KubeVersions
    RetryTimes = 1
    DryRuns = {FALSE, TRUE}
    MaxRuns = 2
    FailingOps = {}
SPECIFICATION Spec
PROPERTY
    DryRunLeavesNode
