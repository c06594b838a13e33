CONSTANTS
    c1 = c1
    c2 = c2
    c3 = c3
    Containers <- MC_Containers
    FailingCalls = {"New", "Containers", "Task", "Kill", "Result", "DeleteTask", "DeleteCtr"}
SPECIFICATION Spec
INVARIANTS
    TypeOK
    NoRunningTaskAfterSuccess
PROPERTIES
    TeardownReturns
