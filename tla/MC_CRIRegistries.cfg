CONSTANTS
    Hosts <- MC_Hosts
    RefNames <- MC_RefNames
    Store <- MC_Store
    OldStore <- MC_OldStore
    CAs <- MC_CAs
    r1 = r1
    r2 = r2
    ca1 = ca1
    NoCA = NoCA
    NoRef = NoRef
    EmptyRef = EmptyRef
    ParseError = ParseError
    MaxInsecure = 2
    MaxAddons = 1
    MaxRegs = 2
    MaxNodes = 1
SPECIFICATION Spec
INVARIANTS
    TypeOK
    RegistriesMatchReference
    ValidRegistriesKept
    StepIffChanged
