CONSTANTS
    Values = {"a", "b"}
    MaxCmds = 2
SPECIFICATION Spec
\* extractJoinCommands returns once: the behaviour ends after it.
CHECK_DEADLOCK FALSE
INVARIANT MasterInEitherOrder
