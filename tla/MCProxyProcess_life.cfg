\* Every failure, four PTYs, with and without reconnection.
SPECIFICATION FairProcess
CONSTANTS
    Policies <- MCPolicies
    Invocations <- MCInvocations
    MinLife = 2
    Failures = {"posix_openpt", "grantpt", "fork", "register", "exec", "setup", "stdio"}
    MaxPtys = 4
INVARIANTS
    TypeOK
    EndIsEof
    DescriptorsBounded
    NoneForgotten
    TimeoutKept
    ReconnectOnlyIfAsked
PROPERTIES
    AttemptsSpaced
    LossAnswered
    EndIsClean
CHECK_DEADLOCK FALSE
