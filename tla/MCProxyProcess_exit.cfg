\* One session, no failures.
SPECIFICATION FairProcess
CONSTANTS
    Policies <- OnePolicy
    Invocations <- OneInvocation
    MinLife = 2
    Failures = {}
    MaxPtys = 1
PROPERTY ChildExitExits
CHECK_DEADLOCK FALSE
