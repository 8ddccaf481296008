CONSTANTS
    Env <- Envs
    ComeUp = {0, 3, 5, 10}
    InfraWaitTimeout = 6
    Slack = 3
    PingTimeout = 2
SPECIFICATION Spec
CHECK_DEADLOCK FALSE
INVARIANTS
    StartupTypeOK
    RunsAsConfigured
    GivesUpOnLateService
    NothingLeftOpen
PROPERTY StartEnds
