\* A daemonizing fork that may fail.
CONSTANTS
    MaxAddrs = 1
    SupervisedModes = {"no"}
    ForkAnswers = {"ok", "fail"}
SPECIFICATION Spec
INVARIANT ExitZeroOnlyForDaemonParent
CHECK_DEADLOCK FALSE
