\* Every configuration with an explicit supervision mode, every environment,
\* bind lists of up to 3 addresses and every answer of the OS, forks that
\* succeed.  "auto" and a failing fork are the two violation runs.
CONSTANTS
    MaxAddrs = 3
    SupervisedModes = {"no", "upstart", "systemd"}
    ForkAnswers = {"ok"}
SPECIFICATION Spec
INVARIANT SupervisorTracksServer
INVARIANT ExitZeroOnlyForDaemonParent
INVARIANT ListensAsConfigured
\* main ends in exit() or in aeMain, where this model of it stops.
CHECK_DEADLOCK FALSE
