\* supervised auto, with every environment and configuration.
CONSTANTS
    MaxAddrs = 1
    SupervisedModes = {"auto"}
    ForkAnswers = {"ok"}
SPECIFICATION Spec
INVARIANT SupervisorTracksServer
CHECK_DEADLOCK FALSE
