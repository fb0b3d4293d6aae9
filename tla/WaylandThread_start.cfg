\* One window more at the start than the channel holds.
SPECIFICATION Spec
CONSTANTS
    Cap = 2
    Existing = 3
    MaxEvents = 3
    MaxCmds = 0
PROPERTY StartupCompletes
CHECK_DEADLOCK FALSE
