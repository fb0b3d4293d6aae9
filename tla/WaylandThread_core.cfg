\* As many windows at the start as the channel holds, more events later.
SPECIFICATION Spec
CONSTANTS
    Cap = 2
    Existing = 2
    MaxEvents = 4
    MaxCmds = 2
INVARIANTS
    TypeOK
    EventsInOrder
    SeatReachesModule
    QuitOvertakesNothing
PROPERTIES
    StartupCompletes
    EventsDelivered
    CommandsTaken
    DropJoinsWithRoom
CHECK_DEADLOCK FALSE
