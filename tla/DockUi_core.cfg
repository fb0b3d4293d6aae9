\* Two classes, one of them with two desktop files, and a bar of two buckets.
SPECIFICATION Spec
CONSTANTS
    Classes = {"files", "xterm"}
    NoEntry = NoEntry
    NoBucket = NoBucket
    NoClass = NoClass
    ChannelCap = 1
    FilesOnDisk <- Disk
    MaxTasks = 2
INVARIANTS
    TypeOK
    NobodyForgotten
    IconsSettle
    LaunchesAsWritten
    MenuOnShownBar
PROPERTY EntriesResolve
