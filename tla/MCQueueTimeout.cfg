CONSTANTS
    End = End
    idle = idle
    a = a
    b = b
    Task <- Tasks
    Idle = idle
    Startup <- FirstTasks
    Priority <- TaskPriority
    EventList <- QueueLists
    Program <- Late
    Waits <- LateWaits
    TickSpan = 4
    OverflowSpan = 2
    PendedSpan = 2
    MaxPended = 1
    Length = 1
    MaxLocked = 1
SPECIFICATION QueueSpec
INVARIANTS CallsSleepAsLongAsAsked
