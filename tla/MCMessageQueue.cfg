CONSTANTS
    End = End
    idle = idle
    a = a
    b = b
    Task <- Tasks
    Idle = idle
    Startup <- FirstTasks
    Priority <- TaskPriority
    EventList <- QueueLists
    Program <- BothWays
    Waits <- OneTick
    TickSpan = 2
    OverflowSpan = 2
    PendedSpan = 2
    MaxPended = 1
    Length = 1
    MaxLocked = 1
SPECIFICATION QueueSpec
INVARIANTS QueueTypeOK OneTaskHoldsScheduler NoReceiverSleepsOn NoSenderSleepsOn NoEarlyTimeout
