CONSTANTS
    End = End
    idle = idle
    a = a
    b = b
    c = c
    Task <- Tasks
    Idle = idle
    Startup <- FirstTasks
    Priority <- TaskPriority
    EventList = {}
    Program <- TaskProgram
    Waits <- TaskWaits
    TickSpan = 3
    OverflowSpan = 1
    PendedSpan = 2
    MaxPended = 1
SPECIFICATION FairKernelSpec
INVARIANTS KernelTypeOK TasksAreInOneList NoSleeperIsPassedOver NoHigherTaskIsKeptWaiting SleepersWakeOnTime
PROPERTIES ReadyTasksRun SleepersWake
