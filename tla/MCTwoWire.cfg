CONSTANTS
    BufferLength = 2
    Lengths = {0, 1, 2, 3}
SPECIFICATION FairSpec
INVARIANTS TypeOK WritesReportTheTruth ReadsReturnWhatWasSent
PROPERTIES WaitingCallsReturn
\* A caller that finds the bus held by its own repeated start polls for ever.
CHECK_DEADLOCK FALSE
