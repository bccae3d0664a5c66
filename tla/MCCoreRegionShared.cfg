CONSTANTS
    NoAccess = NoAccess
    NoRequest = NoRequest
    NoAnswer = NoAnswer
    RamWord <- Ram
    Access <- RegionAccess
    OtherAccess <- OtherWrite
    AxiWord <- PeripheralWord
    ExStall <- NeverStalls
SPECIFICATION FairSpec
INVARIANTS AnswersAreAwaited LoadsReturnMemory StoresWriteTheirBytes
PROPERTIES RequestsAreGranted MisalignedLoadsComplete
