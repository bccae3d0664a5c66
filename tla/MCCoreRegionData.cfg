CONSTANTS
    NoAccess = NoAccess
    NoRequest = NoRequest
    NoAnswer = NoAnswer
    RamWord <- Ram
    Access <- DataAccess
    OtherAccess <- NoOther
    AxiWord <- PeripheralWord
    ExStall <- NeverStalls
SPECIFICATION Spec
INVARIANTS TypeOK LoadsReturnMemory StoresWriteTheirBytes
