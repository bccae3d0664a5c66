CONSTANTS
    NoAccess = NoAccess
    NoRequest = NoRequest
    NoAnswer = NoAnswer
    RamWord <- Ram
    Access <- SharedTagAccess
    OtherAccess <- OtherRead
    AxiWord <- PeripheralWord
    ExStall <- NeverStalls
SPECIFICATION Spec
INVARIANT TagsFollowStores
