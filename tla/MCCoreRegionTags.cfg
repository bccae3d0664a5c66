CONSTANTS
    NoAccess = NoAccess
    NoRequest = NoRequest
    NoAnswer = NoAnswer
    RamWord <- Ram
    Access <- TagAccess
    OtherAccess <- NoOther
    AxiWord <- PeripheralWord
    ExStall <- MayStall
SPECIFICATION Spec
INVARIANTS AnswersAreAwaited LoadsReturnMemory LoadsReturnTags TagsFollowStores
