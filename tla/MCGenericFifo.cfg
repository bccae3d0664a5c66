CONSTANTS
    Word = {w1, w2}
    DATA_DEPTH = 4
    PtrSpan = 4
    None = None
    Unknown = Unknown
SPECIFICATION Spec
INVARIANTS TypeOK StateMatchesPointers
PROPERTY FifoContract
