CONSTANTS
    BufferLength = 1
    Lengths = {1}
SPECIFICATION FairSpec
PROPERTIES RepeatedStartGoesOn
CHECK_DEADLOCK FALSE
