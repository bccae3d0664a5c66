CONSTANTS
    Bubble = Bubble
    Reg <- TwoRegisters
    TPR <- MixedTPR
    TCR <- NoChecks
    Instr <- TagProgram
    MayFollow <- TagPairs
SPECIFICATION Spec
INVARIANTS TypeOK TagsFollowProgram LevelFollowsProgram LevelIsCurrent
