CONSTANTS
    Bubble = Bubble
    Reg <- TwoRegisters
    TPR <- ResetTPR
    TCR <- MixedTCR
    Instr <- CheckProgram
    MayFollow <- CheckPairs
SPECIFICATION Spec
INVARIANTS TagsFollowProgram ChecksJudgeTheInstruction LoadChecksJudgeTheLoad
