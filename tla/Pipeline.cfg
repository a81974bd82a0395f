SPECIFICATION FairSpec
CONSTANTS
    Word <- MCWord
    Reg <- MCReg
    Byte <- MCByte
    Alu <- MCAlu
    Taken <- MCTaken
    Join <- MCJoin
    Lane <- MCLane
    Programs <- MCPrograms
    Fetch <- MCFetch
    InitGpr <- MCGpr
    InitMem <- MCInitMem
    ResetPc = 0
    BitsPerByte = 1
INVARIANTS TypeOK StageInv ForwardingCorrect CommitChain EbreakCommits
PROPERTIES CoreRefinesDialect CommitsForever
