SPECIFICATION DifftestSpec
CONSTANTS
    Word <- MCWord
    Reg <- MCReg
    Byte <- MCByte
    Alu <- MCAlu
    Taken <- MCTaken
    Join <- MCJoin
    Lane <- MCLane
    Programs <- MCPrograms
    Fetch <- MCFetch
    InitGpr <- MCGpr
    InitMem <- MCInitMem
    ResetPc = 128
    Pmem <- MCPmem
    RtcAddrs <- MCRtc
    Serial <- MCSerial
    Times = {7}
    Steps = {1, 2, Unbounded}
    Unbounded = Unbounded
    A0 = 2
    BitsPerByte = 2
    Alphabet <- AlphabetDevice
PROPERTY RefExecutesCommitted
CHECK_DEADLOCK FALSE
