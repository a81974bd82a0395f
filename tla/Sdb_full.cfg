SPECIFICATION MCSpec
CONSTANTS
    Modulus = 256
    PmemLeft = 128
    PmemRight = 135
    WpNumber = 2
    NoText = NoText
    Texts <- MCTexts
    Users <- MCUsers
    LinesOf <- MCLinesOf
    Options <- MCOptions
    Images = {0, 1, 6, 8}
    NoFile = NoFile
    BuiltIn = 4
    DefaultSize = 8
    Word <- MCWord
    Regs <- MCRegs
    Unbounded = 4
PROPERTY
    DeletingMakesRoom
CHECK_DEADLOCK FALSE
