SPECIFICATION Spec
CONSTANTS
    HalfBits = 4
    Cells = 4
    Chars = 4
    SignedChar = TRUE
    IntMin <- MCIntMin
    IntMax = 127
    MinText <- MCMinText
    Operands <- MCOperands
    Texts <- MCTexts
    Numbers <- MCNumbers
    Formats <- MCFormats
INVARIANTS LoopDivides ArithmeticRight StringsRight PrintsRight
CHECK_DEADLOCK FALSE
