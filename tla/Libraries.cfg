CONSTANTS
    ByteBits = 2
    LimbBytes = 2
    WordBase = 16
    ShortBase = 4
    ByteBase = 4
    MaxCalls = 3
    First <- MCFirst
    Second <- MCSecond
    LimbArgs = {0, 1, 2, 6, 15}
    LongArgs <- MCLongArgs
    BitArgs = {0, 1, 3, 4, 6, 8}
    Bases = {2, 3, 8, 10, 16}
    Texts <- MCTexts
    Tables <- MCTables
    Margins <- MCMargins
    Cuts <- MCCuts
    DICT_SIZE = 32
    DINDEX <- MCDINDEX
SPECIFICATION Spec
INVARIANTS UnpackSafe FontWhole
PROPERTY ArithmeticSpec
CHECK_DEADLOCK FALSE
