SPECIFICATION Spec
CONSTANTS
    Type <- MCType
    Function <- MCFunction
    CharBits = 3
    IntBits = 5
    LongBits = 6
    Expressions <- CompoundExpressions
    Height <- CompoundHeight
    Sources <- MCCompound
    Initial <- MCInitial
INVARIANTS
    EffectsAgree
CHECK_DEADLOCK FALSE
