SPECIFICATION Spec
CONSTANTS
    Type <- MCType
    Function <- MCFunction
    CharBits = 3
    IntBits = 5
    LongBits = 6
    Expressions <- MCExpressions
    Height <- MCHeight
    Sources <- MCSources
    Initial <- MCInitial
INVARIANTS
    TypeOK
    DefinitionsAreSound
    RegistersAreSound
    EffectsAgree
    AnswersAgree
CHECK_DEADLOCK FALSE
