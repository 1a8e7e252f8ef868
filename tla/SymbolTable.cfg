CONSTANTS
    Name = {a, b}
    LongName = {}
    Bucket = {0, 1}
    Hash <- MCHash
    DeclKind = {"VARIABLE"}
    EnumValue = {7}
    NoFunction = NoFunction
    NoSymbol = NoSymbol
    MaxScopes = 3
    MaxNames = 2
SYMMETRY MCSymmetry
SPECIFICATION Spec
INVARIANTS
    TypeOK
    ChainsAreSound
    LookupAgrees
    LevelsAreDepths
    UniqueNames
PROPERTIES
    ImplementsScopedMap
    ExitRevealsOuter
CHECK_DEADLOCK FALSE
