SPECIFICATION Spec
CONSTANTS
    Sources <- MCSources
    Trees <- MCTrees
    Height <- MCHeight
INVARIANTS
    TypeOK
    GeneratedIsChecked
    NoFalseAlarm
    InvalidIsRefused
    MeaningIsKept
