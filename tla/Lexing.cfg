SPECIFICATION Spec
CONSTANT
    Texts <- MCTexts
INVARIANTS
    TypeOK
    LinesAreCounted
    ColumnsAreCounted
    CommentsAreThoseOfC
PROPERTY
    ScanningEnds
CHECK_DEADLOCK FALSE
