SPECIFICATION Spec
CONSTANTS
    Source = {"one.c", "two.c"}
    OutFile = {"a.out", "out"}
    TempOf <- MCTempOf
    DefaultOutput = "a.out"
    NoFile = NoFile
    MaxErrors = 2
    MaxRuns = 2
INVARIANTS
    TypeOK
    ExitTellsOutcome
    FailureLeavesNoIR
    ReturnRemovesIR
PROPERTY
    EveryRunEnds
CHECK_DEADLOCK FALSE
