SPECIFICATION Spec
CONSTANTS
    Kinds = {"switch", "case", "compound", "expression", "break"}
    Exprs = {"plain"}
    VarName = {}
    LabelName = {}
    FuncName = {"f"}
    MaxNodes = 7
INVARIANTS
    NothingReachableIsLost
