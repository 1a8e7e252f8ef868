SPECIFICATION Spec
CONSTANTS
    Kinds = {"declaration", "expression", "compound", "if", "while", "for", "do", "break", "continue", "return"}
    Exprs = {"plain"}
    VarName = {"x"}
    LabelName = {}
    FuncName = {"f"}
    MaxNodes = 5
INVARIANTS
    TypeOK
    FlagIsUnreachability
    FunctionsAreWellFormed
