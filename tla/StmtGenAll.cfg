SPECIFICATION Spec
CONSTANTS
    Kinds = {"expression", "empty", "compound", "if", "while", "for", "do", "switch", "case", "break", "continue", "goto", "label", "return"}
    Exprs = {"branching"}
    VarName = {}
    LabelName = {"out"}
    FuncName = {"f"}
    MaxNodes = 5
INVARIANTS
    ScopesFollowFrames
    TargetsAreInnermost
    GeneratedLabelsAreSound
