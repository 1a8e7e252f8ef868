SPECIFICATION Spec
CONSTANTS
    Sources <- MCEnums
    Trees <- MCEnumTrees
    Height <- MCEnumHeight
INVARIANT NamesAreFound
