SPECIFICATION Spec
CONSTANTS
    Tag = {"A", "B"}
    Basic = {"char", "unsigned int", "void"}
    Containing <- MCContaining
    Length = {3}
    NoLength = NoLength
    NoTag = NoTag
    NoType = NoType
    MemberType <- MCMemberType
    MaxMembers = 3
INVARIANTS
    TypeOK
    StructsAreLaidOut
    UnionsAreLaidOut
    NestedSizesAgree
PROPERTIES
    NoMemberMoves
