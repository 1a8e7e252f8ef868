----------------------------- MODULE StructLayout -----------------------------
(***************************************************************************)
(* Sizes, alignments and offsets: what parser.y does for a struct or union *)
(* specifier with a member list, and calculate_type_size,                  *)
(* calculate_type_alignment, calculate_struct_size and                     *)
(* calculate_union_size of symbol_table.c.  The two last are loops that    *)
(* write the offsets of the members as they go, and they are run again for *)
(* every member added and for every later use of the tag: each iteration   *)
(* is a step.  The size and the alignment a member is recorded with are    *)
(* those of the code, which are not always those of C: see                 *)
(* calculate_type_size.                                                    *)
(***************************************************************************)
EXTENDS Integers, Sequences

CONSTANTS
    Tag,         \* tags of structs and unions
    Basic,       \* names of basic types
    Containing,  \* which of them contain "char", "short", "int" and "long"
    Length,      \* constant array lengths
    NoLength,    \* the length of an array whose size is no constant
    NoTag,       \* no struct is being defined
    NoType,      \* no member is being added
    MemberType,  \* the types members are declared with
    MaxMembers   \* bound: members of a struct

\* type_info_t, as far as sizes depend on it.
Type == [cat : {"basic", "struct", "union", "enum"}, base : Basic \cup Tag,
         pointer : BOOLEAN, is_array : BOOLEAN,
         length : Length \cup {NoLength}]

ASSUME TagAssumption == NoTag \notin Tag
ASSUME NamesAssumption ==
    Containing \in [{"char", "short", "int", "long"} -> SUBSET Basic]
ASSUME TypeAssumption == MemberType \subseteq Type /\ NoType \notin Type
ASSUME LengthAssumption == Length \subseteq Nat /\ NoLength \notin Length
ASSUME MembersAssumption == MaxMembers \in Nat

VARIABLES
    sym_type,       \* STRUCT or UNION, once the tag is in the table
    members,        \* the types, sizes and alignments of its members
    offset,         \* and their offsets
    total_size,
    max_alignment,
    cur,            \* the struct the parser is adding members to
    pending,        \* the type of the member whose size is being asked for
    \* the loop of calculate_struct_size or calculate_union_size
    on,             \* the symbol it is run on
    i,              \* the member it is at
    size,           \* its total_size or max_size
    align,          \* its max_alignment
    pc              \* "idle", "members", "layout" or "sized"

layout == <<offset, total_size, max_alignment>>
loop == <<on, i, size, align>>
vars == <<sym_type, members, layout, cur, pending, loop, pc>>

-------------------------------------------------------------------------------
\* Types.

\* Clearing the low bits of size + alignment - 1 rounds down to a multiple,
\* since every alignment is a power of two.
align_to(n, a) == ((n + a - 1) \div a) * a

\* A name that is no keyword is looked at for the keyword it contains, which
\* gives "signed int" and "unsigned int" their size.  The parser records only the
\* first specifier, so unsigned char, short and long are "unsigned int" too, and
\* have its size, which is not theirs in C.
get_basic_type_size(b) ==
    CASE b \in {"char", "_Bool"} -> 1
      [] b = "short" -> 2
      [] b \in {"int", "float"} -> 4
      [] b \in {"long", "double"} -> 8
      [] b = "void" -> 0
      [] OTHER -> IF b \in Containing["char"] THEN 1
                  ELSE IF b \in Containing["short"] THEN 2
                  ELSE IF b \in Containing["int"] THEN 4
                  ELSE IF b \in Containing["long"] THEN 8
                  ELSE 4
get_basic_type_alignment(b) ==
    IF b = "void" THEN 1 ELSE get_basic_type_size(b)

POINTER_SIZE == 8
INT_SIZE == 4

ByValue(ty) == ty.cat \in {"struct", "union"} /\ ~ty.pointer

\* find_symbol on the tag, and the test of what was found.
IsKnown(ty) ==
    /\ ty.base \in Tag
    /\ sym_type[ty.base] = IF ty.cat = "struct" THEN "STRUCT" ELSE "UNION"

\* The sizes that need no loop.  What has a pointer in its type, or is a struct
\* or a union, is sized before is_array is looked at: an array of such elements
\* has the size of one, which is not its size in C.
calculate_type_size(ty) ==
    IF ty.pointer THEN POINTER_SIZE
    ELSE IF ByValue(ty) THEN 0
    ELSE IF ty.cat = "enum" THEN INT_SIZE
    ELSE IF ~ty.is_array THEN get_basic_type_size(ty.base)
    ELSE IF ty.length = NoLength THEN POINTER_SIZE
    ELSE get_basic_type_size(ty.base) * ty.length

\* Mutant: an unknown struct has alignment 0, as it has size 0.
calculate_type_alignment_Zero(ty) ==
    IF ty.pointer THEN POINTER_SIZE
    ELSE IF ByValue(ty)
         THEN IF IsKnown(ty) THEN max_alignment[ty.base] ELSE 0
    ELSE IF ty.cat = "enum" THEN INT_SIZE
    ELSE get_basic_type_alignment(ty.base)

calculate_type_alignment(ty) ==
    IF ty.pointer THEN POINTER_SIZE
    ELSE IF ByValue(ty)
         THEN IF IsKnown(ty) THEN max_alignment[ty.base] ELSE 1
    ELSE IF ty.cat = "enum" THEN INT_SIZE
    ELSE get_basic_type_alignment(ty.base)

-------------------------------------------------------------------------------
\* The loop.

\* Mutant: the locals are what an earlier call left.
Begin_KeepsLocals(t, next) ==
    /\ on' = t
    /\ i' = 1
    /\ size' = total_size[t]
    /\ align' = 1
    /\ pc' = next

\* The locals at the head of calculate_struct_size and calculate_union_size.
Begin(t, next) ==
    /\ on' = t
    /\ i' = 1
    /\ size' = 0
    /\ align' = 1
    /\ pc' = next

Larger(m, n) == IF m > n THEN m ELSE n

PutAt(seq, k, v) == [j \in DOMAIN seq |-> IF j = k THEN v ELSE seq[j]]

Looping == pc \in {"layout for size", "layout for member", "layout for end"}
Member == members[on][i]

\* Mutant: the size is added before the offset is aligned.
StructStep_AddsFirst ==
    /\ Looping
    /\ sym_type[on] = "STRUCT"
    /\ i <= Len(members[on])
    /\ offset' = [offset EXCEPT ![on] = PutAt(@, i, size)]
    /\ size' = align_to(size + Member.size, Member.alignment)
    /\ align' = Larger(align, Member.alignment)
    /\ i' = i + 1
    /\ UNCHANGED <<sym_type, members, total_size, max_alignment, cur, pending,
                   on, pc>>

StructStep ==
    /\ Looping
    /\ sym_type[on] = "STRUCT"
    /\ i <= Len(members[on])
    /\ LET start == align_to(size, Member.alignment)
       IN  /\ offset' = [offset EXCEPT ![on] = PutAt(@, i, start)]
           /\ size' = start + Member.size
    /\ align' = Larger(align, Member.alignment)
    /\ i' = i + 1
    /\ UNCHANGED <<sym_type, members, total_size, max_alignment, cur, pending,
                   on, pc>>

\* Mutant: the members of a union follow one another.
UnionStep_Sums ==
    /\ Looping
    /\ sym_type[on] = "UNION"
    /\ i <= Len(members[on])
    /\ offset' = [offset EXCEPT ![on] = PutAt(@, i, 0)]
    /\ size' = size + Member.size
    /\ align' = Larger(align, Member.alignment)
    /\ i' = i + 1
    /\ UNCHANGED <<sym_type, members, total_size, max_alignment, cur, pending,
                   on, pc>>

UnionStep ==
    /\ Looping
    /\ sym_type[on] = "UNION"
    /\ i <= Len(members[on])
    /\ offset' = [offset EXCEPT ![on] = PutAt(@, i, 0)]
    /\ size' = Larger(size, Member.size)
    /\ align' = Larger(align, Member.alignment)
    /\ i' = i + 1
    /\ UNCHANGED <<sym_type, members, total_size, max_alignment, cur, pending,
                   on, pc>>

\* Where each caller goes on.
AfterLoop ==
    CASE pc = "layout for size" -> IF pending = NoType THEN "idle" ELSE "sized"
      [] pc = "layout for member" -> "members"
      [] pc = "layout for end" -> "idle"

\* Mutant: the size is not rounded up to the alignment.
LayoutEnd_NoPadding ==
    /\ Looping
    /\ i > Len(members[on])
    /\ total_size' = [total_size EXCEPT ![on] = size]
    /\ max_alignment' = [max_alignment EXCEPT ![on] = align]
    /\ pc' = AfterLoop
    /\ cur' = IF AfterLoop = "idle" THEN NoTag ELSE cur
    /\ UNCHANGED <<sym_type, members, offset, pending, loop>>

LayoutEnd ==
    /\ Looping
    /\ i > Len(members[on])
    /\ total_size' = [total_size EXCEPT ![on] = align_to(size, align)]
    /\ max_alignment' = [max_alignment EXCEPT ![on] = align]
    /\ pc' = AfterLoop
    /\ cur' = IF AfterLoop = "idle" THEN NoTag ELSE cur
    /\ UNCHANGED <<sym_type, members, offset, pending, loop>>

-------------------------------------------------------------------------------
\* The parser.

\* add_symbol for a new tag.  A tag already in the table is refused and its
\* members are dropped.
DefineTag(t, kind) ==
    /\ pc = "idle"
    /\ sym_type[t] = "none"
    /\ sym_type' = [sym_type EXCEPT ![t] = kind]
    /\ cur' = t
    /\ pc' = "members"
    /\ UNCHANGED <<members, layout, pending, loop>>

\* add_struct_member, up to its call that lays out the struct again.
AddMember(ty, sz, al) ==
    /\ members' = [members EXCEPT ![cur] =
                      Append(@, [type |-> ty, size |-> sz, alignment |-> al])]
    /\ offset' = [offset EXCEPT ![cur] = Append(@, 0)]
    /\ Begin(cur, "layout for member")
    /\ UNCHANGED <<sym_type, total_size, max_alignment, cur>>

\* The size of a member whose type needs no layout.
AddSimpleMember(ty) ==
    /\ pc = "members"
    /\ Len(members[cur]) < MaxMembers
    /\ ~(ByValue(ty) /\ IsKnown(ty))
    /\ AddMember(ty, calculate_type_size(ty), calculate_type_alignment(ty))
    /\ UNCHANGED pending

\* The size of a struct is computed, on its own symbol, whenever it is asked for.
AskMemberSize(ty) ==
    /\ pc = "members"
    /\ Len(members[cur]) < MaxMembers
    /\ ByValue(ty)
    /\ IsKnown(ty)
    /\ pending' = ty
    /\ Begin(ty.base, "layout for size")
    /\ UNCHANGED <<sym_type, members, layout, cur>>

AddSizedMember ==
    /\ pc = "sized"
    /\ AddMember(pending, total_size[pending.base],
                 calculate_type_alignment(pending))
    /\ pending' = NoType

\* calculate_struct_offsets after the last member; a list has one at least.
EndOfMembers ==
    /\ pc = "members"
    /\ members[cur] # <<>>
    /\ Begin(cur, "layout for end")
    /\ UNCHANGED <<sym_type, members, layout, cur, pending>>

\* A later variable or sizeof of the type asks for its size again.
UseTag(t) ==
    /\ pc = "idle"
    /\ sym_type[t] # "none"
    /\ Begin(t, "layout for size")
    /\ UNCHANGED <<sym_type, members, layout, cur, pending>>

Init ==
    /\ sym_type = [t \in Tag |-> "none"]
    /\ members = [t \in Tag |-> <<>>]
    /\ offset = [t \in Tag |-> <<>>]
    /\ total_size = [t \in Tag |-> 0]
    /\ max_alignment = [t \in Tag |-> 1]
    /\ cur = NoTag
    /\ pending = NoType
    /\ on = NoTag
    /\ i = 1
    /\ size = 0
    /\ align = 1
    /\ pc = "idle"

Next ==
    \/ \E t \in Tag, kind \in {"STRUCT", "UNION"} : DefineTag(t, kind)
    \/ \E ty \in MemberType : AddSimpleMember(ty)
    \/ \E ty \in MemberType : AskMemberSize(ty)
    \/ AddSizedMember
    \/ EndOfMembers
    \/ \E t \in Tag : UseTag(t)
    \/ StructStep
    \/ UnionStep
    \/ LayoutEnd

Spec == Init /\ [][Next]_vars

-------------------------------------------------------------------------------
\* Properties.

Alignment == {1, 2, 4, 8}
MemberSymbol == [type : MemberType, size : Nat, alignment : Alignment]

\* Type invariant: the symbols and the locals of the loop.
TypeOK ==
    /\ sym_type \in [Tag -> {"none", "STRUCT", "UNION"}]
    /\ members \in [Tag -> Seq(MemberSymbol)]
    /\ offset \in [Tag -> Seq(Nat)]
    /\ \A t \in Tag : Len(offset[t]) = Len(members[t])
    /\ total_size \in [Tag -> Nat]
    /\ max_alignment \in [Tag -> Alignment]
    /\ cur \in Tag \cup {NoTag}
    /\ pending \in MemberType \cup {NoType}
    /\ on \in Tag \cup {NoTag}
    /\ i \in Nat
    /\ size \in Nat
    /\ align \in Alignment
    /\ pc \in {"idle", "members", "sized", "layout for size",
               "layout for member", "layout for end"}

\* o is the least multiple of a that is not below e.
LeastAligned(o, e, a) == o >= e /\ o < e + a /\ o % a = 0

EndOf(t, k) == IF k = 0 THEN 0 ELSE offset[t][k] + members[t][k].size

\* The layout of the first n members of a struct, and its largest alignment.
MembersInPlace(t, n) ==
    \A k \in 1 .. n :
        LeastAligned(offset[t][k], EndOf(t, k - 1), members[t][k].alignment)
IsLargest(a, t, n) ==
    /\ \A k \in 1 .. n : members[t][k].alignment <= a
    /\ a = 1 \/ \E k \in 1 .. n : members[t][k].alignment = a

\* Whenever no loop is at work on a struct, its members are placed by the sizes and
\* alignments they are recorded with: every member begins at the first aligned
\* place after the one before it, and the size is the first multiple of the
\* largest alignment after the last, however often and for whatever reason
\* (calculate_struct_size runs for each) the layout was computed before.  This is C's
\* layout only where the recorded sizes are C's.
StructsAreLaidOut ==
    \A t \in Tag :
        LET n == Len(members[t])
        IN  (sym_type[t] = "STRUCT" /\ ~(Looping /\ on = t)) =>
                /\ MembersInPlace(t, n)
                /\ IsLargest(max_alignment[t], t, n)
                /\ LeastAligned(total_size[t], EndOf(t, n), max_alignment[t])

\* In a union every member begins at 0, and the size is the first multiple of
\* the largest alignment in which the largest member fits.
UnionsAreLaidOut ==
    \A t \in Tag :
        LET n == Len(members[t])
            fits(s) == \A k \in 1 .. n : members[t][k].size <= s
        IN  (sym_type[t] = "UNION" /\ ~(Looping /\ on = t)) =>
                /\ \A k \in 1 .. n : offset[t][k] = 0
                /\ IsLargest(max_alignment[t], t, n)
                /\ fits(total_size[t])
                /\ total_size[t] % max_alignment[t] = 0
                /\ \A s \in 0 .. total_size[t] - max_alignment[t] : ~fits(s)
                                                                   \/ n = 0

\* A struct within a struct has the size and the alignment that its own layout
\* gives it, also after later uses computed that layout again.  (A struct that
\* contains itself, which C forbids and the parser accepts, got the size its
\* first members had.)
NestedSizesAgree ==
    \A t \in Tag : \A k \in DOMAIN members[t] :
        LET m == members[t][k]
            u == m.type.base
        IN  (ByValue(m.type) /\ u # t /\ m.size # 0) =>
                /\ m.size = total_size[u]
                /\ m.alignment = max_alignment[u]

\* The member that was just added has no place yet.
IsFresh(t, k) ==
    pc = "layout for member" /\ on = t /\ k = Len(members[t])

\* No step moves a member that has a place: a pointer to it computed with its
\* offset stays right while members are added and sizes are asked for again.
NoMemberMoves ==
    [][\A t \in Tag : \A k \in DOMAIN members[t] :
           ~IsFresh(t, k) => offset'[t][k] = offset[t][k]]_vars
===============================================================================
