---------------------------- MODULE MCStructLayout ----------------------------
(***************************************************************************)
(* Constants for model checking StructLayout: two tags, each of which may  *)
(* become a struct or a union, contain the other, or contain itself.       *)
(***************************************************************************)
EXTENDS StructLayout

Plain(b) == [cat |-> "basic", base |-> b, pointer |-> FALSE,
             is_array |-> FALSE, length |-> NoLength]
ArrayOf(b, n) == [Plain(b) EXCEPT !.is_array = TRUE, !.length = n]
PointersTo(b, n) == [ArrayOf(b, n) EXCEPT !.pointer = TRUE]
StructsOf(t, n) == [ArrayOf(t, n) EXCEPT !.cat = "struct"]
UnionOf(t) == [Plain(t) EXCEPT !.cat = "union"]

\* "unsigned int" is what the parser records for unsigned, whatever follows it.
MCContaining ==
    [w \in {"char", "short", "int", "long"} |->
        IF w = "char" THEN {"char"} ELSE IF w = "int" THEN {"unsigned int"} ELSE {}]

\* Sizes that are no multiple of the next alignment, an array of pointers, and
\* structs by value, one of them the element of an array.
MCMemberType ==
    {Plain("unsigned int"), PointersTo("void", 3), ArrayOf("char", 3),
     StructsOf("B", 3), UnionOf("A")}
===============================================================================
