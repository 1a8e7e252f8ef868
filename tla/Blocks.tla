-------------------------------- MODULE Blocks --------------------------------
(***************************************************************************)
(* Pure operators on the text of one LLVM function as codegen.c prints it, *)
(* line by line: a record of what decides whether the text is a function.  *)
(*   block    "none" outside a function, "open" when the last line is a    *)
(*            label or an instruction, "closed" when it is a terminator    *)
(*   defs     the labels printed, refs the labels branched to              *)
(*   faults   what LLVM's rules for basic blocks refuse or would call dead *)
(* A fault is a pair of its kind and the label concerned.                  *)
(***************************************************************************)
EXTENDS FiniteSets

\* A label is the prefix and the number generate_label gives it; a label of
\* the program has number 0.
NoLabel == <<"NULL", 0>>

Blank == [block |-> "none", defs |-> {}, refs |-> {}, faults |-> {}]

\* "define ... {": the entry block needs no label.
Entered(r) == [block |-> "open", defs |-> {}, refs |-> {}, faults |-> r.faults]

\* A line after a terminator and without a label starts a block that nothing
\* branches to.
Orphaned(r) ==
    r.faults \cup IF r.block = "open" THEN {} ELSE {<<"orphan", NoLabel>>}

\* An instruction.
Instr(r) ==
    [block |-> "open", defs |-> r.defs, refs |-> r.refs, faults |-> Orphaned(r)]

\* A terminator: a br to one or two labels, or a ret.
Jump(r, targets) ==
    [block |-> "closed", defs |-> r.defs, refs |-> r.refs \cup targets,
     faults |-> Orphaned(r)]

\* "l:".  The line before it must have ended its block.
Label(r, l) ==
    [block |-> "open", defs |-> r.defs \cup {l}, refs |-> r.refs,
     faults |-> r.faults
         \cup (IF r.block = "open" THEN {<<"unterminated", l>>} ELSE {})
         \cup (IF l \in r.defs THEN {<<"duplicate", l>>} ELSE {})]

\* "}".  Every label branched to has been printed.
Left(r) ==
    [block |-> "none", defs |-> {}, refs |-> {},
     faults |-> r.faults
         \cup (IF r.block = "open" THEN {<<"unterminated", NoLabel>>} ELSE {})
         \cup {<<"undefined", l>> : l \in r.refs \ r.defs}]

\* "br label %l" and "l:".
FallTo(r, l) == Label(Jump(r, {l}), l)
===============================================================================
