------------------------------- MODULE StmtGen -------------------------------
(***************************************************************************)
(* The statement generator of codegen.c: generate_llvm_ir's second and     *)
(* third pass, generate_function, generate_compound_statement and the      *)
(* cases of generate_statement.  The recursion over the AST is a stack of  *)
(* frames, one for each handler that is waiting for the statement it       *)
(* called itself on; the AST is not a parameter, each call is made on any  *)
(* node the parser can build there.                                        *)
(***************************************************************************)
EXTENDS Scopes, Blocks

CONSTANTS
    Kinds,      \* the kinds of statement the programs contain
    Exprs,      \* the forms of expression they contain
    VarName,    \* names of variables
    LabelName,  \* names of labels
    FuncName,   \* names of functions
    MaxNodes    \* bound: statements and declarations of a program

AllKinds == {"declaration", "expression", "empty", "compound", "if", "while",
             "for", "do", "switch", "case", "break", "continue", "goto",
             "label", "return"}
AllExprs == {"plain", "branching"}
ASSUME KindsAssumption == Kinds \subseteq AllKinds
ASSUME ExprsAssumption == Exprs \subseteq AllExprs /\ Exprs # {}
ASSUME NodesAssumption == MaxNodes \in Nat

VARIABLES
    \* codegen_context_t
    in_return_block,
    current_break_label,
    current_continue_label,
    current_switch_end_label,
    label_counter,
    scopes,      \* the symbol table, by the kinds of its symbols
    \* the recursion
    frames,      \* handlers waiting for a statement, outermost first
    mode,        \* "declare" (second pass), "call", "return" or "done"
    nodes,       \* nodes of the AST not yet met
    \* the output, and what the source says about it
    ir,          \* text of the function being printed, and all faults so far
    live,        \* can control reach this point of the source?
    lost         \* kinds of reachable nodes for which nothing is generated

labels == <<current_break_label, current_continue_label,
            current_switch_end_label>>
vars == <<in_return_block, labels, label_counter, scopes,
          frames, mode, nodes, ir, live, lost>>

-------------------------------------------------------------------------------
\* Labels and expressions.

\* generate_label: the k-th label asked for from here.
Generated(prefix, base, k) == <<prefix, base + k>>
UserLabel(l) == <<l, 0>>

\* The lines generate_expression prints, with the labels after base.  && and ||
\* and ?: print a diamond: two blocks that both go on to the third label.
LabelCount(e) == IF e = "branching" THEN 3 ELSE 0
Evaluated(r, e, base) ==
    IF e = "plain" THEN Instr(r)
    ELSE LET one == Generated("expr_one", base, 1)
             other == Generated("expr_other", base, 2)
             end == Generated("expr_end", base, 3)
             split == Jump(Instr(r), {one, other})
             first == Jump(Instr(Label(split, one)), {end})
         IN  Instr(FallTo(Instr(Label(first, other)), end))

\* The same for an expression that may be absent.
Optional == Exprs \cup {"none"}
EvaluatedIfAny(r, e, base) ==
    IF e = "none" THEN r ELSE Evaluated(r, e, base)

\* A condition: its value, convert_to_boolean, and the br.
Choice(r, e, base, yes, no) == Jump(Instr(Evaluated(r, e, base)), {yes, no})

\* The br at the end of a body, unless the body ended in a jump.
Continued(r, l) == IF in_return_block THEN r ELSE Jump(r, {l})

-------------------------------------------------------------------------------
\* Calls and returns.

Top == frames[Len(frames)]
Popped == SubSeq(frames, 1, Len(frames) - 1)

\* What a handler keeps in its locals while it waits.
Frame(at, base) ==
    [at |-> at, base |-> base, has_else |-> FALSE,
     prev_return_state |-> in_return_block, then_terminates |-> FALSE,
     prev_break |-> current_break_label,
     prev_continue |-> current_continue_label,
     prev_switch_end |-> current_switch_end_label,
     live |-> live, then_live |-> FALSE]

Waiting(at) == mode = "return" /\ frames # <<>> /\ Top.at = at
Call(frame) == frames' = Append(frames, frame) /\ mode' = "call"
Return == UNCHANGED frames /\ mode' = "return"
Pop == frames' = Popped /\ mode' = "return"

\* generate_statement on a node of kind k: as the body of another statement,
\* or as the next item of a compound statement.
Visit(k) ==
    /\ k \in Kinds
    /\ mode = "call" \/ Waiting("compound")
    /\ ~in_return_block
    /\ nodes > 0
    /\ nodes' = nodes - 1

\* enter_scope, and add_symbol for each of the variables.
OpenedWith(stack, names) == Append(stack, [n \in names |-> "VARIABLE"])

KeepTargets == UNCHANGED labels
BreakTo(l) == current_break_label' = l
ContinueTo(l) == current_continue_label' = l
RestoreTargets ==
    /\ current_break_label' = Top.prev_break
    /\ current_continue_label' = Top.prev_continue
    /\ UNCHANGED current_switch_end_label
Restored == in_return_block' = Top.prev_return_state /\ live' = Top.live

-------------------------------------------------------------------------------
\* Simple statements.

\* A name already in the current scope is refused: nothing is printed.
Declaration(n, e) ==
    /\ Visit("declaration")
    /\ scopes' = Declared(scopes, n, "VARIABLE")
    /\ IF n \in DOMAIN Current(scopes)
       THEN UNCHANGED <<ir, label_counter>>
       ELSE /\ ir' = Evaluated(Instr(ir), e, label_counter)
            /\ label_counter' = label_counter + LabelCount(e)
    /\ Return
    /\ KeepTargets
    /\ UNCHANGED <<in_return_block, live, lost>>

Expression(e) ==
    /\ Visit("expression")
    /\ ir' = Evaluated(ir, e, label_counter)
    /\ label_counter' = label_counter + LabelCount(e)
    /\ Return
    /\ KeepTargets
    /\ UNCHANGED <<in_return_block, scopes, live, lost>>

\* The empty statement, and the nodes generate_statement does not know.
Empty ==
    /\ Visit("empty")
    /\ Return
    /\ KeepTargets
    /\ UNCHANGED <<in_return_block, label_counter, scopes, ir, live, lost>>

\* The NULL the parser leaves for a body with a syntax error.
NullStatement ==
    /\ mode = "call"
    /\ Return
    /\ KeepTargets
    /\ UNCHANGED <<in_return_block, label_counter, scopes, nodes, ir, live, lost>>

\* A jump to l; there is none to NULL, and then nothing is printed.
JumpsTo(l) ==
    /\ IF l = NoLabel
       THEN UNCHANGED <<ir, in_return_block, live>>
       ELSE /\ ir' = Jump(ir, {l})
            /\ in_return_block' = TRUE
            /\ live' = FALSE
    /\ Return
    /\ KeepTargets
    /\ UNCHANGED <<label_counter, lost>>

Break ==
    /\ Visit("break")
    /\ JumpsTo(current_break_label)
    /\ UNCHANGED scopes

Continue ==
    /\ Visit("continue")
    /\ JumpsTo(current_continue_label)
    /\ UNCHANGED scopes

\* find_label, over every enclosing scope.
IsLabel(l) ==
    \E i \in DOMAIN scopes : l \in DOMAIN scopes[i] /\ scopes[i][l] = "LABEL"
NotedLabel(l) == IF IsLabel(l) THEN scopes ELSE Declared(scopes, l, "LABEL")

Goto(l) ==
    /\ Visit("goto")
    /\ scopes' = NotedLabel(l)
    /\ JumpsTo(UserLabel(l))

Return_(e) ==
    /\ Visit("return")
    /\ ir' = Jump(Evaluated(ir, e, label_counter), {})
    /\ label_counter' = label_counter + LabelCount(e)
    /\ in_return_block' = TRUE
    /\ live' = FALSE
    /\ Return
    /\ KeepTargets
    /\ UNCHANGED <<scopes, lost>>

\* A label prints its line and generates its statement; the test of
\* in_return_block in the code is never true here, see Visit.
LabelStatement(l) ==
    /\ Visit("label")
    /\ scopes' = NotedLabel(l)
    /\ ir' = Label(ir, UserLabel(l))
    /\ live' = TRUE
    /\ mode' = "call"
    /\ KeepTargets
    /\ UNCHANGED <<in_return_block, label_counter, frames, lost>>

\* case and default generate their statement and nothing else.
Case ==
    /\ Visit("case")
    /\ live' = TRUE
    /\ mode' = "call"
    /\ KeepTargets
    /\ UNCHANGED <<in_return_block, label_counter, scopes, frames, ir, lost>>

-------------------------------------------------------------------------------
\* Compound statements.

\* A block within a block is flattened by the parser: a compound statement is
\* only ever the body of another statement.
Compound ==
    /\ mode = "call"
    /\ Visit("compound")
    /\ scopes' = Opened(scopes)
    /\ Call(Frame("compound", 0))
    /\ KeepTargets
    /\ UNCHANGED <<in_return_block, label_counter, ir, live, lost>>

\* Once in_return_block is set the loop over the items is left: those that
\* remain are read by nobody.  A label or a case among them is reachable again.
SkipItem(k) ==
    /\ Waiting("compound")
    /\ in_return_block
    /\ k \in Kinds \ {"compound"}
    /\ nodes > 0
    /\ nodes' = nodes - 1
    /\ live' = (live \/ k \in {"label", "case"})
    /\ lost' = IF live' THEN lost \cup {k} ELSE lost
    /\ UNCHANGED <<in_return_block, labels, label_counter, scopes,
                   frames, mode, ir>>

\* Mutant: the scope of a block that ended in a jump stays open.
CompoundEnd_IfReached ==
    /\ Waiting("compound")
    /\ scopes' = IF in_return_block THEN scopes ELSE Closed(scopes)
    /\ Pop
    /\ KeepTargets
    /\ UNCHANGED <<in_return_block, label_counter, nodes, ir, live, lost>>

CompoundEnd ==
    /\ Waiting("compound")
    /\ scopes' = Closed(scopes)
    /\ Pop
    /\ KeepTargets
    /\ UNCHANGED <<in_return_block, label_counter, nodes, ir, live, lost>>

-------------------------------------------------------------------------------
\* if

IfThen(base) == Generated("if_then", base, 1)
IfElse(base) == Generated("if_else", base, 2)
IfEnd(base) == Generated("if_end", base, 3)

If(e, has_else) ==
    LET base == label_counter
        no == IF has_else THEN IfElse(base) ELSE IfEnd(base)
    IN  /\ Visit("if")
        /\ label_counter' = base + 3 + LabelCount(e)
        /\ ir' = Label(Choice(ir, e, base + 3, IfThen(base), no), IfThen(base))
        /\ scopes' = Opened(scopes)
        /\ Call([Frame("then", base) EXCEPT !.has_else = has_else])
        /\ in_return_block' = FALSE
        /\ KeepTargets
        /\ UNCHANGED <<live, lost>>

\* Without an else, the end label is always printed.
ThenEnd ==
    /\ Waiting("then")
    /\ ~Top.has_else
    /\ ir' = Label(Continued(ir, IfEnd(Top.base)), IfEnd(Top.base))
    /\ Restored
    /\ scopes' = Closed(scopes)
    /\ Pop
    /\ KeepTargets
    /\ UNCHANGED <<label_counter, nodes, lost>>

ThenElse ==
    /\ Waiting("then")
    /\ Top.has_else
    /\ ir' = Label(Continued(ir, IfEnd(Top.base)), IfElse(Top.base))
    /\ in_return_block' = FALSE
    /\ live' = Top.live
    /\ scopes' = Opened(Closed(scopes))
    /\ frames' = Append(Popped, [Top EXCEPT !.at = "else",
                                            !.then_terminates = in_return_block,
                                            !.then_live = live])
    /\ mode' = "call"
    /\ KeepTargets
    /\ UNCHANGED <<label_counter, nodes, lost>>

\* Mutants: the end label is always printed; the flag is only ever restored.
ElseEnd_PrintsEnd ==
    /\ Waiting("else")
    /\ ir' = Label(Continued(ir, IfEnd(Top.base)), IfEnd(Top.base))
    /\ in_return_block' = (\/ Top.prev_return_state
                           \/ Top.then_terminates /\ in_return_block)
    /\ live' = (live \/ Top.then_live)
    /\ scopes' = Closed(scopes)
    /\ Pop
    /\ KeepTargets
    /\ UNCHANGED <<label_counter, nodes, lost>>
ElseEnd_Restores ==
    LET both == Top.then_terminates /\ in_return_block
        rest == Continued(ir, IfEnd(Top.base))
    IN  /\ Waiting("else")
        /\ ir' = IF both THEN rest ELSE Label(rest, IfEnd(Top.base))
        /\ in_return_block' = Top.prev_return_state
        /\ live' = (live \/ Top.then_live)
        /\ scopes' = Closed(scopes)
        /\ Pop
        /\ KeepTargets
        /\ UNCHANGED <<label_counter, nodes, lost>>

\* If both branches end in a jump, what follows the if is not reached and its
\* end label is not printed.
ElseEnd ==
    LET both == Top.then_terminates /\ in_return_block
        rest == Continued(ir, IfEnd(Top.base))
    IN  /\ Waiting("else")
        /\ ir' = IF both THEN rest ELSE Label(rest, IfEnd(Top.base))
        /\ in_return_block' = (Top.prev_return_state \/ both)
        /\ live' = (live \/ Top.then_live)
        /\ scopes' = Closed(scopes)
        /\ Pop
        /\ KeepTargets
        /\ UNCHANGED <<label_counter, nodes, lost>>

-------------------------------------------------------------------------------
\* Loops.

\* What the three loops have in common: the targets of break and continue are
\* replaced before the body and put back after it.
EnterLoop(at, base, break, continue) ==
    /\ BreakTo(break)
    /\ ContinueTo(continue)
    /\ UNCHANGED current_switch_end_label
    /\ Call(Frame(at, base))
    /\ in_return_block' = FALSE
    /\ UNCHANGED <<live, lost>>

\* Mutant: what follows the loop is what its body left.
LeaveLoop_KeepsFlag ==
    /\ RestoreTargets
    /\ UNCHANGED in_return_block
    /\ live' = Top.live
    /\ scopes' = Closed(scopes)
    /\ Pop
    /\ UNCHANGED <<nodes, lost>>

LeaveLoop ==
    /\ RestoreTargets
    /\ Restored
    /\ scopes' = Closed(scopes)
    /\ Pop
    /\ UNCHANGED <<nodes, lost>>

WhileCond(base) == Generated("while_cond", base, 1)
WhileBody(base) == Generated("while_body", base, 2)
WhileEnd(base) == Generated("while_end", base, 3)

While(e) ==
    LET base == label_counter
        test == FallTo(ir, WhileCond(base))
    IN  /\ Visit("while")
        /\ label_counter' = base + 3 + LabelCount(e)
        /\ ir' = Label(Choice(test, e, base + 3, WhileBody(base), WhileEnd(base)),
                       WhileBody(base))
        /\ scopes' = Opened(scopes)
        /\ EnterLoop("while", base, WhileEnd(base), WhileCond(base))

WhileDone ==
    /\ Waiting("while")
    /\ ir' = Label(Continued(ir, WhileCond(Top.base)), WhileEnd(Top.base))
    /\ LeaveLoop
    /\ UNCHANGED label_counter

ForCond(base) == Generated("for_cond", base, 1)
ForBody(base) == Generated("for_body", base, 2)
ForUpdate(base) == Generated("for_update", base, 3)
ForEnd(base) == Generated("for_end", base, 4)

\* The scope of a for holds its declaration.  Its parts may be absent; a list
\* of declarations is refused as an expression and nothing is printed.
For(declared, init, cond, base) ==
    LET body == ForBody(base)
        count == LabelCount(init)
        test == FallTo(EvaluatedIfAny(ir, init, base + 4), ForCond(base))
        chosen == IF cond = "none" THEN Jump(test, {body})
                  ELSE Choice(test, cond, base + 4 + count, body, ForEnd(base))
    IN  /\ Visit("for")
        /\ declared # {} => init # "none"
        /\ label_counter' = base + 4 + count + LabelCount(cond)
        /\ ir' = Label(chosen, body)
        /\ scopes' = OpenedWith(scopes, declared)
        /\ EnterLoop("for", base, ForEnd(base), ForUpdate(base))

ForDone(update) ==
    LET base == Top.base
        before == Label(Continued(ir, ForUpdate(base)), ForUpdate(base))
        after == EvaluatedIfAny(before, update, label_counter)
    IN  /\ Waiting("for")
        /\ ir' = Label(Jump(after, {ForCond(base)}), ForEnd(base))
        /\ label_counter' = label_counter + LabelCount(update)
        /\ LeaveLoop

DoBody(base) == Generated("do_body", base, 1)
DoCond(base) == Generated("do_cond", base, 2)
DoEnd(base) == Generated("do_end", base, 3)

Do ==
    LET base == label_counter
    IN  /\ Visit("do")
        /\ label_counter' = base + 3
        /\ ir' = FallTo(ir, DoBody(base))
        /\ scopes' = Opened(scopes)
        /\ EnterLoop("do", base, DoEnd(base), DoCond(base))

DoDone(e) ==
    LET base == Top.base
        test == Label(Continued(ir, DoCond(base)), DoCond(base))
    IN  /\ Waiting("do")
        /\ ir' = Label(Choice(test, e, label_counter, DoBody(base), DoEnd(base)),
                       DoEnd(base))
        /\ label_counter' = label_counter + LabelCount(e)
        /\ LeaveLoop

-------------------------------------------------------------------------------
\* switch: one block for the whole body, and no saved flag.

SwitchEnd(base) == Generated("switch_end", base, 1)
SwitchDefault(base) == Generated("switch_default", base, 2)

Switch(e) ==
    LET base == label_counter
    IN  /\ Visit("switch")
        /\ label_counter' = base + 2 + LabelCount(e)
        /\ ir' = FallTo(Evaluated(ir, e, base + 2), SwitchDefault(base))
        /\ BreakTo(SwitchEnd(base))
        /\ current_switch_end_label' = SwitchEnd(base)
        /\ UNCHANGED current_continue_label
        /\ scopes' = Opened(scopes)
        /\ Call(Frame("switch", base))
        /\ UNCHANGED <<in_return_block, live, lost>>

\* Mutant: the label of an outer loop is not put back.
SwitchDone_KeepsBreak ==
    /\ Waiting("switch")
    /\ ir' = Label(Continued(ir, SwitchEnd(Top.base)), SwitchEnd(Top.base))
    /\ current_switch_end_label' = Top.prev_switch_end
    /\ UNCHANGED <<current_break_label, current_continue_label>>
    /\ live' = Top.live
    /\ scopes' = Closed(scopes)
    /\ Pop
    /\ UNCHANGED <<in_return_block, label_counter, nodes, lost>>

SwitchDone ==
    /\ Waiting("switch")
    /\ ir' = Label(Continued(ir, SwitchEnd(Top.base)), SwitchEnd(Top.base))
    /\ current_break_label' = Top.prev_break
    /\ current_switch_end_label' = Top.prev_switch_end
    /\ UNCHANGED current_continue_label
    /\ live' = Top.live
    /\ scopes' = Closed(scopes)
    /\ Pop
    /\ UNCHANGED <<in_return_block, label_counter, nodes, lost>>

-------------------------------------------------------------------------------
\* The translation unit.

AtGlobalLevel == frames = <<>> /\ mode = "return"

\* Second pass: a prototype, here of a function that may be defined later.
Prototype(f) ==
    /\ mode = "declare"
    /\ nodes > 0
    /\ nodes' = nodes - 1
    /\ scopes' = Declared(scopes, f, "FUNCTION")
    /\ UNCHANGED <<in_return_block, labels, label_counter, frames, mode,
                   ir, live, lost>>

SecondPassEnd ==
    /\ mode = "declare"
    /\ mode' = "return"
    /\ UNCHANGED <<in_return_block, labels, label_counter, scopes, frames,
                   nodes, ir, live, lost>>

\* Third pass: the scope of the parameters, then the body's own.
Function(f, params) ==
    /\ AtGlobalLevel
    /\ nodes > 0
    /\ nodes' = nodes - 1
    /\ in_return_block' = FALSE
    /\ live' = TRUE
    /\ scopes' = Opened(OpenedWith(Declared(scopes, f, "FUNCTION"), params))
    /\ ir' = IF params = {} THEN Entered(ir) ELSE Instr(Entered(ir))
    /\ frames' = <<Frame("function", 0), Frame("compound", 0)>>
    /\ mode' = "return"
    /\ KeepTargets
    /\ UNCHANGED <<label_counter, lost>>

\* Mutant: the closing brace is forgotten.
FunctionEnd_NoBrace ==
    /\ Waiting("function")
    /\ ir' = IF in_return_block THEN ir ELSE Jump(ir, {})
    /\ scopes' = Closed(scopes)
    /\ Pop
    /\ KeepTargets
    /\ UNCHANGED <<in_return_block, label_counter, nodes, live, lost>>

\* A body that may run off its end gets a default return.
FunctionEnd ==
    /\ Waiting("function")
    /\ ir' = Left(IF in_return_block THEN ir ELSE Jump(ir, {}))
    /\ scopes' = Closed(scopes)
    /\ Pop
    /\ KeepTargets
    /\ UNCHANGED <<in_return_block, label_counter, nodes, live, lost>>

\* A global declaration goes through generate_statement, with the flag as the
\* last function left it.
GlobalDeclaration(n) ==
    /\ AtGlobalLevel
    /\ nodes > 0
    /\ nodes' = nodes - 1
    /\ IF in_return_block
       THEN lost' = lost \cup {"global"} /\ UNCHANGED scopes
       ELSE scopes' = Declared(scopes, n, "VARIABLE") /\ UNCHANGED lost
    /\ UNCHANGED <<in_return_block, labels, label_counter, frames, mode,
                   ir, live>>

ProgramEnd ==
    /\ AtGlobalLevel
    /\ mode' = "done"
    /\ UNCHANGED <<in_return_block, labels, label_counter, scopes, frames,
                   nodes, ir, live, lost>>

Done == mode = "done" /\ UNCHANGED vars

Init ==
    /\ in_return_block = FALSE
    /\ current_break_label = NoLabel
    /\ current_continue_label = NoLabel
    /\ current_switch_end_label = NoLabel
    /\ label_counter = 0
    /\ scopes = GlobalOnly
    /\ frames = <<>>
    /\ mode = "declare"
    /\ nodes = MaxNodes
    /\ ir = Blank
    /\ live = TRUE
    /\ lost = {}

Jumps ==
    \/ Break
    \/ Continue
    \/ \E l \in LabelName : Goto(l)
    \/ \E e \in Exprs : Return_(e)

Simple ==
    \/ \E n \in VarName, e \in Exprs : Declaration(n, e)
    \/ \E e \in Exprs : Expression(e)
    \/ Empty
    \/ NullStatement
    \/ \E l \in LabelName : LabelStatement(l)
    \/ Case

Nested ==
    \/ Compound
    \/ \E e \in Exprs, has_else \in BOOLEAN : If(e, has_else)
    \/ \E e \in Exprs : While(e)
    \/ \E declared \in SUBSET VarName, init, cond \in Optional :
          For(declared, init, cond, label_counter)
    \/ Do
    \/ \E e \in Exprs : Switch(e)

Ends ==
    \/ \E k \in AllKinds : SkipItem(k)
    \/ CompoundEnd
    \/ ThenEnd
    \/ ThenElse
    \/ ElseEnd
    \/ WhileDone
    \/ \E update \in Optional : ForDone(update)
    \/ \E e \in Exprs : DoDone(e)
    \/ SwitchDone

Unit ==
    \/ \E f \in FuncName : Prototype(f)
    \/ SecondPassEnd
    \/ \E f \in FuncName, params \in SUBSET VarName : Function(f, params)
    \/ FunctionEnd
    \/ \E n \in VarName : GlobalDeclaration(n)
    \/ ProgramEnd
    \/ Done

Next == Jumps \/ Simple \/ Nested \/ Ends \/ Unit

Spec == Init /\ [][Next]_vars

-------------------------------------------------------------------------------
\* Properties.

FrameKinds == {"function", "compound", "then", "else",
               "while", "for", "do", "switch"}

\* Type invariant: the context, the handlers that wait, and the text printed.
TypeOK ==
    /\ in_return_block \in BOOLEAN
    /\ label_counter \in Nat
    /\ \A i \in DOMAIN frames :
          /\ frames[i].at \in FrameKinds
          /\ frames[i].base \in 0 .. label_counter
    /\ mode \in {"declare", "call", "return", "done"}
    /\ nodes \in 0 .. MaxNodes
    /\ ir.block \in {"none", "open", "closed"}
    /\ (ir.block = "none") = (frames = <<>>)
    /\ live \in BOOLEAN
    /\ lost \subseteq AllKinds \cup {"global"}

\* Every handler opens one scope and closes it whatever its body was: code
\* after a statement is generated in the scope the statement was met in, and a
\* global declaration in the global scope.
ScopesFollowFrames == Len(scopes) = 1 + Len(frames)

Innermost(S) == IF S = {} THEN 0 ELSE CHOOSE i \in S : \A j \in S : j <= i
Enclosing(ats) == Innermost({i \in DOMAIN frames : frames[i].at \in ats})

BreakTarget(f) ==
    CASE f.at = "while" -> WhileEnd(f.base)
      [] f.at = "for" -> ForEnd(f.base)
      [] f.at = "do" -> DoEnd(f.base)
      [] f.at = "switch" -> SwitchEnd(f.base)
ContinueTarget(f) ==
    CASE f.at = "while" -> WhileCond(f.base)
      [] f.at = "for" -> ForUpdate(f.base)
      [] f.at = "do" -> DoCond(f.base)

\* break leaves the innermost loop or switch and continue continues the
\* innermost loop, also from a switch in a loop and after a nested one ended:
\* the labels saved in the C locals are the ones of the enclosing statement.
TargetsAreInnermost ==
    LET broken == Enclosing({"while", "for", "do", "switch"})
        continued == Enclosing({"while", "for", "do"})
    IN  /\ current_break_label =
              IF broken = 0 THEN NoLabel ELSE BreakTarget(frames[broken])
        /\ current_continue_label =
              IF continued = 0 THEN NoLabel
              ELSE ContinueTarget(frames[continued])

\* The flag that suppresses code is set exactly where the source says control
\* does not reach: set too late, dead code follows a terminator; set too long,
\* reachable code is dropped.  (For programs without switch and labels.)
FlagIsUnreachability == frames # <<>> => (in_return_block <=> ~live)

\* What is printed is a function: every block ends in one terminator, every
\* label branched to is printed, once, and no line follows a terminator
\* without a label.  (For programs without switch and labels.)
FunctionsAreWellFormed == ir.faults = {}

\* Whatever the program, the labels that generate_label made are printed once
\* and those branched to are printed, and no code is printed after a terminator
\* without a label.
GeneratedLabelsAreSound ==
    \A fault \in ir.faults :
        /\ fault[1] # "orphan"
        /\ fault[1] \in {"duplicate", "undefined"} => fault[2][2] = 0

\* Nothing reachable is dropped, neither a statement nor a declaration after the
\* function: main.c announces all control flow statements.
NothingReachableIsLost == lost = {}
===============================================================================
