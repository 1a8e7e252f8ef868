------------------------------- MODULE TwoPass -------------------------------
(***************************************************************************)
(* One program through parser, semantic analysis and code generator: which *)
(* declaration each use of a name is given.  The two passes walk the same  *)
(* AST with a symbol table each, opening scopes at different places and in *)
(* different orders; CScopes compares both with the scopes of C.           *)
(***************************************************************************)
EXTENDS Scopes, Integers, SequencesExt

CONSTANTS
    Sources,    \* the programs: sequences of external declarations
    Trees,      \* every declaration and statement in them
    Height      \* how deep each is nested

\* NULL for a node.
NoNode == [k |-> "none"]

\* A name in an expression, at a place of the program, and a declared variable
\* with the names in its initializer.
References ==
    [k : {"use"}, n : STRING, at : Nat]
    \cup [k : {"call"}, n : STRING, argc : Nat, at : Nat]
Declarators == [n : STRING, at : Nat, init : Seq(References)]

\* The declarations and statements whose parts are in T.
Productions(T) ==
    LET part == T \cup {NoNode}
    IN  [k : {"expr"}, uses : Seq(References)]
        \cup [k : {"decls"}, ds : Seq(Declarators)]
        \cup [k : {"block"}, items : Seq(T)]
        \cup [k : {"if"}, cond : Seq(References), yes : part, no : part]
        \cup [k : {"while", "do", "switch"}, cond : Seq(References), body : part]
        \cup [k : {"for"}, init : part, cond : Seq(References),
              update : Seq(References), body : part]
        \cup [k : {"label"}, n : STRING, at : Nat, body : part]
        \cup [k : {"goto", "enum"}, n : STRING, at : Nat]
        \cup [k : {"jump"}]
        \cup [k : {"function"}, n : STRING, at : Nat, params : Seq(Declarators),
              body : {t \in T : t.k = "block"} \cup {NoNode}]
PartsOf(s) ==
    (CASE s.k = "block" -> ToSet(s.items)
       [] s.k = "if" -> {s.yes, s.no}
       [] s.k = "for" -> {s.init, s.body}
       [] s.k \in {"while", "do", "switch", "label", "function"} -> {s.body}
       [] OTHER -> {}) \ {NoNode}

\* The parser derives finite trees from the grammar.
ASSUME TreesAssumption == Trees \subseteq Productions(Trees)
ASSUME HeightAssumption ==
    /\ Height \in [Trees -> Nat]
    /\ \A s \in Trees : \A p \in PartsOf(s) : Height[p] < Height[s]
ASSUME SourcesAssumption == Sources \subseteq Seq(Trees)

VARIABLES
    source,          \* external declarations not yet parsed
    original,        \* all of them
    phase,           \* "parse", "analyse", "prototypes", "generate", "done"
    ast,             \* the declarations of the AST
    scopes,          \* the symbol table of this phase
    todo,            \* what the recursion has still to do, next first
    error_count,
    in_return_block,
    flags,           \* values of in_return_block the handlers keep
    checked,         \* place of a use -> what the analysis finds there
    generated        \* the same for the code generator

vars == <<source, original, phase, ast, scopes, todo, error_count,
          in_return_block, flags, checked, generated>>

NoMeaning == 0
Symbol(kind, at, argc) == [kind |-> kind, at |-> at, argc |-> argc]
Meaning(stack, n) ==
    IF IsVisible(stack, n) THEN Resolve(stack, n).at ELSE NoMeaning
Noted(f, at, m) == [u \in DOMAIN f \cup {at} |-> IF u = at THEN m ELSE f[u]]

-------------------------------------------------------------------------------
\* The parser.

\* Mutant: the list takes the node as it is.
Items_Nested(n) == IF n = NoNode THEN <<>> ELSE <<n>>

\* In a list, a compound statement is replaced by its items: several declared
\* variables, and likewise a block.
Items(n) ==
    IF n = NoNode THEN <<>> ELSE IF n.k = "compound" THEN n.items ELSE <<n>>
Spliced(list) == FlattenSeq([i \in DOMAIN list |-> Items(list[i])])

\* A declaration of several variables is a compound statement; one of none has
\* no node.
Ast[s \in Trees] ==
    LET decl(i) == [k |-> "declaration", d |-> s.ds[i]]
        part(t) == IF t = NoNode THEN NoNode ELSE Ast[t]
    IN  CASE s.k = "enum" -> NoNode
          [] s.k = "decls" ->
                IF Len(s.ds) = 1
                THEN decl(1)
                ELSE [k |-> "compound", items |-> [i \in DOMAIN s.ds |-> decl(i)]]
          [] s.k = "block" ->
                [k |-> "compound",
                 items |-> Spliced([i \in DOMAIN s.items |-> Ast[s.items[i]]])]
          [] s.k = "if" -> [s EXCEPT !.yes = part(@), !.no = part(@)]
          [] s.k \in {"while", "do", "switch", "label", "function"} ->
                [s EXCEPT !.body = part(@)]
          [] s.k = "for" -> [s EXCEPT !.init = part(@), !.body = part(@)]
          [] s.k \in {"expr", "goto", "jump"} -> s

\* An external declaration is a list item too.  Enumerators are put into the
\* table at once.
ExternalDeclaration ==
    /\ phase = "parse"
    /\ source # <<>>
    /\ LET s == Head(source)
       IN  /\ ast' = ast \o Items(Ast[s])
           /\ scopes' = IF s.k = "enum"
                        THEN Declared(scopes, s.n, Symbol("ENUM_CONSTANT", s.at, 0))
                        ELSE scopes
    /\ source' = Tail(source)
    /\ UNCHANGED <<original, phase, todo, error_count, in_return_block, flags,
                   checked, generated>>

ParseEnd ==
    /\ phase = "parse"
    /\ source = <<>>
    /\ phase' = "analyse"
    /\ todo' = ast
    /\ UNCHANGED <<source, original, ast, scopes, error_count, in_return_block,
                   flags, checked, generated>>

-------------------------------------------------------------------------------
\* The semantic analysis: traverse_node on the node at the head of todo.

Doing(p, kinds) == phase = p /\ todo # <<>> /\ Head(todo).k \in kinds
node == Head(todo)
Then(tasks) == todo' = tasks \o Tail(todo)
IfAny(n) == IF n = NoNode THEN <<>> ELSE <<n>>
Leave == <<[k |-> "leave"]>>

Complain(wrong) == error_count' = error_count + (IF wrong THEN 1 ELSE 0)
Analysing == UNCHANGED <<source, original, phase, ast, in_return_block, flags,
                         generated>>

CheckUse ==
    /\ Doing("analyse", {"use"})
    /\ Complain(~IsVisible(scopes, node.n))
    /\ checked' = Noted(checked, node.at, Meaning(scopes, node.n))
    /\ Then(<<>>)
    /\ Analysing
    /\ UNCHANGED scopes

Takes(sym, argc) == sym.kind = "FUNCTION" /\ sym.argc = argc
CheckCall ==
    /\ Doing("analyse", {"call"})
    /\ Complain(~(/\ IsVisible(scopes, node.n)
                  /\ Takes(Resolve(scopes, node.n), node.argc)))
    /\ checked' = Noted(checked, node.at, Meaning(scopes, node.n))
    /\ Then(<<>>)
    /\ Analysing
    /\ UNCHANGED scopes

\* The initializer first, then the name.
CheckDeclaration ==
    /\ Doing("analyse", {"declaration"})
    /\ Then(node.d.init \o <<[k |-> "add", d |-> node.d]>>)
    /\ Analysing
    /\ UNCHANGED <<scopes, error_count, checked>>
CheckAdded ==
    /\ Doing("analyse", {"add"})
    /\ Complain(node.d.n \in DOMAIN Current(scopes))
    /\ scopes' = Declared(scopes, node.d.n, Symbol("VARIABLE", node.d.at, 0))
    /\ Then(<<>>)
    /\ Analysing
    /\ UNCHANGED checked

\* The function is added once; a parameter may be refused.
WithFunction(stack, f) ==
    Declared(stack, f.n, Symbol("FUNCTION", f.at, Len(f.params)))
WithParams(stack, ps) ==
    LET upto[i \in 0 .. Len(ps)] ==
            IF i = 0 THEN stack
            ELSE Declared(upto[i - 1], ps[i].n, Symbol("VARIABLE", ps[i].at, 0))
    IN  upto[Len(ps)]
\* Mutant: the parameters are added before the scope of the function is entered.
CheckFunction_ParamsOutside ==
    /\ Doing("analyse", {"function"})
    /\ scopes' = Opened(WithParams(WithFunction(scopes, node), node.params))
    /\ error_count' = error_count
           + Len(node.params) - Cardinality({p.n : p \in ToSet(node.params)})
    /\ Then(IfAny(node.body) \o Leave)
    /\ Analysing
    /\ UNCHANGED checked

CheckFunction ==
    /\ Doing("analyse", {"function"})
    /\ scopes' = WithParams(Opened(WithFunction(scopes, node)), node.params)
    /\ error_count' = error_count
           + Len(node.params) - Cardinality({p.n : p \in ToSet(node.params)})
    /\ Then(IfAny(node.body) \o Leave)
    /\ Analysing
    /\ UNCHANGED checked

\* Mutant: a for has no scope of its own.
CheckScope_OnlyBlocks ==
    /\ Doing("analyse", {"compound", "for"})
    /\ IF node.k = "compound"
       THEN Then(node.items \o Leave) /\ scopes' = Opened(scopes)
       ELSE /\ Then(IfAny(node.init) \o node.cond \o node.update
                    \o IfAny(node.body))
            /\ UNCHANGED scopes
    /\ Analysing
    /\ UNCHANGED <<error_count, checked>>

\* The two statements that open a scope: a block, and a for, with its parts in
\* the order of the source.
CheckScope ==
    /\ Doing("analyse", {"compound", "for"})
    /\ Then((IF node.k = "compound"
             THEN node.items
             ELSE IfAny(node.init) \o node.cond \o node.update
                  \o IfAny(node.body)) \o Leave)
    /\ scopes' = Opened(scopes)
    /\ Analysing
    /\ UNCHANGED <<error_count, checked>>
CheckLeave ==
    /\ Doing("analyse", {"leave"})
    /\ scopes' = Closed(scopes)
    /\ Then(<<>>)
    /\ Analysing
    /\ UNCHANGED <<error_count, checked>>

\* Mutant: the condition of a do is left out.
Parts_NoLastCondition(s) ==
    CASE s.k = "expr" -> s.uses
      [] s.k = "if" -> s.cond \o IfAny(s.yes) \o IfAny(s.no)
      [] s.k \in {"while", "switch"} -> s.cond \o IfAny(s.body)
      [] s.k = "do" -> IfAny(s.body)
      [] s.k = "jump" -> <<>>

\* The statements that open none.
Parts(s) ==
    CASE s.k = "expr" -> s.uses
      [] s.k = "if" -> s.cond \o IfAny(s.yes) \o IfAny(s.no)
      [] s.k \in {"while", "switch"} -> s.cond \o IfAny(s.body)
      [] s.k = "do" -> IfAny(s.body) \o s.cond
      [] s.k = "jump" -> <<>>
CheckStatement ==
    /\ Doing("analyse", {"expr", "if", "while", "switch", "do", "jump"})
    /\ Then(Parts(node))
    /\ Analysing
    /\ UNCHANGED <<scopes, error_count, checked>>

\* Labels share the table and the names of variables.
IsLabel(l) ==
    \E i \in DOMAIN scopes :
        l \in DOMAIN scopes[i] /\ scopes[i][l].kind = "LABEL"
WithLabel(l, at) == Declared(scopes, l, Symbol("LABEL", at, 0))
NotedLabel(l, at) == IF IsLabel(l) THEN scopes ELSE WithLabel(l, at)
CheckLabel ==
    /\ Doing("analyse", {"label"})
    /\ Complain(node.n \in DOMAIN Current(scopes))
    /\ scopes' = WithLabel(node.n, node.at)
    /\ Then(IfAny(node.body))
    /\ Analysing
    /\ UNCHANGED checked
CheckGoto ==
    /\ Doing("analyse", {"goto"})
    /\ scopes' = NotedLabel(node.n, node.at)
    /\ Then(<<>>)
    /\ Analysing
    /\ UNCHANGED <<error_count, checked>>

\* Without -f no code is generated from a program with errors.
AnalyseEnd ==
    /\ phase = "analyse"
    /\ todo = <<>>
    /\ IF error_count = 0
       THEN phase' = "prototypes" /\ todo' = ast /\ scopes' = GlobalOnly
       ELSE phase' = "done" /\ UNCHANGED <<todo, scopes>>
    /\ UNCHANGED <<source, original, ast, error_count, in_return_block, flags,
                   checked, generated>>

-------------------------------------------------------------------------------
\* The code generator.

Generating == UNCHANGED <<source, original, phase, ast, error_count, checked>>

\* generate_llvm_ir's second pass, over the prototypes.
WithPrototypes(stack, ds) ==
    LET upto[i \in 0 .. Len(ds)] ==
            IF i = 0 THEN stack
            ELSE IF ds[i].k = "function" /\ ds[i].body = NoNode
            THEN WithFunction(upto[i - 1], ds[i])
            ELSE upto[i - 1]
    IN  upto[Len(ds)]
Prototypes ==
    /\ phase = "prototypes"
    /\ scopes' = WithPrototypes(scopes, ast)
    /\ phase' = "generate"
    /\ UNCHANGED <<source, original, ast, todo, error_count, in_return_block,
                   flags, checked, generated>>

Enter == <<[k |-> "enter"]>>
Save == <<[k |-> "save"]>>
Restore == <<[k |-> "restore"]>>
Join == <<[k |-> "join"]>>

Statements == {"expr", "declaration", "compound", "if", "while", "do", "for",
               "switch", "label", "goto", "jump"}

\* generate_statement on a statement that will not be reached.  The function
\* declared in a block is no statement it knows.
Skip ==
    /\ \/ Doing("generate", Statements) /\ in_return_block
       \/ Doing("generate", {"function"}) /\ node.body = NoNode
    /\ Then(<<>>)
    /\ Generating
    /\ UNCHANGED <<scopes, in_return_block, flags, generated>>

Reached(kinds) == Doing("generate", kinds) /\ ~in_return_block

GenerateUse ==
    /\ Doing("generate", {"use", "call"})
    /\ generated' = Noted(generated, node.at, Meaning(scopes, node.n))
    /\ Then(<<>>)
    /\ Generating
    /\ UNCHANGED <<scopes, in_return_block, flags>>

\* The name first, then the initializer; that of a global variable is printed
\* only if it is a literal.
GenerateDeclaration ==
    /\ Reached({"declaration"})
    /\ scopes' = Declared(scopes, node.d.n, Symbol("VARIABLE", node.d.at, 0))
    /\ Then(IF node.d.n \in DOMAIN Current(scopes) \/ Len(scopes) = 1
            THEN <<>> ELSE node.d.init)
    /\ Generating
    /\ UNCHANGED <<in_return_block, flags, generated>>

\* generate_function, and generate_compound_statement on its body.
GenerateFunction ==
    /\ Doing("generate", {"function"})
    /\ node.body # NoNode
    /\ scopes' = WithParams(Opened(WithFunction(scopes, node)), node.params)
    /\ in_return_block' = FALSE
    /\ Then(Enter \o node.body.items \o Leave \o Leave)
    /\ Generating
    /\ UNCHANGED <<flags, generated>>

\* What is evaluated before the loop of a for: not a list of declarations.
ForInit(init) ==
    IF init = NoNode \/ init.k = "compound" THEN <<>>
    ELSE IF init.k = "expr" THEN init.uses
    ELSE <<init>>

\* Mutant: the scope of a for is left before its update is generated.
Schedule_UpdateOutside(s) ==
    LET body == Save \o IfAny(s.body) \o Restore
    IN  CASE s.k = "expr" -> s.uses
          [] s.k = "compound" -> Enter \o s.items \o Leave
          [] s.k = "if" ->
                s.cond \o Enter \o Save \o IfAny(s.yes) \o
                (IF s.no = NoNode THEN Restore \o Leave
                 ELSE Save \o Leave \o Enter \o IfAny(s.no) \o Join \o Leave)
          [] s.k = "while" -> s.cond \o Enter \o body \o Leave
          [] s.k = "do" -> Enter \o body \o Leave \o s.cond
          [] s.k = "switch" -> s.cond \o Enter \o IfAny(s.body) \o Leave
          [] s.k = "for" ->
                Enter \o ForInit(s.init) \o s.cond \o body \o Leave \o s.update

\* The order in which a statement generates its parts, with the scopes it opens
\* and the in_return_block it keeps meanwhile.
Schedule(s) ==
    LET body == Save \o IfAny(s.body) \o Restore
    IN  CASE s.k = "expr" -> s.uses
          [] s.k = "compound" -> Enter \o s.items \o Leave
          [] s.k = "if" ->
                s.cond \o Enter \o Save \o IfAny(s.yes) \o
                (IF s.no = NoNode THEN Restore \o Leave
                 ELSE Save \o Leave \o Enter \o IfAny(s.no) \o Join \o Leave)
          [] s.k = "while" -> s.cond \o Enter \o body \o Leave
          [] s.k = "do" -> Enter \o body \o Leave \o s.cond
          [] s.k = "switch" -> s.cond \o Enter \o IfAny(s.body) \o Leave
          [] s.k = "for" ->
                Enter \o ForInit(s.init) \o s.cond \o body \o s.update \o Leave
GenerateStatement ==
    /\ Reached({"expr", "compound", "if", "while", "do", "switch", "for"})
    /\ Then(Schedule(node))
    /\ Generating
    /\ UNCHANGED <<scopes, in_return_block, flags, generated>>

GenerateScope ==
    /\ Doing("generate", {"enter", "leave"})
    /\ scopes' = IF node.k = "enter" THEN Opened(scopes) ELSE Closed(scopes)
    /\ Then(<<>>)
    /\ Generating
    /\ UNCHANGED <<in_return_block, flags, generated>>

\* The handlers' copies of in_return_block.  An if with two branches keeps a
\* second one, and both must end in a jump for the rest to be unreached.
SaveFlag ==
    /\ Doing("generate", {"save"})
    /\ flags' = <<in_return_block>> \o flags
    /\ in_return_block' = FALSE
    /\ Then(<<>>)
    /\ Generating
    /\ UNCHANGED <<scopes, generated>>
RestoreFlag ==
    /\ Doing("generate", {"restore"})
    /\ in_return_block' = Head(flags)
    /\ flags' = Tail(flags)
    /\ Then(<<>>)
    /\ Generating
    /\ UNCHANGED <<scopes, generated>>
\* Mutant: the flag kept by the first branch is not given back.
JoinFlags_PopsOne ==
    /\ Doing("generate", {"join"})
    /\ in_return_block' = (flags[2] \/ (flags[1] /\ in_return_block))
    /\ flags' = Tail(flags)
    /\ Then(<<>>)
    /\ Generating
    /\ UNCHANGED <<scopes, generated>>

JoinFlags ==
    /\ Doing("generate", {"join"})
    /\ in_return_block' = (flags[2] \/ (flags[1] /\ in_return_block))
    /\ flags' = Tail(Tail(flags))
    /\ Then(<<>>)
    /\ Generating
    /\ UNCHANGED <<scopes, generated>>

GenerateLabel ==
    /\ Reached({"label"})
    /\ scopes' = NotedLabel(node.n, node.at)
    /\ Then(IfAny(node.body))
    /\ Generating
    /\ UNCHANGED <<in_return_block, flags, generated>>
GenerateJump ==
    /\ Reached({"goto", "jump"})
    /\ scopes' = IF node.k = "goto" THEN NotedLabel(node.n, node.at) ELSE scopes
    /\ in_return_block' = TRUE
    /\ Then(<<>>)
    /\ Generating
    /\ UNCHANGED <<flags, generated>>

GenerateEnd ==
    /\ phase = "generate"
    /\ todo = <<>>
    /\ phase' = "done"
    /\ UNCHANGED <<source, original, ast, scopes, todo, error_count,
                   in_return_block, flags, checked, generated>>

\* The compiler has ended; nothing else may keep it from going on.
Finished == phase = "done" /\ UNCHANGED vars

Init ==
    /\ source \in Sources
    /\ original = source
    /\ phase = "parse"
    /\ ast = <<>>
    /\ scopes = GlobalOnly
    /\ todo = <<>>
    /\ error_count = 0
    /\ in_return_block = FALSE
    /\ flags = <<>>
    /\ checked = <<>>
    /\ generated = <<>>

Next ==
    \/ ExternalDeclaration \/ ParseEnd
    \/ CheckUse \/ CheckCall \/ CheckDeclaration \/ CheckAdded
    \/ CheckFunction \/ CheckScope \/ CheckLeave \/ CheckStatement
    \/ CheckLabel \/ CheckGoto \/ AnalyseEnd
    \/ Prototypes \/ Skip \/ GenerateUse \/ GenerateDeclaration
    \/ GenerateFunction \/ GenerateStatement \/ GenerateScope
    \/ SaveFlag \/ RestoreFlag \/ JoinFlags
    \/ GenerateLabel \/ GenerateJump \/ GenerateEnd
    \/ Finished

Spec == Init /\ [][Next]_vars

-------------------------------------------------------------------------------
\* Properties.

Tasks == Statements \cup {"use", "call", "function", "add", "enter", "leave",
                          "save", "restore", "join"}

\* Type invariant; scopes and copies of the flag are given back at the end.
TypeOK ==
    /\ phase \in {"parse", "analyse", "prototypes", "generate", "done"}
    /\ \A i \in DOMAIN todo : todo[i].k \in Tasks
    /\ error_count \in Nat
    /\ in_return_block \in BOOLEAN
    /\ flags \in Seq(BOOLEAN)
    /\ todo = <<>> => Len(scopes) = 1 /\ flags = <<>>

\* The walk of the code generator, with its own order of the parts of each
\* statement, comes upon no name that the walk of the analysis has left out.
GeneratedIsChecked == DOMAIN generated \subseteq DOMAIN checked
===============================================================================
