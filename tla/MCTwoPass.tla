------------------------------- MODULE MCTwoPass -------------------------------
(***************************************************************************)
(* Programs for model checking TwoPass.  A place is a number: 1 to 9 for   *)
(* the declarations at file scope, from 10 on in the body of a function.   *)
(***************************************************************************)
EXTENDS CScopes

Name == {"x", "y"}

Use(n, at) == [k |-> "use", n |-> n, at |-> at]
CallOf(n, argc, at) == [k |-> "call", n |-> n, argc |-> argc, at |-> at]
Expr(uses) == [k |-> "expr", uses |-> uses]
Declarator(n, at, init) == [n |-> n, at |-> at, init |-> init]
Decls(ds) == [k |-> "decls", ds |-> ds]
Block(items) == [k |-> "block", items |-> items]
If(cond, yes, no) == [k |-> "if", cond |-> cond, yes |-> yes, no |-> no]
Loop(kind, cond, body) == [k |-> kind, cond |-> cond, body |-> body]
For(init, cond, update, body) ==
    [k |-> "for", init |-> init, cond |-> cond, update |-> update, body |-> body]
LabelOf(l, at, body) == [k |-> "label", n |-> l, at |-> at, body |-> body]
Goto(l, at) == [k |-> "goto", n |-> l, at |-> at]
Jump == [k |-> "jump"]
Enum(n, at) == [k |-> "enum", n |-> n, at |-> at]
Function(n, at, params, body) ==
    [k |-> "function", n |-> n, at |-> at, params |-> params, body |-> body]

Uses(n, at) == Expr(<<Use(n, at)>>)
Var(n, at) == Decls(<<Declarator(n, at, <<>>)>>)
VarAs(n, m, at) == Decls(<<Declarator(n, at, <<Use(m, at + 1)>>)>>)
TwoVars(at) ==
    Decls(<<Declarator("x", at, <<>>), Declarator("y", at + 1, <<Use("x", at + 2)>>)>>)

\* A statement without others in it, at one of the places at to at + 2.
Simple(at) ==
    {Uses(n, at) : n \in Name} \cup {Var(n, at) : n \in Name}
        \cup {VarAs("x", "y", at), TwoVars(at)}
Simplest(at) == {Uses("x", at), Var("x", at), VarAs("x", "x", at), Jump}

\* A statement with others in it: a body of one or two.
Bodies(at) ==
    {Block(<<s, t>>) : s \in Simple(at), t \in Simplest(at + 3)}
        \cup {Uses("x", at)}
Nested(at) ==
    {If(<<Use("x", at)>>, s, NoNode) : s \in Bodies(at + 10)}
        \cup {If(<<>>, s, t) : s \in Bodies(at + 10), t \in
                 {Block(<<Var("x", at + 20), Jump>>), Uses("y", at + 20)}}
        \cup {Loop(k, <<Use("x", at)>>, s) :
                 k \in {"while", "do", "switch"}, s \in Bodies(at + 10)}
        \cup {For(i, <<Use("x", at + 4)>>, <<Use("x", at + 5)>>, s) :
                 i \in {Var("x", at), VarAs("x", "y", at), Uses("y", at)},
                 s \in Bodies(at + 10)}

Body(items) == Block(items)
Main(items) == Function("main", 9, <<Declarator("y", 8, <<>>)>>, Body(items))

Scoping ==
    {<<Decls(<<Declarator("x", 1, <<>>)>>), Main(<<s, t, u>>)>> :
        s \in Simple(10), t \in Nested(20), u \in Simple(50)}

\* Functions before and after their use, with prototypes or without, and names
\* of functions, enumerators and variables that hide one another.
Callee(body) ==
    Function("f", 1, <<Declarator("x", 2, <<>>)>>, body)
Definition == Callee(Body(<<Uses("x", 5), Jump, Uses("y", 6)>>))
Prototype == Callee(NoNode)
Constant == Enum("y", 4)
CallStatement(n, argc, m, at) ==
    Expr(<<CallOf(n, argc, at), Use(m, at + 1)>>)
Caller(items) == Function("g", 9, <<Declarator("z", 8, <<>>)>>, Body(items))
External == {Definition, Prototype, Constant, Decls(<<Declarator("y", 3, <<>>)>>),
             Decls(<<Declarator("f", 7, <<>>)>>)}
Calls ==
    {<<e1, e2, Caller(<<s, t>>), e3>> :
        e1 \in External, e2 \in External, e3 \in {Definition, Prototype},
        s \in {Prototype, Var("f", 10), Uses("y", 10)} \cup {Var("y", 10)},
        t \in {CallStatement(n, c, m, 14) :
                   n \in {"f", "g", "y"}, c \in {0, 1}, m \in {"x", "z"}}}

\* Labels and gotos in and out of blocks.
Jumps(at) ==
    {LabelOf("l", at, Uses("z", at + 1)), LabelOf("m", at, Uses("z", at + 1)),
     Goto("l", at), Goto("m", at)}
Labels ==
    {<<Caller(<<s, If(<<>>, Block(<<t, u>>), NoNode), v>>)>> :
        s \in Jumps(10), t \in Jumps(20), u \in Jumps(30), v \in Jumps(40)}

MCSources == Scoping \cup Calls \cup Labels

\* A block as an item of a list, and enumerators in use.
MCBlocks ==
    {<<Main(<<Var("x", 10), Block(<<s>>), u>>)>> :
        s \in Simple(20), u \in Simplest(30)}
MCEnums ==
    {<<Constant, Caller(<<s, t>>)>> : s \in Simple(10), t \in Simple(20)}

\* The declarations and statements of a set of programs, and how deep each is
\* nested.  (A program has at most four external declarations.)
RECURSIVE WithParts(_), Depth(_)
WithParts(T) ==
    IF T = {} THEN T ELSE T \cup WithParts(UNION {PartsOf(s) : s \in T})
Depth(s) == 1 + Max({0} \cup {Depth(p) : p \in PartsOf(s)})
TreesOf(programs) ==
    LET external == {p[1 + (i % Len(p))] : p \in programs, i \in 0 .. 3}
        bodies == {f.body : f \in {e \in external : e.k = "function"}} \ {NoNode}
        others == {e \in external : e.k # "function"}
    IN  WithParts(others \cup UNION {ToSet(b.items) : b \in bodies})
            \cup bodies \cup external
MCTrees == TreesOf(MCSources)
MCHeight == [s \in MCTrees |-> Depth(s)]
MCBlockTrees == TreesOf(MCBlocks)
MCBlockHeight == [s \in MCBlockTrees |-> Depth(s)]
MCEnumTrees == TreesOf(MCEnums)
MCEnumHeight == [s \in MCEnumTrees |-> Depth(s)]
===============================================================================
