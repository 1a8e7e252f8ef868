-------------------------------- MODULE CScopes --------------------------------
(***************************************************************************)
(* The scopes of C, read off the source before the parser turns it into an *)
(* AST, and what they say of the two passes of TwoPass.  (Of two           *)
(* declarations of one variable at file scope, which C allows, they make a *)
(* redeclaration.)                                                         *)
(***************************************************************************)
EXTENDS TwoPass

\* means: place of a use -> place of the declaration.  wrong: what makes the
\* program invalid.  own and forward: it has a variable in its own initializer,
\* or a goto to a label further down.
Reading == [stack |-> GlobalOnly, means |-> <<>>, wrong |-> {}, labels |-> {},
            targets |-> {}, own |-> FALSE, forward |-> FALSE]
Wrong(c, what, when) ==
    IF when THEN [c EXCEPT !.wrong = @ \cup {what}] ELSE c
Entered(c) == [c EXCEPT !.stack = Opened(@)]
Left(c) == [c EXCEPT !.stack = Closed(@)]

\* A name declared again in its scope.  The compiler lets a function or an
\* enumerator pass, and a variable with the name of a parameter.
Again(old, new) ==
    IF new \in {"FUNCTION", "ENUM_CONSTANT"} THEN "clash"
    ELSE IF old = "PARAMETER" /\ new = "VARIABLE" THEN "parameter"
    ELSE "redeclared"
Declaring(c, n, sym) ==
    LET here == Current(c.stack)
        noted == IF n \in DOMAIN here
                 THEN Wrong(c, Again(here[n].kind, sym.kind), TRUE)
                 ELSE c
    IN  [noted EXCEPT !.stack = Bound(@, n, sym)]

\* The enumerators of the program, which the parser puts into the table before
\* anything is analysed.
Enumerators == {s \in ToSet(original) : s.k = "enum"}
Undeclared(n) ==
    IF n \in {e.n : e \in Enumerators} THEN "early" ELSE "undeclared"

RECURSIVE Read(_, _)
ReadAll(list, c) == FoldLeft(LAMBDA acc, s : Read(s, acc), c, list)

\* A substatement is a block of its own.
ReadBody(s, c) ==
    IF s = NoNode THEN c
    ELSE IF s.k = "block" THEN Left(ReadAll(s.items, Entered(c)))
    ELSE Left(Read(s, Entered(Wrong(c, "form", s.k \in {"decls", "enum"}))))

ReadDeclarator(d, c) ==
    ReadAll(d.init,
            [Declaring(c, d.n, Symbol("VARIABLE", d.at, 0)) EXCEPT
                !.own = @ \/ d.n \in {u.n : u \in ToSet(d.init)}])

ReadFunction(f, c) ==
    LET sym == Symbol("FUNCTION", f.at, Len(f.params))
        known == /\ f.n \in DOMAIN Current(c.stack)
                 /\ Current(c.stack)[f.n] = sym
        here == IF known THEN c ELSE Declaring(c, f.n, sym)
        inside == FoldLeft(LAMBDA acc, p :
                               Declaring(acc, p.n, Symbol("PARAMETER", p.at, 0)),
                           Entered(here), f.params)
        end == IF f.body = NoNode THEN inside ELSE ReadAll(f.body.items, inside)
    IN  [Left(Wrong(end, "target", ~(end.targets \subseteq end.labels)))
            EXCEPT !.labels = {}, !.targets = {}]

Read(s, c) ==
    CASE s.k \in {"use", "call"} ->
            LET known == IsVisible(c.stack, s.n)
                bad == s.k = "call" /\ known
                       /\ ~Takes(Resolve(c.stack, s.n), s.argc)
            IN  [Wrong(Wrong(c, Undeclared(s.n), ~known), "call", bad)
                    EXCEPT !.means = Noted(@, s.at, Meaning(c.stack, s.n))]
      [] s.k = "expr" -> ReadAll(s.uses, c)
      [] s.k = "decls" ->
            FoldLeft(LAMBDA acc, d : ReadDeclarator(d, acc), c, s.ds)
      [] s.k = "block" -> ReadBody(s, c)
      [] s.k = "if" -> ReadBody(s.no, ReadBody(s.yes, ReadAll(s.cond, c)))
      [] s.k \in {"while", "switch"} -> ReadBody(s.body, ReadAll(s.cond, c))
      [] s.k = "do" -> ReadAll(s.cond, ReadBody(s.body, c))
      [] s.k = "for" ->
            LET head == ReadAll(<<s.init>> \o s.cond \o s.update, Entered(c))
            IN  Left(ReadBody(s.body, head))
      [] s.k = "label" ->
            ReadBody(s.body, [Wrong(c, "label", s.n \in c.labels)
                                 EXCEPT !.labels = @ \cup {s.n}])
      [] s.k = "goto" -> [c EXCEPT !.targets = @ \cup {s.n},
                                   !.forward = @ \/ s.n \notin c.labels]
      [] s.k = "enum" -> Declaring(c, s.n, Symbol("ENUM_CONSTANT", s.at, 0))
      [] s.k = "function" -> ReadFunction(s, c)
      [] OTHER -> c

InC == ReadAll(original, Reading)

-------------------------------------------------------------------------------
\* Properties.

\* A valid program is refused by no check, unless it has a goto to a label
\* further down or a variable in its own initializer.
NoFalseAlarm ==
    phase = "done" =>
        LET c == InC
        IN  c.wrong = {} /\ ~c.forward /\ ~c.own => error_count = 0

\* A use without a declaration in scope, a call that does not fit, a name
\* declared twice in one scope are each found, however statements are nested and
\* whatever was declared elsewhere before.
InvalidIsRefused ==
    phase = "done" =>
        (InC.wrong \cap {"undeclared", "call", "redeclared"} # {}
            => error_count > 0)

\* In a valid program every use means the declaration C gives it, to the
\* analysis and, where code is generated for it, to the code generator, though
\* the two open their scopes at different places and in another order.  (The
\* code generator knows no enumerators, see NamesAreFound.)
MeaningIsKept ==
    phase = "done" /\ error_count = 0 =>
        LET c == InC
        IN  c.wrong = {} /\ ~c.own =>
                \A u \in DOMAIN c.means :
                    /\ checked[u] = c.means[u]
                    /\ /\ u \in DOMAIN generated
                       /\ c.means[u] \notin {e.at : e \in Enumerators}
                       => generated[u] = c.means[u]

\* Whatever the analysis accepts, the code generator finds every name it looks
\* up: main.c announces "Enums with automatic and explicit values".
NamesAreFound ==
    \A u \in DOMAIN generated : generated[u] # NoMeaning
===============================================================================
