----------------------------- MODULE MCExprGen -----------------------------
EXTENDS ExprGen

MCType == [i |-> "int", j |-> "int", c |-> "char", l |-> "long"]
MCFunction ==
    [get |-> [result |-> "int", params |-> <<"int">>],
     far |-> [result |-> "long", params |-> <<"long", "int">>],
     put |-> [result |-> "void", params |-> <<"int">>]]
MCInitial ==
    {[i |-> -1, j |-> 2, c |-> -2, l |-> -5], [i |-> 0, j |-> -1, c |-> 1, l |-> 20],
     [i |-> 3, j |-> 0, c |-> 0, l |-> 0]}

I == Identifier("i")
J == Identifier("j")
C == Identifier("c")
L == Identifier("l")

\* Expressions whose value arrives as an i32 register that is taken for one.
Sums(S) == {Binary(op, a, b) : op \in {"OP_ADD", "OP_SUB"}, a \in S, b \in S}
Tests(S) == {Binary(op, a, b) : op \in {"OP_LT", "OP_EQ"}, a \in S, b \in S}
Every(S) == {Binary(op, a, b) : op \in DOMAIN Opcode \cup DOMAIN Predicate, a \in S, b \in S}
Connected(S) == {Binary(op, a, b) : op \in Logical, a \in S, b \in S}
Chosen(S, T, U) == {Conditional(c, a, b) : c \in S, a \in T, b \in U}
Stepped(S) == {Unary(op, v) : op \in Increments, v \in S}
Signed(S) == {Unary(op, a) : op \in {"OP_NEG", "OP_BNOT"}, a \in S}

\* Operands: numbers, characters, int and char variables, and what changes them.
Ints == {Number(0), Number(2), I} \cup Stepped({J})
Operands == {Number(0), Character(1), I, C} \cup Stepped({C})
Two == Tests({I, Number(0)}) \cup {Assignment("i", J)} \cup Stepped({J})
Flat == Every(Operands) \cup Connected(Two \cup {Number(1), Character(1)})
        \cup Signed({Number(1), I}) \cup {FunctionCall("get", <<a>>) : a \in Ints}
        \cup Chosen(Two \cup {I}, {Number(2), Unary("OP_PREINC", J)}, {I, Character(1), C})
Some == Sums({I, C}) \cup Connected({I, Unary("OP_POSTINC", J)})
        \cup {Conditional(I, Unary("OP_PREDEC", J), C), Assignment("j", I)}
Mixed(op, S, T) == {Binary(op, a, b) : a \in S, b \in T} \cup {Binary(op, b, a) : a \in S, b \in T}
Nested == UNION {Mixed(op, Some, Tests({I, C})) :
                    op \in {"OP_ADD", "OP_MUL", "OP_LT", "OP_LAND", "OP_LOR"}}
          \cup Mixed("OP_SUB", Some, {C})
          \cup Connected(Some) \cup Sums(Some)
          \cup Signed(Some) \cup {FunctionCall("get", <<a>>) : a \in Some}
          \cup Chosen(Connected({I, Unary("OP_POSTINC", J)}), Some, {I, Number(2)})
          \cup {Assignment("i", a) : a \in Some}
Values == Flat \cup Nested
NoTest(S) == {e \in S : ~IsComparison(e)}

\* An i32 goes into any variable, a char only into a char or an int.
Stores == {Assignment("i", e) : e \in NoTest(Values)}
          \cup {Assignment(n, e) : n \in {"c", "l"}, e \in NoTest(Some)}
          \cup {Assignment(n, e) : n \in DOMAIN MCType, e \in {Number(1), Character(2), C, L}}
Calls == {FunctionCall("put", <<a>>) : a \in Ints \cup NoTest(Some)}
         \cup {FunctionCall("far", <<a, b>>) : a \in {Number(3), L}, b \in Ints}
\* What is taken for what it is not, as an operand, a condition and a value.
Nots == {Unary("OP_NOT", e) : e \in {I, C} \cup Tests({I, C})}
Sizes == {SizeOf(e) : e \in {I, C}}
Kept == {Assignment("j", Number(1)), Assignment("c", I)}
Misread == Nots \cup Sizes \cup Kept \cup {C, L, Character(1)}
           \cup Chosen({I}, {C}, {C, L})
Misreading == Signed(Misread) \cup {Unary("OP_NOT", e) : e \in Misread}
              \cup Connected(Misread) \cup Mixed("OP_ADD", Misread \ Nots, {I})
              \cup Chosen(Misread, {I, Unary("OP_PREINC", J)}, {I})
              \cup Chosen({I}, Misread, {I})
              \cup {Assignment("i", e) : e \in Sizes \cup Kept}
              \cup {FunctionCall("get", <<e>>) : e \in Misread \ Nots}
Literals == {Number(0), Number(1), Character(2)}
Statements(expressions, initializers, conditions, returned) ==
    [expression |-> [value : expressions],
     declaration |-> [name : {"i", "c"}, value : initializers],
     condition |-> [value : conditions],
     return |-> [type : {"int", "char"}, value : returned]]
First == Statements(Stores \cup Calls \cup Misread \cup Misreading,
                    NoTest(Some) \cup Literals \cup Sizes \cup Kept \cup {C},
                    Values \cup Misread \cup {Number(0), Number(1), I},
                    NoTest(Some \cup Sums(Operands)) \cup Literals \cup {C})
Second == Statements(Stepped({I, C}), {C}, Tests({I}), {I})
MCSources == <<First, Second>>

\* The same with compound assignments.
MCCompound ==
    <<Statements({CompoundAssignment("i", op, a) : op \in {"OP_ADD", "OP_SUB"}, a \in Ints}
                 \cup Calls, Ints, Tests(Ints), Ints), Second>>

\* Every expression of a list of programs, with the parts of each.
ValuesOf(program) ==
    {st.value : st \in program.expression \cup program.declaration
                        \cup program.condition \cup program.return}
RECURSIVE Closed(_)
Closed(S) ==
    LET wider == S \cup UNION {PartsOf(e) : e \in S}
    IN  IF wider = S THEN S ELSE Closed(wider)
MCExpressions ==
    LET values == UNION {ValuesOf(MCSources[k]) : k \in DOMAIN MCSources} IN Closed(values)
CompoundExpressions ==
    LET values == UNION {ValuesOf(MCCompound[k]) : k \in DOMAIN MCCompound} IN Closed(values)

RECURSIVE HeightOf(_)
HeightOf(e) ==
    IF PartsOf(e) = {} THEN 0 ELSE 1 + Max({HeightOf(p) : p \in PartsOf(e)})
MCHeight == [e \in MCExpressions |-> HeightOf(e)]
CompoundHeight == [e \in CompoundExpressions |-> HeightOf(e)]

=============================================================================
