------------------------------- MODULE ExprGen -------------------------------
(***************************************************************************)
(* generate_expression of codegen.c on integer expressions, and the places *)
(* that use the int it returns, which is a constant, the number of a       *)
(* register or -1: only the kind of the AST node tells which.  Each step   *)
(* generates one statement of a function, executes the IR printed for it,  *)
(* and evaluates the same statement as C does.  Pointers, arrays, structs  *)
(* and floating types are left out, and casts, whose type name is freed by *)
(* the parser before anything reads it (parser.y:1227).                    *)
(***************************************************************************)
EXTENDS Integers, SequencesExt

CONSTANTS
    Type,        \* the C type of each variable
    Function,    \* of each declared function: its result and its parameters
    CharBits, IntBits, LongBits,
    Expressions, \* every expression of the programs
    Height,      \* how deep each is nested
    Sources,     \* the statements a program may contain, by position and kind
    Initial      \* values of the variables to begin with

VariableTypes == {"char", "int", "long"}
Names == DOMAIN Type
FunctionNames == DOMAIN Function

ASSUME WidthsAssumption ==
    /\ CharBits \in Nat /\ IntBits \in Nat /\ LongBits \in Nat
    /\ 1 < CharBits /\ CharBits < IntBits /\ IntBits < LongBits
ASSUME DeclarationsAssumption ==
    /\ Type \in [Names -> VariableTypes]
    /\ Function \in [FunctionNames ->
                        [result : VariableTypes \cup {"void"}, params : Seq(VariableTypes)]]

VARIABLES
    temp_counter, label_counter,    \* codegen_context_t
    done,       \* statements generated
    ended,      \* has the function returned?
    memory,     \* the variables, as the IR leaves them
    c_memory,   \* the variables, as C leaves them
    answer,     \* what the last statement told its surroundings, in both
    defined,    \* has C given every statement so far a meaning?
    understood, \* has every value so far been taken for what it is?
    faults,     \* instructions LLVM refuses
    clashes     \* of these, those that define what is defined, or miss their place

vars == <<temp_counter, label_counter, done, ended, memory, c_memory, answer,
          defined, understood, faults, clashes>>

-------------------------------------------------------------------------------
\* The nodes of the AST.

Number(v) == [kind |-> "AST_NUMBER", value |-> v]
Character(v) == [kind |-> "AST_CHARACTER", value |-> v]
Identifier(n) == [kind |-> "AST_IDENTIFIER", name |-> n]
Binary(op, l, r) == [kind |-> "AST_BINARY_OP", op |-> op, left |-> l, right |-> r]
Unary(op, e) == [kind |-> "AST_UNARY_OP", op |-> op, operand |-> e]
Conditional(c, t, f) ==
    [kind |-> "AST_CONDITIONAL", condition |-> c, true_expr |-> t, false_expr |-> f]
Assignment(n, e) == [kind |-> "AST_ASSIGNMENT", name |-> n, op |-> "OP_ASSIGN", value |-> e]
CompoundAssignment(n, op, e) ==
    [kind |-> "AST_ASSIGNMENT", name |-> n, op |-> op, value |-> e]
SizeOf(e) == [kind |-> "AST_SIZEOF", operand |-> e]
FunctionCall(f, args) == [kind |-> "AST_CALL", name |-> f, args |-> args]

Arithmetic == {"OP_ADD", "OP_SUB", "OP_MUL", "OP_DIV", "OP_MOD", "OP_BAND", "OP_BOR",
               "OP_BXOR", "OP_LSHIFT", "OP_RSHIFT"}
Comparisons == {"OP_EQ", "OP_NE", "OP_LT", "OP_LE", "OP_GT", "OP_GE"}
Logical == {"OP_LAND", "OP_LOR"}
Increments == {"OP_PREINC", "OP_POSTINC", "OP_PREDEC", "OP_POSTDEC"}
Signs == {"OP_NEG", "OP_NOT", "OP_BNOT"}

\* The expressions whose parts are in E.  traverse_call refuses any other number
\* of arguments.
Forms(E) ==
    [kind : {"AST_NUMBER", "AST_CHARACTER"}, value : Int]
    \cup [kind : {"AST_IDENTIFIER"}, name : Names]
    \cup [kind : {"AST_BINARY_OP"}, op : Arithmetic \cup Comparisons \cup Logical,
          left : E, right : E]
    \cup [kind : {"AST_UNARY_OP"}, op : Signs, operand : E]
    \cup [kind : {"AST_UNARY_OP"}, op : Increments,
          operand : {v \in E : v.kind = "AST_IDENTIFIER"}]
    \cup [kind : {"AST_CONDITIONAL"}, condition : E, true_expr : E, false_expr : E]
    \cup [kind : {"AST_ASSIGNMENT"}, name : Names, op : {"OP_ASSIGN"} \cup Arithmetic,
          value : E]
    \cup [kind : {"AST_SIZEOF"}, operand : E]
    \cup {e \in [kind : {"AST_CALL"}, name : FunctionNames, args : Seq(E)] :
            Len(e.args) = Len(Function[e.name].params)}
PartsOf(e) ==
    CASE e.kind = "AST_BINARY_OP" -> {e.left, e.right}
      [] e.kind \in {"AST_UNARY_OP", "AST_SIZEOF"} -> {e.operand}
      [] e.kind = "AST_CONDITIONAL" -> {e.condition, e.true_expr, e.false_expr}
      [] e.kind = "AST_ASSIGNMENT" -> {e.value}
      [] e.kind = "AST_CALL" -> ToSet(e.args)
      [] OTHER -> {}

\* The parser builds finite trees.
ASSUME ExpressionsAssumption == Expressions \subseteq Forms(Expressions)
ASSUME HeightAssumption ==
    /\ Height \in [Expressions -> Nat]
    /\ \A e \in Expressions : \A p \in PartsOf(e) : Height[p] < Height[e]
ASSUME SourcesAssumption ==
    Sources \in Seq([expression : SUBSET [value : Expressions],
                     declaration : SUBSET [name : Names, value : Expressions],
                     condition : SUBSET [value : Expressions],
                     return : SUBSET [type : VariableTypes, value : Expressions]])

IsNumber(e) == e.kind = "AST_NUMBER"
IsLiteral(e) == e.kind \in {"AST_NUMBER", "AST_CHARACTER"}
IsComparison(e) == e.kind = "AST_BINARY_OP" /\ e.op \in Comparisons

-------------------------------------------------------------------------------
\* Types.

LLVM == [void |-> "void", _Bool |-> "i1", char |-> "i8", int |-> "i32",
         size_t |-> "i32", long |-> "i64"]
Size == [void |-> 0, _Bool |-> 1, char |-> 1, int |-> 4, size_t |-> 4, long |-> 8]
Bits == [i1 |-> 1, i8 |-> CharBits, i32 |-> IntBits, i64 |-> LongBits]

\* size_t is no integer type here.
usual_arithmetic_conversions(a, b) ==
    IF "long" \in {a, b} /\ {a, b} \cap {"void", "size_t"} = {} THEN "long" ELSE "int"

\* of is the function itself.
TypeGiven(of, e) ==
    CASE e.kind = "AST_CHARACTER" -> "char"
      [] e.kind = "AST_IDENTIFIER" -> Type[e.name]
      [] IsComparison(e) -> "_Bool"
      [] e.kind = "AST_UNARY_OP" ->
            IF e.op = "OP_NOT" THEN "_Bool" ELSE of[e.operand]
      [] e.kind = "AST_CALL" -> Function[e.name].result
      [] e.kind = "AST_CONDITIONAL" ->
            IF of[e.true_expr] = of[e.false_expr] THEN of[e.true_expr] ELSE "int"
      [] e.kind = "AST_SIZEOF" -> "size_t"
      [] OTHER -> "int"
get_expression_type[e \in Expressions] == TypeGiven(get_expression_type, e)

-------------------------------------------------------------------------------
(***************************************************************************)
(* Printing.  A context s holds both counters, the code printed and, in    *)
(* ret, what the last call of generate_expression returned.  An operand is *)
(* a constant or a register, a place a variable or the slot %tN.addr.      *)
(***************************************************************************)

Const(v) == <<"const", v>>
Register(n) == <<"%t", n>>
Variable(n) == <<"variable", n>>
Slot(n) == <<"slot", n>>

ValueTypes == {"i1", "i8", "i32", "i64"}
IRTypes == ValueTypes \cup {"void"}
IROperands == ({"const"} \X Int) \cup ({"%t"} \X Int)
Places == ({"variable"} \X Names) \cup ({"slot"} \X Int)
Computations == {"add", "sub", "mul", "sdiv", "srem", "and", "or", "xor", "shl", "ashr"}
Predicates == {"eq", "ne", "slt", "sle", "sgt", "sge"}
Instructions ==
    [op : {"load"}, to : Int, type : ValueTypes, place : Places]
    \cup [op : {"store"}, type : ValueTypes, left : IROperands, place : Places]
    \cup [op : {"alloca"}, type : ValueTypes, place : Places]
    \cup [op : {"trunc", "sext", "zext"}, to : Int, type : IRTypes, left : {"%t"} \X Int,
          into : ValueTypes]
    \cup [op : Computations \cup Predicates, to : Int, type : ValueTypes, left : IROperands,
          right : IROperands]
    \cup [op : {"br"}, left : IROperands, yes : Int, no : Int]
    \cup [op : {"jump", "label"}, yes : Int]
    \cup [op : {"call"}, to : Int, type : IRTypes, name : FunctionNames,
          args : Seq(IRTypes \X IROperands)]
    \cup [op : {"ret"}, type : IRTypes, left : IROperands]
Contexts == [temp : Int, label : Int, code : Seq(Instructions), ret : Int]

\* What snprintf puts into an operand, given the node it came from.
LiteralOr(e, v) == IF IsLiteral(e) THEN Const(v) ELSE Register(v)
NumberOr(e, v) == IF IsNumber(e) THEN Const(v) ELSE Register(v)

\* A bug: the counter goes down.
get_next_temp_Down(s) == [s EXCEPT !.temp = @ - 1]
get_next_temp(s) == [s EXCEPT !.temp = @ + 1]
generate_label(s) == [s EXCEPT !.label = @ + 1]
Returning(s, v) == [s EXCEPT !.ret = v]
Emit(s, instruction) == [s EXCEPT !.code = Append(@, instruction)]

Load(to, type, place) == [op |-> "load", to |-> to, type |-> type, place |-> place]
Store(type, operand, place) ==
    [op |-> "store", type |-> type, left |-> operand, place |-> place]
Alloca(type, place) == [op |-> "alloca", type |-> type, place |-> place]
Convert(op, to, from, operand, into) ==
    [op |-> op, to |-> to, type |-> from, left |-> operand, into |-> into]
Compute(op, to, type, left, right) ==
    [op |-> op, to |-> to, type |-> type, left |-> left, right |-> right]
Branch(operand, yes, no) == [op |-> "br", left |-> operand, yes |-> yes, no |-> no]
Jump(l) == [op |-> "jump", yes |-> l]
Label(l) == [op |-> "label", yes |-> l]
Send(to, type, f, args) ==
    [op |-> "call", to |-> to, type |-> type, name |-> f, args |-> args]
Return(type, operand) == [op |-> "ret", type |-> type, left |-> operand]

\* Print an instruction that defines the next register, and return that.
Fresh(s) == s.temp + 1
Defining(s, instruction) == Returning(Emit(get_next_temp(s), instruction), Fresh(s))

cast_value(s, v, src, dest) ==
    LET op == IF Bits[LLVM[src]] > Bits[LLVM[dest]] THEN "trunc" ELSE "sext"
    IN  IF LLVM[src] = LLVM[dest] THEN Returning(s, v)
        ELSE Defining(s, Convert(op, Fresh(s), LLVM[src], Register(v), LLVM[dest]))

TestZero(s, operand) == Defining(s, Compute("ne", Fresh(s), "i32", operand, Const(0)))

\* A bug: a comparison, an i1 already, is compared with zero once more.
convert_to_boolean_Always(s, e) == TestZero(s, NumberOr(e, s.ret))
\* s has just generated e.
convert_to_boolean(s, e) ==
    IF IsComparison(e) THEN s ELSE TestZero(s, NumberOr(e, s.ret))

\* An operand of && or ||, which takes characters for constants as well.
LogicalOperand(s, e) ==
    IF IsComparison(e) THEN s ELSE TestZero(s, LiteralOr(e, s.ret))
BranchOn(s, yes, no) == Emit(s, Branch(Register(s.ret), yes, no))
Widened(s) == Defining(s, Convert("zext", Fresh(s), "i1", Register(s.ret), "i32"))

\* A bug: a true comparison counts as -1.
Promoted_Signed(s, e, v) ==
    IF IsLiteral(e) THEN Returning(s, v)
    ELSE cast_value(s, v, get_expression_type[e], "int")
\* An operand of arithmetic or of a comparison becomes an i32.
Promoted(s, e, v) ==
    IF IsComparison(e) THEN Widened(Returning(s, v))
    ELSE IF IsLiteral(e) THEN Returning(s, v)
    ELSE cast_value(s, v, get_expression_type[e], "int")

\* Convert the value of e, generated last, as an assignment, an initializer, a
\* branch of ?: and return do, and store it.
Converted(s, e, type) ==
    IF IsLiteral(e) THEN s ELSE cast_value(s, s.ret, get_expression_type[e], type)
Stored(s, e, type, place) ==
    LET c == Converted(s, e, type)
    IN  Emit(c, Store(LLVM[type], LiteralOr(e, c.ret), place))

Opcode == [OP_ADD |-> "add", OP_SUB |-> "sub", OP_MUL |-> "mul", OP_DIV |-> "sdiv",
           OP_MOD |-> "srem", OP_BAND |-> "and", OP_BOR |-> "or", OP_BXOR |-> "xor",
           OP_LSHIFT |-> "shl", OP_RSHIFT |-> "ashr"]
Predicate == [OP_EQ |-> "eq", OP_NE |-> "ne", OP_LT |-> "slt", OP_LE |-> "sle",
              OP_GT |-> "sgt", OP_GE |-> "sge"]

-------------------------------------------------------------------------------
\* generate_expression, a clause for each kind of node.  The clauses are given
\* what it is of the parts of the node.

GenerateLogical(s, e, of_left, of_right) ==
    LET left_label == s.label + 1
        right_label == s.label + 2
        end_label == s.label + 3
        result == Slot(Fresh(s))
        opened == Emit(get_next_temp(generate_label(generate_label(generate_label(s)))),
                       Alloca("i1", result))
        left_bool == LogicalOperand(of_left[opened], e.left)
        and == e.op = "OP_LAND"
        split == IF and THEN BranchOn(left_bool, right_label, left_label)
                        ELSE BranchOn(left_bool, left_label, right_label)
        short == Emit(Emit(Emit(split, Label(left_label)),
                           Store("i1", Const(IF and THEN 0 ELSE 1), result)),
                      Jump(end_label))
        right_bool == LogicalOperand(of_right[Emit(short, Label(right_label))], e.right)
        both == Emit(Emit(Emit(right_bool, Store("i1", Register(right_bool.ret), result)),
                          Jump(end_label)),
                     Label(end_label))
    IN  Widened(Defining(both, Load(Fresh(both), "i1", result)))

\* A bug: the operands are converted to registers of the number of the result.
GenerateBinary_TakesNoNumber(s, e, of_left, of_right) ==
    LET left == of_left[s]
        right == of_right[left]
        left_i32 == Promoted(right, e.left, left.ret)
        right_i32 == Promoted(left_i32, e.right, right.ret)
        op == IF IsComparison(e) THEN Predicate[e.op] ELSE Opcode[e.op]
    IN  Returning(Emit(right_i32, Compute(op, Fresh(right), "i32",
                                          LiteralOr(e.left, left_i32.ret),
                                          LiteralOr(e.right, right_i32.ret))),
                  Fresh(right))

GenerateBinary(s, e, of_left, of_right) ==
    LET left == of_left[s]
        right == of_right[left]
        temp == Fresh(right)
        left_i32 == Promoted(get_next_temp(right), e.left, left.ret)
        right_i32 == Promoted(left_i32, e.right, right.ret)
        op == IF IsComparison(e) THEN Predicate[e.op] ELSE Opcode[e.op]
    IN  Returning(Emit(right_i32, Compute(op, temp, "i32", LiteralOr(e.left, left_i32.ret),
                                          LiteralOr(e.right, right_i32.ret))),
                  temp)

GenerateUnary(s, e, of_operand) ==
    LET operand == of_operand[s]
        from == NumberOr(e.operand, operand.ret)
        to == Fresh(operand)
    IN  Defining(operand,
            CASE e.op = "OP_NEG" -> Compute("sub", to, "i32", Const(0), from)
              [] e.op = "OP_NOT" -> Compute("eq", to, "i32", from, Const(0))
              [] e.op = "OP_BNOT" -> Compute("xor", to, "i32", from, Const(-1)))

\* A bug: the store comes with the value before.
GenerateIncrement_StoresOld(s, e) ==
    LET n == e.operand.name
        type == LLVM[Type[n]]
        old == s.temp + 1
        new == s.temp + 2
        op == IF e.op \in {"OP_PREINC", "OP_POSTINC"} THEN "add" ELSE "sub"
        loaded == Emit(get_next_temp(get_next_temp(s)), Load(old, type, Variable(n)))
        added == Emit(loaded, Compute(op, new, type, Register(old), Const(1)))
    IN  Returning(Emit(added, Store(type, Register(old), Variable(n))),
                  IF e.op \in {"OP_PREINC", "OP_PREDEC"} THEN new ELSE old)

\* ++ and -- compute in the type of the variable.
GenerateIncrement(s, e) ==
    LET n == e.operand.name
        type == LLVM[Type[n]]
        old == s.temp + 1
        new == s.temp + 2
        op == IF e.op \in {"OP_PREINC", "OP_POSTINC"} THEN "add" ELSE "sub"
        loaded == Emit(get_next_temp(get_next_temp(s)), Load(old, type, Variable(n)))
        added == Emit(loaded, Compute(op, new, type, Register(old), Const(1)))
    IN  Returning(Emit(added, Store(type, Register(new), Variable(n))),
                  IF e.op \in {"OP_PREINC", "OP_PREDEC"} THEN new ELSE old)

\* The type of a ?: is that of traverse_conditional.
GenerateConditional(s, e, of_condition, of_true, of_false) ==
    LET true_label == s.label + 1
        false_label == s.label + 2
        end_label == s.label + 3
        result == Slot(Fresh(s))
        type == usual_arithmetic_conversions(get_expression_type[e.true_expr],
                                             get_expression_type[e.false_expr])
        opened == Emit(get_next_temp(generate_label(generate_label(generate_label(s)))),
                       Alloca(LLVM[type], result))
        condition == convert_to_boolean(of_condition[opened], e.condition)
        split == Emit(BranchOn(condition, true_label, false_label), Label(true_label))
        stored_yes == Stored(of_true[split], e.true_expr, type, result)
        other == Emit(Emit(stored_yes, Jump(end_label)), Label(false_label))
        stored_no == Stored(of_false[other], e.false_expr, type, result)
        end == Emit(Emit(stored_no, Jump(end_label)), Label(end_label))
    IN  Defining(end, Load(Fresh(end), LLVM[type], result))

\* A compound assignment to a name has the name in lvalue, not in name, and no
\* case of the code takes an lvalue that is an identifier: -1 is returned.
GenerateAssignment(s, e, of_value) ==
    IF e.op = "OP_ASSIGN"
    THEN Stored(of_value[s], e.value, Type[e.name], Variable(e.name))
    ELSE Returning(of_value[s], -1)

\* What n arguments do to s, one after the other.
InTurn(s, n, of_args) ==
    LET after[i \in 0 .. n] == IF i = 0 THEN s ELSE of_args[i][after[i - 1]] IN after
Widens(a, param) == LLVM[get_expression_type[a]] = "i32" /\ LLVM[param] = "i64"
\* a is passed; its value is v.
Passing(s, a, param, v) ==
    IF Widens(a, param) /\ ~IsLiteral(a)
    THEN Defining(s, Convert("zext", Fresh(s), "i32", Register(v), "i64"))
    ELSE Returning(s, v)
ArgumentsPassed(after, n, args, params) ==
    LET passed[i \in 0 .. n] ==
            IF i = 0 THEN after[n]
            ELSE Passing(passed[i - 1], args[i], params[i], after[i].ret)
    IN  passed
\* The arguments are all generated before any of them is widened to i64.
GenerateCall(s, e, of_args) ==
    LET n == Len(e.args)
        f == Function[e.name]
        after == InTurn(s, n, of_args)
        passed == ArgumentsPassed(after, n, e.args, f.params)
        type(i) == IF Widens(e.args[i], f.params[i]) THEN "i64"
                   ELSE LLVM[get_expression_type[e.args[i]]]
        args == [i \in 1 .. n |-> <<type(i), LiteralOr(e.args[i], passed[i].ret)>>]
    IN  IF f.result = "void"
        THEN Returning(Emit(passed[n], Send(0, "void", e.name, args)), -1)
        ELSE Defining(passed[n], Send(Fresh(passed[n]), LLVM[f.result], e.name, args))

\* of is the function itself, which the clauses take the parts from.
Generate(of, s, e) ==
    CASE IsLiteral(e) -> Returning(s, e.value)
      [] e.kind = "AST_IDENTIFIER" ->
            Defining(s, Load(Fresh(s), LLVM[Type[e.name]], Variable(e.name)))
      [] e.kind = "AST_BINARY_OP" /\ e.op \in Logical ->
            GenerateLogical(s, e, of[e.left], of[e.right])
      [] e.kind = "AST_BINARY_OP" /\ e.op \notin Logical ->
            GenerateBinary(s, e, of[e.left], of[e.right])
      [] e.kind = "AST_UNARY_OP" /\ e.op \in Increments -> GenerateIncrement(s, e)
      [] e.kind = "AST_UNARY_OP" /\ e.op \notin Increments ->
            GenerateUnary(s, e, of[e.operand])
      [] e.kind = "AST_CONDITIONAL" ->
            GenerateConditional(s, e, of[e.condition], of[e.true_expr], of[e.false_expr])
      [] e.kind = "AST_ASSIGNMENT" -> GenerateAssignment(s, e, of[e.value])
      [] e.kind = "AST_SIZEOF" -> Returning(s, Size[get_expression_type[e.operand]])
      [] e.kind = "AST_CALL" ->
            GenerateCall(s, e, [i \in DOMAIN e.args |-> of[e.args[i]]])
generate_expression[e \in Expressions] ==
    [s \in Contexts |-> Generate(generate_expression, s, e)]

-------------------------------------------------------------------------------
\* Numbers of a width.

TwoTo[n \in 0 .. LongBits] == IF n = 0 THEN 1 ELSE 2 * TwoTo[n - 1]
Wrapped(v, type) ==
    LET half == TwoTo[Bits[type] - 1] IN ((v + half) % (2 * half)) - half
Pattern(v, type) == v % TwoTo[Bits[type]]

Toward0(a, b) ==
    LET q == (IF a < 0 THEN -a ELSE a) \div (IF b < 0 THEN -b ELSE b)
    IN  IF (a < 0) = (b < 0) THEN q ELSE -q
Bool(b) == IF b THEN 1 ELSE 0

\* Bit by bit: what both bits are, from none to two ones, decides.
Bit(p, k) == (p \div TwoTo[k]) % 2
Bitwise(both, p, q) ==
    LET sum[k \in 0 .. LongBits] ==
            IF k = 0 THEN 0
            ELSE sum[k - 1] + both[Bit(p, k - 1) + Bit(q, k - 1)] * TwoTo[k - 1]
    IN  sum[LongBits]
And == [ones \in 0 .. 2 |-> IF ones = 2 THEN 1 ELSE 0]
Or == [ones \in 0 .. 2 |-> IF ones = 0 THEN 0 ELSE 1]
Xor == [ones \in 0 .. 2 |-> IF ones = 1 THEN 1 ELSE 0]

-------------------------------------------------------------------------------
(***************************************************************************)
(* What LLVM makes of the code.  Every instruction is checked, executed or *)
(* not, and after one that is refused none is executed.  Those between a   *)
(* branch and the label it goes to are not executed either.                *)
(***************************************************************************)

Computed(op, a, b, type) ==
    CASE op = "add" -> a + b
      [] op = "sub" -> a - b
      [] op = "mul" -> a * b
      [] op = "sdiv" -> IF b = 0 THEN 0 ELSE Toward0(a, b)
      [] op = "srem" -> IF b = 0 THEN 0 ELSE a - b * Toward0(a, b)
      [] op = "and" -> Bitwise(And, Pattern(a, type), Pattern(b, type))
      [] op = "or" -> Bitwise(Or, Pattern(a, type), Pattern(b, type))
      [] op = "xor" -> Bitwise(Xor, Pattern(a, type), Pattern(b, type))
      [] op = "shl" -> IF b \in 0 .. Bits[type] THEN a * TwoTo[b] ELSE 0
      [] op = "ashr" -> IF b \in 0 .. Bits[type] THEN a \div TwoTo[b] ELSE 0
      [] op = "eq" -> Bool(a = b)
      [] op = "ne" -> Bool(a # b)
      [] op = "slt" -> Bool(a < b)
      [] op = "sle" -> Bool(a <= b)
      [] op = "sgt" -> Bool(a > b)
      [] op = "sge" -> Bool(a >= b)

Uses(i) ==
    CASE i.op \in {"load", "alloca", "jump", "label"} -> {}
      [] i.op = "br" -> {<<"i1", i.left>>}
      [] i.op = "call" -> ToSet(i.args)
      [] i.op \in {"store", "trunc", "sext", "zext", "ret"} -> {<<i.type, i.left>>}
      [] i.op \in Computations \cup Predicates -> {<<i.type, i.left>>, <<i.type, i.right>>}
Defines(i) ==
    \/ i.op \in {"load", "trunc", "sext", "zext"} \cup Computations \cup Predicates
    \/ i.op = "call" /\ i.type # "void"
Result(i) ==
    CASE i.op \in {"trunc", "sext", "zext"} -> i.into
      [] i.op \in Predicates -> "i1"
      [] OTHER -> i.type
Given(f, k, v) == [x \in DOMAIN f \cup {k} |-> IF x = k THEN v ELSE f[x]]

\* A check x holds the types of the registers and places there are so far.  Of
\* the registers those up to temp_counter belong to earlier statements, and no
\* statement is to use the value of another.
Placed(x, i) ==
    /\ Defines(i) => i.to > temp_counter /\ i.to \notin DOMAIN x.types
    /\ i.op \in {"load", "store"} => i.place \in DOMAIN x.places /\ x.places[i.place] = i.type
    /\ i.op = "alloca" => i.place \notin DOMAIN x.places
Accepted(x, i) ==
    /\ Placed(x, i)
    /\ \A use \in Uses(i) :
         use[2][1] = "%t" => /\ use[2][2] \in DOMAIN x.types
                             /\ x.types[use[2][2]] = use[1]
    /\ i.op = "call" => [k \in DOMAIN i.args |-> i.args[k][1]]
                          = [k \in DOMAIN Function[i.name].params |->
                                LLVM[Function[i.name].params[k]]]
Checked(x, i) ==
    [types |-> IF Defines(i) THEN Given(x.types, i.to, Result(i)) ELSE x.types,
     places |-> IF i.op = "alloca" THEN Given(x.places, i.place, i.type) ELSE x.places,
     faults |-> IF Accepted(x, i) THEN x.faults ELSE x.faults \cup {i},
     clashes |-> IF Placed(x, i) THEN x.clashes ELSE x.clashes \cup {i}]

\* A machine m holds the values of registers and places, the label it goes to (or
\* 0), the calls made and the value returned.  What was never stored is 0.
RegisterOf(m, r) == IF r \in DOMAIN m.values THEN m.values[r] ELSE 0
HeldIn(m, p) == IF p \in DOMAIN m.memory THEN m.memory[p] ELSE 0
ValueOf(m, type, operand) ==
    IF operand[1] = "const" THEN Wrapped(operand[2], type) ELSE RegisterOf(m, operand[2])
Gives(m, i, v) == [m EXCEPT !.values = Given(@, i.to, Wrapped(v, Result(i)))]

\* What a function declared elsewhere returns, of the values it is given.
Answered(f, values) == IF values = <<>> THEN 0 ELSE values[1]
Sent(m, i) == [k \in DOMAIN i.args |-> ValueOf(m, i.args[k][1], i.args[k][2])]
Called(m, i) ==
    LET sending == Sent(m, i)
        called == [m EXCEPT !.sent = Append(@, <<i.name, sending>>)]
    IN  IF i.type = "void" THEN called ELSE Gives(called, i, Answered(i.name, sending))

Executed(m, i) ==
    CASE i.op = "load" -> Gives(m, i, HeldIn(m, i.place))
      [] i.op = "store" ->
            [m EXCEPT !.memory = Given(@, i.place, ValueOf(m, i.type, i.left))]
      [] i.op \in {"alloca", "label"} -> m
      [] i.op \in {"trunc", "sext"} -> Gives(m, i, ValueOf(m, i.type, i.left))
      [] i.op = "zext" -> Gives(m, i, Pattern(ValueOf(m, i.type, i.left), i.type))
      [] i.op = "br" -> [m EXCEPT !.skip = IF ValueOf(m, "i1", i.left) # 0
                                           THEN i.yes ELSE i.no]
      [] i.op = "jump" -> [m EXCEPT !.skip = i.yes]
      [] i.op = "ret" -> [m EXCEPT !.told = ValueOf(m, i.type, i.left)]
      [] i.op = "call" -> Called(m, i)
      [] i.op \in Computations \cup Predicates ->
            Gives(m, i, Computed(i.op, ValueOf(m, i.type, i.left),
                                 ValueOf(m, i.type, i.right), i.type))
Step(m, i) ==
    IF m.skip = 0 \/ (i.op = "label" /\ i.yes = m.skip)
    THEN Executed([m EXCEPT !.skip = 0], i) ELSE m

\* One instruction, and a whole text.
Run(x, i) ==
    LET checked == Checked(x.check, i)
    IN  [check |-> checked,
         machine |-> IF checked.faults = {} THEN Step(x.machine, i) ELSE x.machine]

Variables == {Variable(n) : n \in Names}
Start == [check |-> [types |-> <<>>,
                     places |-> [p \in Variables |-> LLVM[Type[p[2]]]],
                     faults |-> {}, clashes |-> {}],
          machine |-> [values |-> <<>>, memory |-> [p \in Variables |-> memory[p[2]]],
                       skip |-> 0, sent |-> <<>>, told |-> 0]]
Execution(code) ==
    LET x[k \in 0 .. Len(code)] == IF k = 0 THEN Start ELSE Run(x[k - 1], code[k])
    IN  x[Len(code)]

-------------------------------------------------------------------------------
\* The reference: the same expression as C evaluates it.  ok turns FALSE where C
\* leaves the outcome undefined, or to the order of evaluation.

Writes[e \in Expressions] ==
    CASE e.kind = "AST_ASSIGNMENT" -> {e.name} \cup Writes[e.value]
      [] e.kind = "AST_UNARY_OP" ->
            IF e.op \in Increments THEN {e.operand.name} ELSE Writes[e.operand]
      [] e.kind = "AST_BINARY_OP" -> Writes[e.left] \cup Writes[e.right]
      [] e.kind = "AST_CONDITIONAL" ->
            Writes[e.condition] \cup Writes[e.true_expr] \cup Writes[e.false_expr]
      [] e.kind = "AST_CALL" -> {"calls"} \cup UNION {Writes[a] : a \in ToSet(e.args)}
      [] OTHER -> {}
Touches[e \in Expressions] ==
    CASE e.kind = "AST_IDENTIFIER" -> {e.name}
      [] e.kind = "AST_ASSIGNMENT" -> {e.name} \cup Touches[e.value]
      [] e.kind = "AST_UNARY_OP" -> Touches[e.operand]
      [] e.kind = "AST_BINARY_OP" -> Touches[e.left] \cup Touches[e.right]
      [] e.kind = "AST_CONDITIONAL" ->
            Touches[e.condition] \cup Touches[e.true_expr] \cup Touches[e.false_expr]
      [] e.kind = "AST_CALL" -> {"calls"} \cup UNION {Touches[a] : a \in ToSet(e.args)}
      [] OTHER -> {}
Unsequenced(a, b) ==
    Writes[a] \cap Touches[b] = {} /\ Touches[a] \cap Writes[b] = {}

Promotion(type) == IF type = "long" THEN "long" ELSE "int"
Common(a, b) == IF "long" \in {a, b} THEN "long" ELSE "int"
Fits(v, type) == Wrapped(v, LLVM[type]) = v

\* A meaning c is the value and the type of the expression read last, the
\* variables and the calls made so far.
Meanings == [value : Int, type : VariableTypes, memory : [Names -> Int],
             sent : Seq(FunctionNames \X Seq(Int)), ok : BOOLEAN]

\* c with a value of a type, and with the stored value of variable n.
Having(c, v, type) ==
    [c EXCEPT !.value = v, !.type = type, !.ok = @ /\ Fits(v, type)]
Holding(c, n, v) ==
    LET w == Wrapped(v, LLVM[Type[n]])
    IN  [c EXCEPT !.memory[n] = w, !.value = w, !.type = Type[n]]
Provided(c, condition) == [c EXCEPT !.ok = @ /\ condition]

Operation(op, a, b, type) ==
    LET bits == Bits[LLVM[type]]
        p == Pattern(a, LLVM[type])
        q == Pattern(b, LLVM[type])
        outside == TwoTo[bits]
    IN  CASE op = "OP_ADD" -> a + b
          [] op = "OP_SUB" -> a - b
          [] op = "OP_MUL" -> a * b
          [] op = "OP_DIV" -> IF b = 0 THEN outside ELSE Toward0(a, b)
          [] op = "OP_MOD" -> IF b = 0 THEN outside ELSE a - b * Toward0(a, b)
          [] op = "OP_BAND" -> Wrapped(Bitwise(And, p, q), LLVM[type])
          [] op = "OP_BOR" -> Wrapped(Bitwise(Or, p, q), LLVM[type])
          [] op = "OP_BXOR" -> Wrapped(Bitwise(Xor, p, q), LLVM[type])
          [] op = "OP_LSHIFT" ->
                IF a < 0 \/ b \notin 0 .. (bits - 1) THEN outside ELSE a * TwoTo[b]
          [] op = "OP_RSHIFT" -> IF b \notin 0 .. (bits - 1) THEN outside ELSE a \div TwoTo[b]
          [] op = "OP_EQ" -> Bool(a = b)
          [] op = "OP_NE" -> Bool(a # b)
          [] op = "OP_LT" -> Bool(a < b)
          [] op = "OP_LE" -> Bool(a <= b)
          [] op = "OP_GT" -> Bool(a > b)
          [] op = "OP_GE" -> Bool(a >= b)

EvaluateLogical(c, e, of_left, of_right) ==
    LET left == of_left[c]
        right == of_right[left]
    IN  IF (left.value # 0) = (e.op = "OP_LAND")
        THEN Having(right, Bool(right.value # 0), "int")
        ELSE Having(left, Bool(left.value # 0), "int")
EvaluateBinary(c, e, of_left, of_right) ==
    LET left == of_left[c]
        right == of_right[left]
        type == Common(left.type, right.type)
    IN  Having(Provided(right, Unsequenced(e.left, e.right)),
               Operation(e.op, left.value, right.value, type),
               IF IsComparison(e) THEN "int" ELSE type)
EvaluateIncrement(c, e) ==
    LET n == e.operand.name
        new == c.memory[n] + (IF e.op \in {"OP_PREINC", "OP_POSTINC"} THEN 1 ELSE -1)
        after == Holding(Provided(c, Fits(new, Promotion(Type[n]))), n, new)
    IN  IF e.op \in {"OP_PREINC", "OP_PREDEC"} THEN after
        ELSE Having(after, c.memory[n], Type[n])
EvaluateUnary(c, e, of_operand) ==
    LET operand == of_operand[c]
        type == Promotion(operand.type)
    IN  CASE e.op = "OP_NOT" -> Having(operand, Bool(operand.value = 0), "int")
          [] e.op = "OP_NEG" -> Having(operand, -operand.value, type)
          [] e.op = "OP_BNOT" -> Having(operand, -operand.value - 1, type)
EvaluateConditional(c, of_condition, of_true, of_false) ==
    LET condition == of_condition[c]
        yes == of_true[condition]
        no == of_false[condition]
        chosen == IF condition.value # 0 THEN yes ELSE no
    IN  Having(chosen, chosen.value, Common(yes.type, no.type))
EvaluateAssignment(c, e, of_value) ==
    LET value == Provided(of_value[c], e.name \notin Writes[e.value])
        type == Common(Type[e.name], value.type)
        new == Operation(e.op, value.memory[e.name], value.value, type)
    IN  IF e.op = "OP_ASSIGN" THEN Holding(value, e.name, value.value)
        ELSE Holding(Having(value, new, type), e.name, new)
EvaluateCall(c, e, of_args) ==
    LET n == Len(e.args)
        f == Function[e.name]
        after == InTurn(c, n, of_args)
        passed == [i \in 1 .. n |-> Wrapped(after[i].value, LLVM[f.params[i]])]
        apart == \A i, j \in 1 .. n : i # j => Unsequenced(e.args[i], e.args[j])
        called == [Provided(after[n], apart) EXCEPT !.sent = Append(@, <<e.name, passed>>)]
    IN  IF f.result = "void" THEN called
        ELSE Having(called, Wrapped(Answered(e.name, passed), LLVM[f.result]), f.result)

Evaluate(of, c, e) ==
    CASE IsLiteral(e) -> Having(c, e.value, "int")
      [] e.kind = "AST_IDENTIFIER" -> Having(c, c.memory[e.name], Type[e.name])
      [] e.kind = "AST_BINARY_OP" /\ e.op \in Logical ->
            EvaluateLogical(c, e, of[e.left], of[e.right])
      [] e.kind = "AST_BINARY_OP" /\ e.op \notin Logical ->
            EvaluateBinary(c, e, of[e.left], of[e.right])
      [] e.kind = "AST_UNARY_OP" /\ e.op \in Increments -> EvaluateIncrement(c, e)
      [] e.kind = "AST_UNARY_OP" /\ e.op \notin Increments ->
            EvaluateUnary(c, e, of[e.operand])
      [] e.kind = "AST_CONDITIONAL" ->
            EvaluateConditional(c, of[e.condition], of[e.true_expr], of[e.false_expr])
      [] e.kind = "AST_ASSIGNMENT" -> EvaluateAssignment(c, e, of[e.value])
      [] e.kind = "AST_SIZEOF" ->
            Having(c, Size[get_expression_type[e.operand]], "int")
      [] e.kind = "AST_CALL" ->
            EvaluateCall(c, e, [i \in DOMAIN e.args |-> of[e.args[i]]])
Evaluated[e \in Expressions] == [c \in Meanings |-> Evaluate(Evaluated, c, e)]

InC(e) == Evaluated[e][[value |-> 0, type |-> "int", memory |-> c_memory,
                        sent |-> <<>>, ok |-> TRUE]]

-------------------------------------------------------------------------------
\* Whoever takes a value guesses from the kind of the node whether it is a
\* constant or a register, and of which IR type.  Taken for what they are not, each
\* accepted by the parser and by both walks, are
\*   - !e as a condition or an operand of && || - ~ !: its i1 passes for an i32;
\*   - a char or a long there, whose i8 or i64 passes for an i32, and a character
\*     constant there, except for && and ||, which passes for a register;
\*   - the value of sizeof e, of x = e for a literal e, of x += e and of a call that
\*     returns void: the int returned passes for a register;
\*   - the value of x = e for x a char or a long, and of a ?: of two chars, of two
\*     comparisons or of a long and another type, where these are converted: the
\*     type recorded of them is not that of the register;
\*   - an argument of another type than the parameter, except an int for a long.

\* The IR type of the register that holds the value of e, if a register does.
HeldAs(e) ==
    CASE e.kind = "AST_IDENTIFIER" -> LLVM[Type[e.name]]
      [] e.kind = "AST_BINARY_OP" -> IF IsComparison(e) THEN "i1" ELSE "i32"
      [] e.kind = "AST_UNARY_OP" ->
            IF e.op \in Increments THEN LLVM[Type[e.operand.name]]
            ELSE IF e.op = "OP_NOT" THEN "i1" ELSE "i32"
      [] e.kind = "AST_CONDITIONAL" ->
            LLVM[usual_arithmetic_conversions(get_expression_type[e.true_expr],
                                              get_expression_type[e.false_expr])]
      [] e.kind = "AST_ASSIGNMENT" ->
            IF e.op = "OP_ASSIGN" /\ ~IsLiteral(e.value) THEN LLVM[Type[e.name]] ELSE "none"
      [] e.kind = "AST_CALL" ->
            IF Function[e.name].result = "void" THEN "none" ELSE LLVM[Function[e.name].result]
      [] OTHER -> "none"

\* What is converted, what is tested, and the operands of ! - ~ and of && ||.
Converts(e) == IsLiteral(e) \/ HeldAs(e) = LLVM[get_expression_type[e]]
Tests0(e) == IsComparison(e) \/ IsNumber(e) \/ HeldAs(e) = "i32"
Signed0(e) == IsNumber(e) \/ HeldAs(e) = "i32"
Connects(e) == IsComparison(e) \/ IsLiteral(e) \/ HeldAs(e) = "i32"
\* An argument a of parameter type p.
Passes(a, p) ==
    /\ Converts(a)
    /\ \/ LLVM[get_expression_type[a]] = LLVM[p]
       \/ Widens(a, p)

GuessedRight(e) ==
    /\ e.kind = "AST_BINARY_OP" =>
         \A a \in {e.left, e.right} : IF e.op \in Logical THEN Connects(a) ELSE Converts(a)
    /\ e.kind = "AST_UNARY_OP" /\ e.op \notin Increments => Signed0(e.operand)
    /\ e.kind = "AST_CONDITIONAL" =>
         Tests0(e.condition) /\ Converts(e.true_expr) /\ Converts(e.false_expr)
    /\ e.kind = "AST_ASSIGNMENT" /\ e.op = "OP_ASSIGN" => Converts(e.value)
    /\ e.kind = "AST_CALL" =>
         \A i \in DOMAIN e.args : Passes(e.args[i], Function[e.name].params[i])
\* e and all of its parts.
Understood[e \in Expressions] ==
    GuessedRight(e) /\ \A p \in PartsOf(e) : Understood[p]
GuessesAreRight ==
    /\ \A e \in Expressions : GuessedRight(e)
    /\ \A k \in DOMAIN Sources :
         /\ \A st \in Sources[k].declaration : Converts(st.value)
         /\ \A st \in Sources[k].condition : Tests0(st.value)
         /\ \A st \in Sources[k].return : Converts(st.value)

\* Programs in which the conversions that are printed are those of C: a truth value
\* is extended with zeros, nothing long is cut to be computed with or chosen, no
\* register is widened to be passed, and no assignment computes.
ConvertedRight(e) ==
    /\ e.kind = "AST_BINARY_OP" /\ e.op \notin Logical =>
         \A a \in {e.left, e.right} : IsComparison(a) \/ HeldAs(a) \notin {"i1", "i64"}
    /\ e.kind = "AST_CONDITIONAL" =>
         \A a \in {e.true_expr, e.false_expr} :
            HeldAs(a) # "i1" /\ (HeldAs(a) = "i64" => HeldAs(e) = "i64")
    /\ e.kind = "AST_ASSIGNMENT" => e.op = "OP_ASSIGN" /\ HeldAs(e.value) # "i1"
    /\ e.kind = "AST_CALL" =>
         \A i \in DOMAIN e.args :
            Widens(e.args[i], Function[e.name].params[i]) => IsLiteral(e.args[i])
ConversionsAreRight ==
    /\ \A e \in Expressions : ConvertedRight(e)
    /\ \A k \in DOMAIN Sources :
         \A st \in Sources[k].declaration \cup Sources[k].return : HeldAs(st.value) # "i1"

-------------------------------------------------------------------------------
\* The statements that hold expressions.

Context == [temp |-> temp_counter, label |-> label_counter, code |-> <<>>, ret |-> 0]

\* The statement whose code is in s has been generated; x is what the code does,
\* c what C makes of the statement.  Their value is in told and said.
Generated(s, x, c, told, said) ==
    /\ temp_counter' = s.temp
    /\ label_counter' = s.label
    /\ done' = done + 1
    /\ faults' = faults \cup x.check.faults
    /\ clashes' = clashes \cup x.check.clashes
    /\ memory' = [n \in Names |-> x.machine.memory[Variable(n)]]
    /\ c_memory' = c.memory
    /\ defined' = (defined /\ c.ok)
    /\ answer' = [ir |-> <<x.machine.sent, told>>, c |-> <<c.sent, said>>]

\* An expression statement, whose value nobody takes.
ExpressionStatement ==
    \E st \in Sources[done + 1].expression :
        LET s == generate_expression[st.value][Context]
        IN  /\ Generated(s, Execution(s.code), InC(st.value), 0, 0)
            /\ understood' = (understood /\ Understood[st.value])
            /\ UNCHANGED ended

\* The initializer of a local variable.  Every variable is there from the
\* beginning, so its add_symbol and its alloca are left out.
Declaration ==
    \E st \in Sources[done + 1].declaration :
        LET s == Stored(generate_expression[st.value][Context], st.value,
                        Type[st.name], Variable(st.name))
            c == InC(st.value)
        IN  /\ Generated(s, Execution(s.code), Holding(c, st.name, c.value), 0, 0)
            /\ understood' = (understood /\ Understood[st.value] /\ Converts(st.value))
            /\ UNCHANGED ended

\* The condition of an if, a loop or a ?:, which go one of two ways.
Condition ==
    \E st \in Sources[done + 1].condition :
        LET yes == label_counter + 1
            no == label_counter + 2
            e == generate_expression[st.value][generate_label(generate_label(Context))]
            s == BranchOn(convert_to_boolean(e, st.value), yes, no)
            x == Execution(s.code)
            c == InC(st.value)
        IN  /\ Generated(s, x, c, x.machine.skip, IF c.value # 0 THEN yes ELSE no)
            /\ understood' = (understood /\ Understood[st.value] /\ Tests0(st.value))
            /\ UNCHANGED ended

\* return e in a function of type st.type.
ReturnStatement ==
    \E st \in Sources[done + 1].return :
        LET v == Converted(generate_expression[st.value][Context], st.value, st.type)
            s == Emit(v, Return(LLVM[st.type], LiteralOr(st.value, v.ret)))
            x == Execution(s.code)
            c == InC(st.value)
        IN  /\ Generated(s, x, c, x.machine.told, Wrapped(c.value, LLVM[st.type]))
            /\ understood' = (understood /\ Understood[st.value] /\ Converts(st.value))
            /\ ended' = TRUE

\* The variables have values of their types.
IsMemory(m) == m \in [Names -> Int] /\ \A n \in Names : Fits(m[n], Type[n])
ASSUME InitialAssumption == \A m \in Initial : IsMemory(m)

Init ==
    /\ temp_counter = 0
    /\ label_counter = 0
    /\ done = 0
    /\ ended = FALSE
    /\ memory \in Initial
    /\ c_memory = memory
    /\ answer = [ir |-> <<>>, c |-> <<>>]
    /\ defined = TRUE
    /\ understood = TRUE
    /\ faults = {}
    /\ clashes = {}

Next ==
    /\ ~ended
    /\ defined
    /\ done < Len(Sources)
    /\ \/ ExpressionStatement
       \/ Declaration
       \/ Condition
       \/ ReturnStatement

Spec == Init /\ [][Next]_vars

-------------------------------------------------------------------------------
\* Properties.

\* The counters of codegen_context_t only count up from nothing, and the
\* variables hold values of their types.
TypeOK ==
    /\ temp_counter \in Nat /\ label_counter \in Nat
    /\ done \in 0 .. Len(Sources)
    /\ ended \in BOOLEAN /\ defined \in BOOLEAN /\ understood \in BOOLEAN
    /\ IsMemory(memory) /\ IsMemory(c_memory)

\* Whatever the program, no instruction defines a register or a slot a second
\* time, or loads or stores what is not there or is of another type: the number of
\* a result is taken before the operands are converted, and that of the slot of a
\* && || or ?: before the parts are generated, which take numbers and slots too.
DefinitionsAreSound == clashes = {}

\* As long as every value has been taken for what it is, LLVM refuses nothing: every
\* operand is a register defined before with the type it is used at, and every call
\* has the types of its function.  generate_expression returns an int and leaves it
\* to its callers to tell, by the kind of the node, a constant from a register and an
\* i1 from an i32.  What they misread, and understood excludes, is listed above.
RegistersAreSound == understood => faults = {}

\* The code leaves every variable as C does: && || and ?: evaluate what they
\* must and no more, ++ and -- give the value before or after, and what is
\* stored has been converted to the type of the variable.
EffectsAgree == defined /\ faults = {} => memory = c_memory

\* Conditions go the way C goes, return gives the value C gives, and functions
\* are called in the order and with the arguments C passes.
AnswersAgree == defined /\ faults = {} => answer.ir = answer.c
==============================================================================
