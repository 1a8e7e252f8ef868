---------------------------- MODULE ExprGenProofs ----------------------------
(***************************************************************************)
(* Proofs about ExprGen, for every expression the parser can build.        *)
(***************************************************************************)
EXTENDS ExprGenRelations, Recurrences, FiniteSetTheorems

-------------------------------------------------------------------------------
\* Expressions and their parts.

\* What the fields of an expression are, by its kind.
LEMMA Kinds ==
    ASSUME NEW e \in Expressions
    PROVE  e.kind \in {"AST_NUMBER", "AST_CHARACTER", "AST_IDENTIFIER", "AST_BINARY_OP",
                       "AST_UNARY_OP", "AST_CONDITIONAL", "AST_ASSIGNMENT", "AST_SIZEOF",
                       "AST_CALL"}
  BY ExpressionsAssumption DEF Forms

LEMMA LeafFields ==
    ASSUME NEW e \in Expressions
    PROVE  /\ IsLiteral(e) => e.value \in Int
           /\ e.kind = "AST_IDENTIFIER" => e.name \in Names
  BY ExpressionsAssumption DEF Forms, IsLiteral

LEMMA BinaryFields ==
    ASSUME NEW e \in Expressions, e.kind = "AST_BINARY_OP"
    PROVE  /\ e.op \in Arithmetic \cup Comparisons \cup Logical
           /\ e.left \in Expressions /\ e.right \in Expressions
  BY ExpressionsAssumption DEF Forms

LEMMA UnaryFields ==
    ASSUME NEW e \in Expressions, e.kind = "AST_UNARY_OP"
    PROVE  /\ e.op \in Signs \cup Increments
           /\ e.operand \in Expressions
           /\ e.op \in Increments => e.operand.kind = "AST_IDENTIFIER"
  BY ExpressionsAssumption DEF Forms, Signs, Increments

LEMMA OtherFields ==
    ASSUME NEW e \in Expressions
    PROVE  /\ e.kind = "AST_CONDITIONAL" =>
                /\ e.condition \in Expressions
                /\ e.true_expr \in Expressions /\ e.false_expr \in Expressions
           /\ e.kind = "AST_ASSIGNMENT" =>
                /\ e.name \in Names /\ e.value \in Expressions
                /\ e.op \in {"OP_ASSIGN"} \cup Arithmetic
           /\ e.kind = "AST_SIZEOF" => e.operand \in Expressions
  BY ExpressionsAssumption DEF Forms

LEMMA CallFields ==
    ASSUME NEW e \in Expressions, e.kind = "AST_CALL"
    PROVE  /\ e.name \in FunctionNames /\ e.args \in Seq(Expressions)
           /\ Len(e.args) = Len(Function[e.name].params)
  BY ExpressionsAssumption DEF Forms

\* A part is an expression, and less high.
LEMMA PartsAreLower ==
    ASSUME NEW e \in Expressions, NEW p \in PartsOf(e)
    PROVE  p \in Expressions /\ Height[p] < Height[e]
<1>1. p \in Expressions
  <2>1. CASE e.kind = "AST_CALL"
    BY <2>1, CallFields DEF PartsOf, ToSet
  <2>2. CASE e.kind # "AST_CALL"
    BY <2>2, Kinds, BinaryFields, UnaryFields, OtherFields DEF PartsOf
  <2> QED
    BY <2>1, <2>2
<1> QED
  BY <1>1, HeightAssumption

\* What looks at the parts of an expression defines a function by recursion.
LooksAtParts(R, G) ==
    \A e \in Expressions : \A f, g \in [Expressions -> R] :
       (\A p \in PartsOf(e) : f[p] = g[p]) => G[<<e, f>>] = G[<<e, g>>]
LEMMA PartsRecursion ==
    ASSUME NEW R, R # {}, NEW G \in [Expressions \X [Expressions -> R] -> R],
           LooksAtParts(R, G)
    PROVE  \E f \in [Expressions -> R] : Recurs(f, Expressions, G)
<1>1. RestsOnParts(Expressions, Height, R, G)
  BY PartsAreLower DEF RestsOnParts, LooksAtParts
<1> QED
  BY <1>1, HeightAssumption, HeightRecursion

LEMMA BinaryParts ==
    ASSUME NEW e, e.kind = "AST_BINARY_OP"
    PROVE  PartsOf(e) = {e.left, e.right}
  BY DEF PartsOf
LEMMA UnaryParts ==
    ASSUME NEW e, e.kind \in {"AST_UNARY_OP", "AST_SIZEOF"}
    PROVE  PartsOf(e) = {e.operand}
  BY DEF PartsOf
LEMMA ConditionalParts ==
    ASSUME NEW e, e.kind = "AST_CONDITIONAL"
    PROVE  PartsOf(e) = {e.condition, e.true_expr, e.false_expr}
  BY DEF PartsOf
LEMMA AssignmentParts ==
    ASSUME NEW e, e.kind = "AST_ASSIGNMENT"
    PROVE  PartsOf(e) = {e.value}
  BY DEF PartsOf
LEMMA CallParts ==
    ASSUME NEW e \in Expressions, e.kind = "AST_CALL"
    PROVE  /\ PartsOf(e) = ToSet(e.args)
           /\ DOMAIN e.args = 1 .. Len(e.args)
           /\ \A i \in DOMAIN e.args : e.args[i] \in PartsOf(e)
<1>1. PartsOf(e) = ToSet(e.args)
  BY DEF PartsOf
<1>2. e.args \in Seq(Expressions)
  BY CallFields
<1>3. \A i \in DOMAIN e.args : e.args[i] \in ToSet(e.args)
  BY DEF ToSet
<1> QED
  BY <1>1, <1>2, <1>3

-------------------------------------------------------------------------------
\* get_expression_type.

LEMMA DeclaredTypes ==
    /\ \A n \in Names : Type[n] \in VariableTypes
    /\ \A f \in FunctionNames : /\ Function[f].result \in VariableTypes \cup {"void"}
                                /\ Function[f].params \in Seq(VariableTypes)
  BY DeclarationsAssumption

\* The clause of an expression only looks at its parts,
LEMMA TypeGivenByParts ==
    ASSUME NEW e \in Expressions, NEW f, NEW g, \A p \in PartsOf(e) : f[p] = g[p]
    PROVE  TypeGiven(f, e) = TypeGiven(g, e)
<1>1. CASE e.kind = "AST_UNARY_OP"
  BY <1>1, UnaryParts DEF TypeGiven, IsComparison
<1>2. CASE e.kind = "AST_CONDITIONAL"
  BY <1>2, ConditionalParts DEF TypeGiven, IsComparison
<1>3. CASE e.kind \notin {"AST_UNARY_OP", "AST_CONDITIONAL"}
  BY <1>3 DEF TypeGiven
<1> QED
  BY <1>1, <1>2, <1>3

\* and gives a type.
LEMMA TypeGivenIsType ==
    ASSUME NEW e \in Expressions, NEW f, \A p \in PartsOf(e) : f[p] \in CTypes
    PROVE  TypeGiven(f, e) \in CTypes
<1>1. CASE e.kind = "AST_UNARY_OP"
  BY <1>1, UnaryParts DEF TypeGiven, IsComparison, CTypes, VariableTypes
<1>2. CASE e.kind = "AST_CONDITIONAL"
  BY <1>2, ConditionalParts DEF TypeGiven, IsComparison, CTypes, VariableTypes
<1>3. CASE e.kind \in {"AST_IDENTIFIER", "AST_CALL"}
  BY <1>3, LeafFields, CallFields, DeclaredTypes
     DEF TypeGiven, IsComparison, CTypes
<1>4. CASE e.kind \in {"AST_NUMBER", "AST_CHARACTER", "AST_BINARY_OP", "AST_ASSIGNMENT",
                       "AST_SIZEOF"}
  BY <1>4 DEF TypeGiven, CTypes, VariableTypes
<1> QED
  BY <1>1, <1>2, <1>3, <1>4, Kinds

LEMMA SomeExpressionTypes ==
    \E f \in [Expressions -> CTypes] : f = [e \in Expressions |-> TypeGiven(f, e)]
<1> DEFINE R == [Expressions -> CTypes]
           G == [x \in Expressions \X R |-> TypeGiven(x[2], x[1])]
<1>1. ASSUME NEW e \in Expressions, NEW f \in R
      PROVE  TypeGiven(f, e) \in CTypes
  BY PartsAreLower, TypeGivenIsType
<1>2. G \in [Expressions \X R -> CTypes]
  BY <1>1
<1>3. \A e \in Expressions : \A f \in R : G[<<e, f>>] = TypeGiven(f, e)
  OBVIOUS
<1> HIDE DEF G
<1>4. ASSUME NEW e \in Expressions, NEW f \in R, NEW g \in R, \A p \in PartsOf(e) : f[p] = g[p]
      PROVE  G[<<e, f>>] = G[<<e, g>>]
  <2>1. TypeGiven(f, e) = TypeGiven(g, e)
    BY <1>4, TypeGivenByParts
  <2> QED
    BY <1>3, <2>1
<1>5. LooksAtParts(CTypes, G) /\ CTypes # {}
  BY <1>4 DEF LooksAtParts, CTypes
<1> HIDE DEF CTypes
<1>6. PICK f \in R : Recurs(f, Expressions, G)
  BY <1>2, <1>5, PartsRecursion
<1>7. f = [e \in Expressions |-> TypeGiven(f, e)]
  BY <1>3, <1>6 DEF Recurs
<1> QED
  BY <1>6, <1>7

LEMMA ExpressionTypeUnfolds ==
    \A e \in Expressions : get_expression_type[e] = TypeGiven(get_expression_type, e)
<1> DEFINE P(f) == f = [e \in Expressions |-> TypeGiven(f, e)]
<1>1. \E f : P(f)
  BY SomeExpressionTypes
<1>2. get_expression_type = CHOOSE f : P(f)
  BY Zenon DEF get_expression_type
<1> HIDE DEF P
<1>3. P(get_expression_type)
  BY <1>1, <1>2, Zenon
<1> QED
  BY <1>3 DEF P

LEMMA ExpressionTypes ==
    \A e \in Expressions : get_expression_type[e] \in CTypes
<1> DEFINE T == {e \in Expressions : get_expression_type[e] \in CTypes}
<1>1. ASSUME NEW e \in Expressions, \A p \in Expressions : Height[p] < Height[e] => p \in T
      PROVE  e \in T
  <2>1. \A p \in PartsOf(e) : get_expression_type[p] \in CTypes
    BY <1>1, PartsAreLower
  <2> QED
    BY <2>1, TypeGivenIsType, ExpressionTypeUnfolds
<1> HIDE DEF T
<1>2. Expressions \subseteq T
  BY <1>1, HeightAssumption, HeightInduction
<1> QED
  BY <1>2 DEF T

-------------------------------------------------------------------------------
\* Printing.

LEMMA OperandsAreIROperands ==
    \A v \in Int : Const(v) \in IROperands /\ Register(v) \in IROperands
  BY DEF Const, Register, IROperands
LEMMA PlacesArePlaces ==
    /\ \A n \in Names : Variable(n) \in Places
    /\ \A v \in Int : Slot(v) \in Places
  BY DEF Variable, Slot, Places

LEMMA LLVMTypes ==
    \A type \in CTypes : /\ type \in DOMAIN LLVM /\ LLVM[type] \in IRTypes
                         /\ type # "void" => LLVM[type] \in ValueTypes
  BY DEF CTypes, VariableTypes, LLVM, IRTypes, ValueTypes

LEMMA LoadIsInstruction ==
    ASSUME NEW to \in Int, NEW type \in ValueTypes, NEW place \in Places
    PROVE  Load(to, type, place) \in Instructions
  BY DEF Load, Instructions
LEMMA StoreIsInstruction ==
    ASSUME NEW type \in ValueTypes, NEW operand \in IROperands, NEW place \in Places
    PROVE  Store(type, operand, place) \in Instructions
  BY DEF Store, Instructions
LEMMA AllocaIsInstruction ==
    ASSUME NEW type \in ValueTypes, NEW place \in Places
    PROVE  Alloca(type, place) \in Instructions
  BY DEF Alloca, Instructions
LEMMA ConvertIsInstruction ==
    ASSUME NEW op \in {"trunc", "sext", "zext"}, NEW to \in Int, NEW from \in IRTypes,
           NEW v \in Int, NEW into \in ValueTypes
    PROVE  Convert(op, to, from, Register(v), into) \in Instructions
  BY DEF Convert, Register, Instructions
LEMMA ComputeIsInstruction ==
    ASSUME NEW op \in Computations \cup Predicates, NEW to \in Int, NEW type \in ValueTypes,
           NEW left \in IROperands, NEW right \in IROperands
    PROVE  Compute(op, to, type, left, right) \in Instructions
  BY DEF Compute, Instructions
LEMMA BranchIsInstruction ==
    ASSUME NEW operand \in IROperands, NEW yes \in Int, NEW no \in Int
    PROVE  Branch(operand, yes, no) \in Instructions
  BY DEF Branch, Instructions
LEMMA LabelsAreInstructions ==
    ASSUME NEW l \in Int
    PROVE  Jump(l) \in Instructions /\ Label(l) \in Instructions
  BY DEF Jump, Label, Instructions
LEMMA SendIsInstruction ==
    ASSUME NEW to \in Int, NEW type \in IRTypes, NEW f \in FunctionNames,
           NEW args \in Seq(IRTypes \X IROperands)
    PROVE  Send(to, type, f, args) \in Instructions
  BY DEF Send, Instructions
LEMMA ReturnIsInstruction ==
    ASSUME NEW type \in IRTypes, NEW operand \in IROperands
    PROVE  Return(type, operand) \in Instructions
  BY DEF Return, Instructions

\* What printing does to a context.
LEMMA EmitContext ==
    ASSUME NEW s \in Contexts, NEW i \in Instructions
    PROVE  /\ Emit(s, i) \in Contexts
           /\ Emit(s, i).temp = s.temp /\ Emit(s, i).label = s.label
           /\ Emit(s, i).ret = s.ret /\ Emit(s, i).code = Append(s.code, i)
  BY DEF Emit, Contexts
LEMMA CountContext ==
    ASSUME NEW s \in Contexts
    PROVE  /\ get_next_temp(s) \in Contexts
           /\ get_next_temp(s).temp = s.temp + 1 /\ get_next_temp(s).label = s.label
           /\ get_next_temp(s).ret = s.ret /\ get_next_temp(s).code = s.code
           /\ generate_label(s) \in Contexts
           /\ generate_label(s).temp = s.temp /\ generate_label(s).label = s.label + 1
           /\ generate_label(s).ret = s.ret /\ generate_label(s).code = s.code
  BY DEF get_next_temp, generate_label, Contexts
LEMMA ReturningContext ==
    ASSUME NEW s \in Contexts, NEW v \in Int
    PROVE  /\ Returning(s, v) \in Contexts
           /\ Returning(s, v).temp = s.temp /\ Returning(s, v).label = s.label
           /\ Returning(s, v).ret = v /\ Returning(s, v).code = s.code
  BY DEF Returning, Contexts

-------------------------------------------------------------------------------
\* Execution, instruction by instruction.

LEMMA SomeTrace ==
    ASSUME NEW code \in Seq(Instructions)
    PROVE  \E x : Traces(x, code)
<1> DEFINE n == Len(code)
           To(m) == \E x : x = [k \in 0 .. m |->
                                   IF k = 0 THEN Start ELSE Run(x[k - 1], code[k])]
           T == {m \in 0 .. n : To(m)}
<1>1. n \in Nat
  OBVIOUS
<1> HIDE DEF n
<1>2. To(0)
  <2> DEFINE x == [k \in 0 .. 0 |-> Start]
  <2>1. x = [k \in 0 .. 0 |-> IF k = 0 THEN Start ELSE Run(x[k - 1], code[k])]
    OBVIOUS
  <2> QED
    BY <2>1
<1>3. ASSUME NEW m \in 0 + 1 .. n, To(m - 1) PROVE To(m)
  <2>1. PICK x : x = [k \in 0 .. m - 1 |->
                         IF k = 0 THEN Start ELSE Run(x[k - 1], code[k])]
    BY <1>3
  <2>2. m \in Nat /\ m # 0 /\ m - 1 \in 0 .. m - 1
    BY <1>1
  <2> DEFINE y == [k \in 0 .. m |-> IF k = m THEN Run(x[m - 1], code[m]) ELSE x[k]]
  <2>3. ASSUME NEW k \in 0 .. m
        PROVE  y[k] = IF k = 0 THEN Start ELSE Run(y[k - 1], code[k])
    <3>1. CASE k = m
      BY <3>1, <2>2
    <3>2. CASE k # m
      <4>1. k \in 0 .. m - 1 /\ y[k] = x[k]
        BY <3>2, <2>2
      <4>2. k # 0 => y[k - 1] = x[k - 1]
        BY <4>1, <2>2
      <4>3. x[k] = IF k = 0 THEN Start ELSE Run(x[k - 1], code[k])
        BY <2>1, <4>1
      <4> HIDE DEF y
      <4> QED
        BY <4>1, <4>2, <4>3
    <3> QED
      BY <3>1, <3>2
  <2>4. y = [k \in 0 .. m |-> y[k]]
    OBVIOUS
  <2> HIDE DEF y
  <2> QED
    BY <2>3, <2>4
<1> HIDE DEF To
<1>4. T = 0 .. n
  <2>1. T \in SUBSET (0 .. n) /\ 0 \in T
    BY <1>1, <1>2
  <2>2. ASSUME NEW i \in 0 + 1 .. n, i - 1 \in T PROVE i \in T
    BY <1>3, <2>2
  <2> HIDE DEF T
  <2> QED
    BY <1>1, <2>1, <2>2, Stretch
<1>5. To(n)
  BY <1>1, <1>4
<1> QED
  BY <1>5 DEF To, n, Traces

LEMMA ExecutionIsTrace ==
    ASSUME NEW code \in Seq(Instructions)
    PROVE  \E x : Traces(x, code) /\ Execution(code) = x[Len(code)]
<1> DEFINE c == CHOOSE x : Traces(x, code)
<1>1. Traces(c, code)
  BY SomeTrace
<1>2. Execution(code) = c[Len(code)]
  BY Zenon DEF Execution, Traces
<1> QED
  BY <1>1, <1>2, Zenon

LEMMA TraceSteps ==
    ASSUME NEW code \in Seq(Instructions), NEW x, Traces(x, code)
    PROVE  /\ x[0] = Start
           /\ \A k \in 1 .. Len(code) : x[k] = Run(x[k - 1], code[k])
<1>1. Len(code) \in Nat
  OBVIOUS
<1>2. \A k \in 0 .. Len(code) : x[k] = IF k = 0 THEN Start ELSE Run(x[k - 1], code[k])
  BY DEF Traces
<1> QED
  BY <1>1, <1>2

\* Nothing has happened before the first instruction,
LEMMA ExecutionStarts == Execution(<<>>) = Start
<1>1. <<>> \in Seq(Instructions)
  OBVIOUS
<1>2. PICK x : Traces(x, <<>>) /\ Execution(<<>>) = x[Len(<<>>)]
  BY <1>1, ExecutionIsTrace
<1>3. x[0] = Start
  BY <1>1, <1>2, TraceSteps
<1>4. Len(<<>>) = 0
  OBVIOUS
<1> QED
  BY <1>2, <1>3, <1>4

\* and each one adds what it does.
LEMMA ExecutionContinues ==
    ASSUME NEW code \in Seq(Instructions), NEW i \in Instructions
    PROVE  Execution(Append(code, i)) = Run(Execution(code), i)
<1> DEFINE more == Append(code, i)
           n == Len(code)
<1>1. /\ more \in Seq(Instructions) /\ Len(more) = n + 1 /\ n \in Nat
      /\ more[n + 1] = i
      /\ \A k \in 1 .. n : more[k] = code[k]
  OBVIOUS
<1> HIDE DEF more
<1>2. PICK x : Traces(x, code) /\ Execution(code) = x[n]
  BY ExecutionIsTrace
<1>3. PICK y : Traces(y, more) /\ Execution(more) = y[n + 1]
  BY <1>1, ExecutionIsTrace
<1>4. x[0] = Start /\ \A k \in 1 .. n : x[k] = Run(x[k - 1], code[k])
  BY <1>2, TraceSteps
<1>5. y[0] = Start /\ \A k \in 1 .. n + 1 : y[k] = Run(y[k - 1], more[k])
  BY <1>1, <1>3, TraceSteps
<1> DEFINE T == {k \in 0 .. n : x[k] = y[k]}
<1> HIDE DEF n
<1>6. T = 0 .. n
  <2>1. T \in SUBSET (0 .. n) /\ 0 \in T
    BY <1>1, <1>4, <1>5
  <2>2. ASSUME NEW k \in 0 + 1 .. n, k - 1 \in T PROVE k \in T
    <3>1. k \in 1 .. n /\ k \in 1 .. n + 1 /\ k \in 0 .. n
      BY <1>1
    <3>2. x[k - 1] = y[k - 1] /\ more[k] = code[k]
      BY <2>2, <3>1, <1>1
    <3>3. x[k] = y[k]
      BY <3>1, <3>2, <1>4, <1>5
    <3> QED
      BY <3>1, <3>3
  <2> HIDE DEF T
  <2> QED
    BY <1>1, <2>1, <2>2, Stretch
<1>7. x[n] = y[n]
  BY <1>1, <1>6
<1>8. n + 1 \in 1 .. n + 1 /\ (n + 1) - 1 = n
  BY <1>1
<1>9. y[n + 1] = Run(y[n], i)
  BY <1>1, <1>5, <1>8
<1> QED
  BY <1>2, <1>3, <1>7, <1>9 DEF more

-------------------------------------------------------------------------------
\* What the static check knows of a context.

LEMMA ContextFields ==
    \A s \in Contexts : /\ s.temp \in Int /\ s.label \in Int /\ s.ret \in Int
                        /\ s.code \in Seq(Instructions)
  BY DEF Contexts

LEMMA ClaimedAreTidy ==
    ASSUME NEW K \in Claimed, NEW s \in K
    PROVE  s \in Contexts /\ Tidy(s) /\ (Sure(K) => FaultsIn(s) = {})
  BY DEF Claimed, Sure, Fine
LEMMA TidyAreClaimed ==
    ASSUME NEW K \in Claimed, NEW s \in K, NEW t \in Contexts, Tidy(t),
           Sure(K) => FaultsIn(t) = {}
    PROVE  t \in K
  BY DEF Claimed, Sure, Fine

LEMMA KeepsTransitive ==
    ASSUME NEW s \in Contexts, NEW t \in Contexts, NEW u \in Contexts,
           s.temp <= t.temp, DOMAIN TypesIn(u) \subseteq Int, Keeps(s, t), Keeps(t, u)
    PROVE  Keeps(s, u)
<1>1. \A r \in DOMAIN TypesIn(s) : Has(u, r, TypesIn(s)[r])
  BY DEF Keeps, Has
<1>2. \A p \in DOMAIN PlacesIn(s) : Declared(u, p, PlacesIn(s)[p])
  BY DEF Keeps, Declared
<1>3. ASSUME NEW r \in DOMAIN TypesIn(u) \ DOMAIN TypesIn(s) PROVE r > s.temp
  <2>1. r \in Int /\ s.temp \in Int /\ t.temp \in Int
    BY ContextFields
  <2>2. CASE r \in DOMAIN TypesIn(t)
    BY <2>2 DEF Keeps
  <2>3. CASE r \notin DOMAIN TypesIn(t)
    <3>1. r > t.temp
      BY <2>3 DEF Keeps
    <3> QED
      BY <2>1, <3>1
  <2> QED
    BY <2>2, <2>3
<1> QED
  BY <1>1, <1>2, <1>3 DEF Keeps

LEMMA LeadsReflexive ==
    ASSUME NEW K \in Claimed, NEW s \in Contexts
    PROVE  Leads(s, s, K)
<1>1. s.temp <= s.temp /\ s.label <= s.label
  BY ContextFields
<1>2. Keeps(s, s)
  BY DEF Keeps, Has, Declared
<1> QED
  BY <1>1, <1>2 DEF Leads

LEMMA LeadsTransitive ==
    ASSUME NEW K \in Claimed, NEW s, NEW t, NEW u, Leads(s, t, K), Leads(t, u, K)
    PROVE  Leads(s, u, K)
<1>1. /\ s \in Contexts /\ t \in Contexts /\ u \in Contexts
      /\ s.temp <= t.temp /\ t.temp <= u.temp /\ s.label <= t.label /\ t.label <= u.label
  BY DEF Leads
<1>2. s.temp <= u.temp /\ s.label <= u.label
  BY <1>1, ContextFields
<1>3. ASSUME s \in K PROVE u \in K /\ Keeps(s, u)
  <2>1. t \in K /\ u \in K /\ Keeps(s, t) /\ Keeps(t, u)
    BY <1>3 DEF Leads
  <2>2. Tidy(u)
    BY <2>1, ClaimedAreTidy
  <2>3. u.temp \in Int /\ DOMAIN TypesIn(u) \subseteq Int
    BY <1>1, <2>2, ContextFields DEF Tidy
  <2> QED
    BY <1>1, <2>1, <2>3, KeepsTransitive
<1> QED
  BY <1>1, <1>2, <1>3 DEF Leads

\* What was known is known.
LEMMA StillHas ==
    ASSUME NEW s, NEW t, NEW K, Leads(s, t, K), s \in K, NEW r, NEW type, Has(s, r, type)
    PROVE  t \in K /\ Has(t, r, type)
  BY DEF Leads, Keeps, Has
LEMMA StillDeclared ==
    ASSUME NEW s, NEW t, NEW K, Leads(s, t, K), s \in K, NEW p, NEW type,
           Declared(s, p, type)
    PROVE  t \in K /\ Declared(t, p, type)
  BY DEF Leads, Keeps, Declared

-------------------------------------------------------------------------------
\* What printing an instruction leads to.

LEMMA KnownOfCode ==
    ASSUME NEW s, NEW t, s.code = t.code
    PROVE  /\ TypesIn(s) = TypesIn(t) /\ PlacesIn(s) = PlacesIn(t)
           /\ FaultsIn(s) = FaultsIn(t) /\ ClashesIn(s) = ClashesIn(t)
  BY DEF TypesIn, PlacesIn, FaultsIn, ClashesIn

LEMMA CountingLeads ==
    ASSUME NEW K \in Claimed, NEW s \in Contexts, NEW t \in Contexts, s.code = t.code,
           s.temp <= t.temp, s.label <= t.label
    PROVE  Leads(s, t, K)
<1>1. /\ TypesIn(s) = TypesIn(t) /\ PlacesIn(s) = PlacesIn(t)
      /\ FaultsIn(s) = FaultsIn(t) /\ ClashesIn(s) = ClashesIn(t)
  BY KnownOfCode
<1>2. Keeps(s, t)
  BY <1>1 DEF Keeps, Has, Declared
<1>3. ASSUME s \in K PROVE t \in K
  <2>1. Tidy(s) /\ (Sure(K) => FaultsIn(s) = {})
    BY <1>3, ClaimedAreTidy
  <2>2. s.temp \in Int /\ t.temp \in Int /\ temp_counter \in Int /\ temp_counter <= s.temp
    BY <2>1, ContextFields DEF Tidy
  <2>3. temp_counter + 1 .. s.temp \subseteq temp_counter + 1 .. t.temp
    BY <2>2
  <2>4. DOMAIN TypesIn(t) \subseteq temp_counter + 1 .. t.temp
    BY <2>1, <2>3, <1>1 DEF Tidy
  <2>5. DOMAIN PlacesIn(t) \subseteq Variables \cup {Slot(k) : k \in temp_counter + 1 .. t.temp}
    BY <2>1, <2>3, <1>1 DEF Tidy
  <2>6. \A n \in Names : Declared(t, Variable(n), LLVM[Type[n]])
    BY <2>1, <1>1 DEF Tidy, Declared
  <2>7. temp_counter <= t.temp
    BY <2>2
  <2>8. Tidy(t)
    BY <2>1, <2>4, <2>5, <2>6, <2>7, <1>1 DEF Tidy
  <2> QED
    BY <1>1, <1>3, <2>1, <2>8, TidyAreClaimed
<1> QED
  BY <1>2, <1>3 DEF Leads

LEMMA ReturningLeads ==
    ASSUME NEW K \in Claimed, NEW s \in Contexts, NEW v \in Int
    PROVE  Leads(s, Returning(s, v), K) /\ Returning(s, v).ret = v
<1>1. /\ Returning(s, v) \in Contexts
      /\ Returning(s, v).temp = s.temp /\ Returning(s, v).label = s.label
      /\ Returning(s, v).ret = v /\ Returning(s, v).code = s.code
  BY ReturningContext
<1>2. s.temp <= s.temp /\ s.label <= s.label
  BY ContextFields
<1> HIDE DEF Returning
<1> QED
  BY <1>1, <1>2, CountingLeads

LEMMA TempLeads ==
    ASSUME NEW K \in Claimed, NEW s \in Contexts
    PROVE  /\ Leads(s, get_next_temp(s), K)
           /\ get_next_temp(s).temp = s.temp + 1 /\ get_next_temp(s).label = s.label
<1>1. /\ get_next_temp(s) \in Contexts
      /\ get_next_temp(s).temp = s.temp + 1 /\ get_next_temp(s).label = s.label
      /\ get_next_temp(s).code = s.code
  BY CountContext
<1>2. s.temp <= s.temp + 1 /\ s.label <= s.label
  BY ContextFields
<1> QED
  BY <1>1, <1>2, CountingLeads

LEMMA LabelLeads ==
    ASSUME NEW K \in Claimed, NEW s \in Contexts
    PROVE  /\ Leads(s, generate_label(s), K)
           /\ generate_label(s).temp = s.temp /\ generate_label(s).label = s.label + 1
<1>1. /\ generate_label(s) \in Contexts
      /\ generate_label(s).temp = s.temp /\ generate_label(s).label = s.label + 1
      /\ generate_label(s).code = s.code
  BY CountContext
<1>2. s.temp <= s.temp /\ s.label <= s.label + 1
  BY ContextFields
<1> QED
  BY <1>1, <1>2, CountingLeads

\* The check after one more instruction.
LEMMA KnownOfEmitted ==
    ASSUME NEW s \in Contexts, NEW i \in Instructions
    PROVE  /\ TypesIn(Emit(s, i)) =
                IF Defines(i) THEN Given(TypesIn(s), i.to, Result(i)) ELSE TypesIn(s)
           /\ PlacesIn(Emit(s, i)) =
                IF i.op = "alloca" THEN Given(PlacesIn(s), i.place, i.type) ELSE PlacesIn(s)
           /\ FaultsIn(Emit(s, i)) = IF Accepted(Execution(s.code).check, i) THEN FaultsIn(s)
                                      ELSE FaultsIn(s) \cup {i}
           /\ Placed(Execution(s.code).check, i) => ClashesIn(Emit(s, i)) = ClashesIn(s)
<1>1. Emit(s, i).code = Append(s.code, i)
  BY EmitContext
<1>2. Execution(Emit(s, i).code) = Run(Execution(s.code), i)
  BY <1>1, ExecutionContinues, ContextFields
<1> DEFINE x == Execution(s.code)
<1>3. Run(x, i).check = Checked(x.check, i)
  BY DEF Run
<1> HIDE DEF x
<1>4. /\ Checked(x.check, i).types =
            IF Defines(i) THEN Given(x.check.types, i.to, Result(i)) ELSE x.check.types
      /\ Checked(x.check, i).places =
            IF i.op = "alloca" THEN Given(x.check.places, i.place, i.type) ELSE x.check.places
      /\ Checked(x.check, i).faults = IF Accepted(x.check, i) THEN x.check.faults
                                      ELSE x.check.faults \cup {i}
      /\ Placed(x.check, i) => Checked(x.check, i).clashes = x.check.clashes
  BY DEF Checked
<1> QED
  BY <1>2, <1>3, <1>4 DEF TypesIn, PlacesIn, FaultsIn, ClashesIn, x

LEMMA PermittedIsAccepted ==
    ASSUME NEW K, NEW s \in Contexts, NEW i \in Instructions, Permits(s, i, K),
           Defines(i) => i.to > temp_counter /\ i.to \notin DOMAIN TypesIn(s),
           i.op = "alloca" => i.place \notin DOMAIN PlacesIn(s)
    PROVE  /\ ClashesIn(Emit(s, i)) = ClashesIn(s)
           /\ Sure(K) => FaultsIn(Emit(s, i)) = FaultsIn(s)
<1>1. Placed(Execution(s.code).check, i)
  BY DEF Permits, Placed, Declared, TypesIn, PlacesIn
<1>2. Allowed(s, i) => Accepted(Execution(s.code).check, i)
  BY <1>1 DEF Allowed, Accepted, Typed, Has, TypesIn
<1> QED
  BY <1>1, <1>2, KnownOfEmitted DEF Permits

\* An instruction that defines nothing.
LEMMA SayingLeads ==
    ASSUME NEW K \in Claimed, NEW s \in Contexts, NEW i \in Instructions,
           ~Defines(i), i.op # "alloca", s \in K => Permits(s, i, K)
    PROVE  Leads(s, Emit(s, i), K) /\ Emit(s, i).ret = s.ret
<1> DEFINE t == Emit(s, i)
<1>1. /\ t \in Contexts /\ t.temp = s.temp /\ t.label = s.label /\ t.ret = s.ret
  BY EmitContext
<1>2. TypesIn(t) = TypesIn(s) /\ PlacesIn(t) = PlacesIn(s)
  BY KnownOfEmitted
<1>3. s \in K => ClashesIn(t) = ClashesIn(s) /\ (Sure(K) => FaultsIn(t) = FaultsIn(s))
  BY PermittedIsAccepted
<1> HIDE DEF t
<1>4. s.temp <= t.temp /\ s.label <= t.label
  BY <1>1, ContextFields
<1>5. Keeps(s, t)
  BY <1>2 DEF Keeps, Has, Declared
<1>6. ASSUME s \in K PROVE t \in K
  <2>1. Tidy(s) /\ (Sure(K) => FaultsIn(s) = {})
    BY <1>6, ClaimedAreTidy
  <2>2. Tidy(t)
    BY <2>1, <1>1, <1>2, <1>3, <1>6 DEF Tidy, Declared
  <2> QED
    BY <1>1, <1>3, <1>6, <2>1, <2>2, TidyAreClaimed
<1> QED
  BY <1>1, <1>4, <1>5, <1>6 DEF Leads, t

\* An instruction that defines a register whose number was taken after s.
LEMMA ReservedLeads ==
    ASSUME NEW K \in Claimed, NEW s, NEW u, Leads(s, u, K), NEW i \in Instructions,
           Defines(i), i.op # "alloca", i.to \in Int, s.temp < i.to, i.to <= u.temp,
           s \in K => Permits(u, i, K) /\ i.to \notin DOMAIN TypesIn(u)
    PROVE  /\ Leads(s, Emit(u, i), K)
           /\ Emit(u, i).temp = u.temp /\ Emit(u, i).label = u.label
           /\ Emit(u, i).ret = u.ret
           /\ Has(Emit(u, i), i.to, Result(i))
           /\ \A r, type : Has(u, r, type) /\ r # i.to => Has(Emit(u, i), r, type)
           /\ \A p, type : Declared(u, p, type) => Declared(Emit(u, i), p, type)
<1> DEFINE t == Emit(u, i)
           n == i.to
<1>1. s \in Contexts /\ u \in Contexts /\ s.temp <= u.temp /\ s.label <= u.label
  BY DEF Leads
<1>2. t \in Contexts /\ t.temp = u.temp /\ t.label = u.label /\ t.ret = u.ret
  BY <1>1, EmitContext
<1>3. TypesIn(t) = Given(TypesIn(u), n, Result(i)) /\ PlacesIn(t) = PlacesIn(u)
  BY <1>1, KnownOfEmitted
<1>4. s.temp \in Int /\ t.temp \in Int /\ n \in Int /\ s.temp < n /\ n <= t.temp
  BY <1>1, <1>2, ContextFields
<1>5. ASSUME s \in K
      PROVE  /\ u \in K /\ Keeps(s, u) /\ Tidy(u)
             /\ temp_counter \in Int /\ temp_counter <= s.temp
             /\ n \notin DOMAIN TypesIn(u)
             /\ ClashesIn(t) = {} /\ (Sure(K) => FaultsIn(t) = {})
  <2>1. u \in K /\ Keeps(s, u)
    BY <1>5 DEF Leads
  <2>2. Tidy(u) /\ Tidy(s) /\ (Sure(K) => FaultsIn(u) = {})
    BY <1>5, <2>1, ClaimedAreTidy
  <2>3. temp_counter \in Int /\ temp_counter <= s.temp
    BY <2>2 DEF Tidy
  <2>4. n > temp_counter
    BY <2>3, <1>4
  <2>5. ClashesIn(t) = ClashesIn(u) /\ (Sure(K) => FaultsIn(t) = FaultsIn(u))
    BY <1>1, <1>5, <2>4, PermittedIsAccepted
  <2> QED
    BY <1>5, <2>1, <2>2, <2>3, <2>5 DEF Tidy
<1> HIDE DEF t, n
<1>6. Has(t, n, Result(i))
  BY <1>3 DEF Has, Given
<1>7. \A r, type : Has(u, r, type) /\ r # n => Has(t, r, type)
  BY <1>3 DEF Has, Given
<1>8. \A p, type : Declared(u, p, type) => Declared(t, p, type)
  BY <1>3 DEF Declared
<1>9. ASSUME s \in K PROVE t \in K /\ Keeps(s, t)
  <2>1. /\ temp_counter \in Int /\ temp_counter <= s.temp
        /\ DOMAIN TypesIn(u) \subseteq temp_counter + 1 .. t.temp
        /\ DOMAIN PlacesIn(u) \subseteq
             Variables \cup {Slot(k) : k \in temp_counter + 1 .. t.temp}
        /\ \A m \in Names : Declared(u, Variable(m), LLVM[Type[m]])
    BY <1>2, <1>5, <1>9 DEF Tidy
  <2>2. n \in temp_counter + 1 .. t.temp /\ temp_counter <= t.temp
    BY <2>1, <1>4
  <2>3. DOMAIN TypesIn(t) = DOMAIN TypesIn(u) \cup {n}
    BY <1>3 DEF Given
  <2>4. DOMAIN TypesIn(t) \subseteq temp_counter + 1 .. t.temp
    BY <2>1, <2>2, <2>3
  <2>5. \A m \in Names : Declared(t, Variable(m), LLVM[Type[m]])
    BY <2>1, <1>8
  <2>7. Tidy(t)
    BY <2>1, <2>2, <2>4, <2>5, <1>3, <1>5, <1>9 DEF Tidy
  <2>8. ASSUME NEW r \in DOMAIN TypesIn(s) PROVE Has(t, r, TypesIn(s)[r])
    <3>1. Has(u, r, TypesIn(s)[r])
      BY <1>5, <1>9 DEF Keeps
    <3>2. r # n
      BY <3>1, <1>5, <1>9 DEF Has
    <3> QED
      BY <3>1, <3>2, <1>7
  <2>9. ASSUME NEW r \in DOMAIN TypesIn(t) \ DOMAIN TypesIn(s) PROVE r > s.temp
    <3>1. CASE r = n
      BY <3>1, <1>4
    <3>2. CASE r # n
      BY <3>2, <2>3, <1>5, <1>9 DEF Keeps
    <3> QED
      BY <3>1, <3>2
  <2>10. \A p \in DOMAIN PlacesIn(s) : Declared(t, p, PlacesIn(s)[p])
    BY <1>5, <1>8, <1>9 DEF Keeps
  <2>11. Keeps(s, t)
    BY <2>8, <2>9, <2>10 DEF Keeps
  <2> QED
    BY <1>2, <1>5, <1>9, <2>7, <2>11, TidyAreClaimed
<1>10. Leads(s, t, K)
  BY <1>1, <1>2, <1>9 DEF Leads
<1> QED
  BY <1>2, <1>6, <1>7, <1>8, <1>10 DEF t, n

\* The numbers above the counter are free.
LEMMA NewRegister ==
    ASSUME NEW K \in Claimed, NEW s \in K, NEW r \in Int, s.temp < r
    PROVE  r \notin DOMAIN TypesIn(s)
<1>1. DOMAIN TypesIn(s) \subseteq temp_counter + 1 .. s.temp /\ temp_counter \in Int
  BY ClaimedAreTidy DEF Tidy
<1>2. s.temp \in Int
  BY ClaimedAreTidy, ContextFields
<1>3. r \notin temp_counter + 1 .. s.temp
  BY <1>1, <1>2
<1> QED
  BY <1>1, <1>3

\* An instruction that defines the next register.
LEMMA DefiningLeads ==
    ASSUME NEW K \in Claimed, NEW s \in Contexts, NEW i \in Instructions,
           Defines(i), i.op # "alloca", i.to = Fresh(s), s \in K => Permits(s, i, K)
    PROVE  /\ Leads(s, Defining(s, i), K)
           /\ Defining(s, i).ret = Fresh(s)
           /\ Has(Defining(s, i), Fresh(s), Result(i))
<1> DEFINE u == get_next_temp(s)
           v == Emit(u, i)
           t == Defining(s, i)
           n == Fresh(s)
<1>1. n \in Int /\ n = s.temp + 1 /\ s.temp \in Int /\ s.temp < n
  BY ContextFields DEF Fresh
<1>2. Leads(s, u, K) /\ u.temp = n /\ u.code = s.code
  BY <1>1, TempLeads, CountContext
<1>3. TypesIn(u) = TypesIn(s) /\ PlacesIn(u) = PlacesIn(s)
  BY <1>2, KnownOfCode
<1>4. ASSUME s \in K PROVE Permits(u, i, K) /\ n \notin DOMAIN TypesIn(u)
  <2>1. Permits(u, i, K)
    BY <1>3, <1>4 DEF Permits, Allowed, Typed, Has, Declared
  <2> QED
    BY <1>1, <1>3, <1>4, <2>1, NewRegister
<1> HIDE DEF u, n
<1>5. n <= u.temp
  BY <1>1, <1>2
<1>6. Leads(s, v, K) /\ Has(v, n, Result(i))
  BY <1>1, <1>2, <1>4, <1>5, ReservedLeads DEF n
<1>7. v \in Contexts
  BY <1>6 DEF Leads
<1>8. t = Returning(v, n)
  BY DEF Defining, u, n
<1> HIDE DEF v, t
<1>9. Leads(v, t, K) /\ t.ret = n /\ t.code = v.code
  BY <1>1, <1>7, <1>8, ReturningLeads, ReturningContext
<1>10. Has(t, n, Result(i))
  BY <1>6, <1>9, KnownOfCode DEF Has
<1>11. Leads(s, t, K)
  BY <1>6, <1>9, LeadsTransitive
<1> QED
  BY <1>9, <1>10, <1>11 DEF t, n

\* The slot of the next number is made.
LEMMA AllocaLeads ==
    ASSUME NEW K \in Claimed, NEW s \in Contexts, NEW u \in Contexts, NEW type \in ValueTypes,
           u.code = s.code, u.temp = s.temp + 1, s.label <= u.label
    PROVE  /\ Leads(s, Emit(u, Alloca(type, Slot(Fresh(s)))), K)
           /\ Declared(Emit(u, Alloca(type, Slot(Fresh(s)))), Slot(Fresh(s)), type)
<1> DEFINE n == Fresh(s)
           i == Alloca(type, Slot(n))
           t == Emit(u, i)
<1>1. n \in Int /\ n = s.temp + 1 /\ s.temp \in Int /\ s.temp <= u.temp
  BY ContextFields DEF Fresh
<1>2. Slot(n) \in Places /\ i \in Instructions
  BY <1>1, PlacesArePlaces, AllocaIsInstruction
<1>3. /\ i.op = "alloca" /\ i.place = Slot(n) /\ i.type = type
      /\ ~Defines(i) /\ Uses(i) = {}
  BY DEF Alloca, Defines, Uses, Computations, Predicates
<1>4. Leads(s, u, K)
  BY <1>1, CountingLeads
<1>5. t \in Contexts /\ t.temp = n /\ t.label = u.label
  BY <1>1, <1>2, EmitContext
<1>6. TypesIn(u) = TypesIn(s) /\ PlacesIn(u) = PlacesIn(s)
  BY KnownOfCode
<1> HIDE DEF n, i
<1>7. TypesIn(t) = TypesIn(s) /\ PlacesIn(t) = Given(PlacesIn(s), Slot(n), type)
  BY <1>2, <1>3, <1>6, KnownOfEmitted
<1>8. ASSUME s \in K
      PROVE  /\ Tidy(s) /\ Slot(n) \notin DOMAIN PlacesIn(s)
             /\ ClashesIn(t) = {} /\ (Sure(K) => FaultsIn(t) = {})
  <2>1. Tidy(s)
    BY <1>8, ClaimedAreTidy
  <2>2. u \in K
    BY <1>4, <1>8 DEF Leads
  <2>3. ClashesIn(u) = {} /\ (Sure(K) => FaultsIn(u) = {})
    BY <2>2, ClaimedAreTidy DEF Tidy
  <2>4. temp_counter \in Int
    BY <2>1 DEF Tidy
  <2>5. n \notin temp_counter + 1 .. s.temp
    BY <2>4, <1>1
  <2>6. Slot(n) \notin {Slot(k) : k \in temp_counter + 1 .. s.temp}
    BY <2>5 DEF Slot
  <2>7. Slot(n) \notin Variables
    BY DEF Slot, Variables, Variable
  <2>8. Slot(n) \notin DOMAIN PlacesIn(s)
    BY <2>1, <2>6, <2>7 DEF Tidy
  <2>9. Permits(u, i, K)
    BY <1>3 DEF Permits, Allowed
  <2> QED
    BY <2>1, <2>3, <2>8, <2>9, <1>2, <1>3, <1>6, PermittedIsAccepted
<1> HIDE DEF t
<1>9. Declared(t, Slot(n), type)
  BY <1>7 DEF Declared, Given
<1>10. ASSUME s \in K PROVE t \in K /\ Keeps(s, t)
  <2>1. /\ temp_counter \in Int /\ temp_counter <= s.temp
        /\ DOMAIN TypesIn(s) \subseteq temp_counter + 1 .. s.temp
        /\ DOMAIN PlacesIn(s) \subseteq
             Variables \cup {Slot(k) : k \in temp_counter + 1 .. s.temp}
        /\ \A m \in Names : Declared(s, Variable(m), LLVM[Type[m]])
    BY <1>8, <1>10 DEF Tidy
  <2>2. /\ temp_counter + 1 .. s.temp \subseteq temp_counter + 1 .. t.temp
        /\ n \in temp_counter + 1 .. t.temp /\ temp_counter <= t.temp
    BY <2>1, <1>1, <1>5
  <2>3. DOMAIN TypesIn(t) \subseteq temp_counter + 1 .. t.temp
    BY <2>1, <2>2, <1>7
  <2>4. DOMAIN PlacesIn(t) = DOMAIN PlacesIn(s) \cup {Slot(n)}
    BY <1>7 DEF Given
  <2>5. DOMAIN PlacesIn(t) \subseteq Variables \cup {Slot(k) : k \in temp_counter + 1 .. t.temp}
    BY <2>1, <2>2, <2>4
  <2>6. \A p \in DOMAIN PlacesIn(s) : Declared(t, p, PlacesIn(s)[p])
    BY <1>7, <1>8, <1>10 DEF Declared, Given
  <2>7. \A m \in Names : Declared(t, Variable(m), LLVM[Type[m]])
    BY <2>1, <2>6 DEF Declared
  <2>9. Tidy(t)
    BY <2>1, <2>2, <2>3, <2>5, <2>7, <1>8, <1>10 DEF Tidy
  <2>10. Keeps(s, t)
    BY <2>6, <1>7 DEF Keeps, Has
  <2> QED
    BY <1>5, <1>8, <1>10, <2>9, <2>10, TidyAreClaimed
<1>11. s.temp <= t.temp /\ s.label <= t.label
  BY <1>1, <1>5
<1>12. Leads(s, t, K)
  BY <1>5, <1>10, <1>11 DEF Leads
<1> QED
  BY <1>9, <1>12 DEF t, i, n

-------------------------------------------------------------------------------
\* The same, instruction by instruction.

LEMMA OperandsAreTyped ==
    ASSUME NEW s, NEW v, NEW type
    PROVE  /\ Typed(s, Const(v), type)
           /\ Has(s, v, type) => Typed(s, Register(v), type)
  BY DEF Typed, Const, Register

LEMMA LoadFields ==
    ASSUME NEW to \in Int, NEW type \in ValueTypes, NEW place \in Places
    PROVE  /\ Load(to, type, place) \in Instructions
           /\ Load(to, type, place).to = to
           /\ Load(to, type, place).op # "alloca"
           /\ Defines(Load(to, type, place))
           /\ Result(Load(to, type, place)) = type
           /\ \A s, K : Declared(s, place, type) => Permits(s, Load(to, type, place), K)
<1> DEFINE i == Load(to, type, place)
<1>1. i \in Instructions
  BY LoadIsInstruction
<1>2. i.op = "load" /\ i.to = to /\ i.place = place /\ i.type = type
  BY DEF Load
<1> HIDE DEF i
<1>3. Defines(i)
  BY <1>2 DEF Defines
<1>4. Result(i) = type
  BY <1>2 DEF Result, Predicates
<1>5. Uses(i) = {}
  BY <1>2 DEF Uses, Computations, Predicates
<1>6. \A s, K : Declared(s, place, type) => Permits(s, i, K)
  BY <1>2, <1>5 DEF Permits, Allowed
<1> QED
  BY <1>1, <1>2, <1>3, <1>4, <1>6 DEF i

LEMMA LoadLeads ==
    ASSUME NEW K \in Claimed, NEW s \in Contexts, NEW type \in ValueTypes, NEW place \in Places,
           s \in K => Declared(s, place, type)
    PROVE  Brings(s, Defining(s, Load(Fresh(s), type, place)), K, type)
<1> DEFINE i == Load(Fresh(s), type, place)
<1>1. Fresh(s) \in Int
  BY ContextFields DEF Fresh
<1>2. /\ i \in Instructions /\ i.to = Fresh(s) /\ i.op # "alloca" /\ Defines(i)
      /\ Result(i) = type
      /\ s \in K => Permits(s, i, K)
  BY <1>1, LoadFields
<1> HIDE DEF i
<1>3. /\ Leads(s, Defining(s, i), K) /\ Defining(s, i).ret = Fresh(s)
      /\ Has(Defining(s, i), Fresh(s), Result(i))
  BY <1>2, DefiningLeads
<1> QED
  BY <1>2, <1>3 DEF Brings, i

LEMMA ConvertLeads ==
    ASSUME NEW K \in Claimed, NEW s \in Contexts, NEW op \in {"trunc", "sext", "zext"},
           NEW from \in IRTypes, NEW v \in Int, NEW into \in ValueTypes,
           Sure(K) /\ s \in K => Has(s, v, from)
    PROVE  Brings(s, Defining(s, Convert(op, Fresh(s), from, Register(v), into)), K, into)
<1> DEFINE i == Convert(op, Fresh(s), from, Register(v), into)
<1>1. Fresh(s) \in Int /\ Register(v) \in IROperands
  BY ContextFields, OperandsAreIROperands DEF Fresh
<1>2. i \in Instructions
  BY <1>1, ConvertIsInstruction
<1>3. /\ i.op = op /\ i.to = Fresh(s) /\ i.type = from /\ i.left = Register(v)
      /\ i.into = into
  BY DEF Convert
<1> HIDE DEF i
<1>4. Defines(i) /\ Result(i) = into
  <2>1. Defines(i)
    BY <1>3 DEF Defines
  <2>2. Result(i) = into
    BY <1>3 DEF Result, Predicates
  <2> QED
    BY <2>1, <2>2
<1>5. Uses(i) = {<<from, Register(v)>>}
  BY <1>3 DEF Uses, Computations, Predicates
<1>6. s \in K => Permits(s, i, K)
  BY <1>3, <1>5, OperandsAreTyped DEF Permits, Allowed
<1>7. /\ Leads(s, Defining(s, i), K) /\ Defining(s, i).ret = Fresh(s)
      /\ Has(Defining(s, i), Fresh(s), Result(i))
  BY <1>2, <1>3, <1>4, <1>6, DefiningLeads
<1> QED
  BY <1>4, <1>7 DEF Brings, i

LEMMA ComputeFields ==
    ASSUME NEW op \in Computations \cup Predicates, NEW to \in Int, NEW type \in ValueTypes,
           NEW left \in IROperands, NEW right \in IROperands
    PROVE  /\ Compute(op, to, type, left, right) \in Instructions
           /\ Compute(op, to, type, left, right).to = to
           /\ Compute(op, to, type, left, right).op # "alloca"
           /\ Defines(Compute(op, to, type, left, right))
           /\ Result(Compute(op, to, type, left, right)) = ComputedType(op, type)
           /\ \A s, K : (Sure(K) => Typed(s, left, type) /\ Typed(s, right, type))
                        => Permits(s, Compute(op, to, type, left, right), K)
<1> DEFINE i == Compute(op, to, type, left, right)
<1>1. i \in Instructions
  BY ComputeIsInstruction
<1>2. i.op = op /\ i.to = to /\ i.type = type /\ i.left = left /\ i.right = right
  BY DEF Compute
<1> HIDE DEF i
<1>3. op \notin {"load", "alloca", "jump", "label", "br", "call", "store", "trunc", "sext",
                 "zext", "ret"}
  BY DEF Computations, Predicates
<1>4. Defines(i) /\ Result(i) = ComputedType(op, type)
  BY <1>2, <1>3 DEF Defines, Result, ComputedType
<1>5. Uses(i) = {<<type, left>>, <<type, right>>}
  BY <1>2, <1>3 DEF Uses
<1>6. \A s, K : (Sure(K) => Typed(s, left, type) /\ Typed(s, right, type))
              => Permits(s, i, K)
  BY <1>2, <1>3, <1>5 DEF Permits, Allowed
<1> QED
  BY <1>1, <1>2, <1>3, <1>4, <1>6 DEF i

LEMMA ComputeLeads ==
    ASSUME NEW K \in Claimed, NEW s \in Contexts, NEW op \in Computations \cup Predicates,
           NEW type \in ValueTypes, NEW left \in IROperands, NEW right \in IROperands,
           Sure(K) /\ s \in K => Typed(s, left, type) /\ Typed(s, right, type)
    PROVE  Brings(s, Defining(s, Compute(op, Fresh(s), type, left, right)), K,
                  ComputedType(op, type))
<1> DEFINE i == Compute(op, Fresh(s), type, left, right)
<1>1. Fresh(s) \in Int
  BY ContextFields DEF Fresh
<1>2. /\ i \in Instructions /\ i.to = Fresh(s) /\ i.op # "alloca" /\ Defines(i)
      /\ Result(i) = ComputedType(op, type)
      /\ s \in K => Permits(s, i, K)
  BY <1>1, ComputeFields
<1> HIDE DEF i
<1>3. /\ Leads(s, Defining(s, i), K) /\ Defining(s, i).ret = Fresh(s)
      /\ Has(Defining(s, i), Fresh(s), Result(i))
  BY <1>2, DefiningLeads
<1> QED
  BY <1>2, <1>3 DEF Brings, i

LEMMA StoreLeads ==
    ASSUME NEW K \in Claimed, NEW s \in Contexts, NEW type \in ValueTypes,
           NEW operand \in IROperands, NEW place \in Places,
           s \in K => Declared(s, place, type) /\ (Sure(K) => Typed(s, operand, type))
    PROVE  /\ Leads(s, Emit(s, Store(type, operand, place)), K)
           /\ Emit(s, Store(type, operand, place)).ret = s.ret
<1> DEFINE i == Store(type, operand, place)
<1>1. i \in Instructions
  BY StoreIsInstruction
<1>2. /\ ~Defines(i) /\ i.op \notin {"alloca", "call"} /\ Uses(i) = {<<type, operand>>}
      /\ i.place = place /\ i.type = type
  BY DEF Store, Defines, Uses, Computations, Predicates
<1> HIDE DEF i
<1>3. s \in K => Permits(s, i, K)
  BY <1>2 DEF Permits, Allowed
<1>4. Leads(s, Emit(s, i), K) /\ Emit(s, i).ret = s.ret
  BY <1>1, <1>2, <1>3, SayingLeads
<1> QED
  BY <1>4 DEF i

LEMMA BranchLeads ==
    ASSUME NEW K \in Claimed, NEW s \in Contexts, NEW yes \in Int, NEW no \in Int,
           Sure(K) /\ s \in K => Has(s, s.ret, "i1")
    PROVE  Leads(s, BranchOn(s, yes, no), K)
<1> DEFINE i == Branch(Register(s.ret), yes, no)
<1>1. Register(s.ret) \in IROperands
  BY ContextFields, OperandsAreIROperands
<1>2. i \in Instructions
  BY <1>1, BranchIsInstruction
<1>3. /\ ~Defines(i) /\ i.op \notin {"alloca", "call", "load", "store"}
      /\ Uses(i) = {<<"i1", Register(s.ret)>>}
  BY DEF Branch, Defines, Uses, Computations, Predicates
<1> HIDE DEF i
<1>4. s \in K => Permits(s, i, K)
  BY <1>3, OperandsAreTyped DEF Permits, Allowed
<1>5. Leads(s, Emit(s, i), K)
  BY <1>2, <1>3, <1>4, SayingLeads
<1> QED
  BY <1>5 DEF i, BranchOn

LEMMA JumpLeads ==
    ASSUME NEW K \in Claimed, NEW s \in Contexts, NEW l \in Int
    PROVE  /\ Leads(s, Emit(s, Jump(l)), K) /\ Emit(s, Jump(l)).ret = s.ret
           /\ Leads(s, Emit(s, Label(l)), K) /\ Emit(s, Label(l)).ret = s.ret
<1>1. ASSUME NEW i \in Instructions, i.op \in {"jump", "label"}
      PROVE  Leads(s, Emit(s, i), K) /\ Emit(s, i).ret = s.ret
  <2>1. ~Defines(i) /\ Uses(i) = {}
    BY <1>1 DEF Defines, Uses, Computations, Predicates
  <2>2. Permits(s, i, K)
    BY <1>1, <2>1 DEF Permits, Allowed
  <2> QED
    BY <1>1, <2>1, <2>2, SayingLeads
<1>2. Jump(l).op = "jump" /\ Label(l).op = "label"
  BY DEF Jump, Label
<1> QED
  BY <1>1, <1>2, LabelsAreInstructions

LEMMA ReturnLeads ==
    ASSUME NEW K \in Claimed, NEW s \in Contexts, NEW type \in IRTypes,
           NEW operand \in IROperands, Sure(K) /\ s \in K => Typed(s, operand, type)
    PROVE  Leads(s, Emit(s, Return(type, operand)), K)
<1> DEFINE i == Return(type, operand)
<1>1. i \in Instructions
  BY ReturnIsInstruction
<1>2. i.op = "ret" /\ i.type = type /\ i.left = operand
  BY DEF Return
<1> HIDE DEF i
<1>3. ~Defines(i)
  BY <1>2 DEF Defines, Computations, Predicates
<1>4. Uses(i) = {<<type, operand>>}
  BY <1>2 DEF Uses, Computations, Predicates
<1>5. s \in K => Permits(s, i, K)
  BY <1>2, <1>4 DEF Permits, Allowed
<1>6. Leads(s, Emit(s, i), K)
  BY <1>1, <1>2, <1>3, <1>5, SayingLeads
<1> QED
  BY <1>6 DEF i

-------------------------------------------------------------------------------
\* Conversions.  The value of e is in s.

LEMMA ConvertedIsHeld ==
    ASSUME NEW e \in Expressions, NEW s, NEW v, Converts(e), ~IsLiteral(e),
           HeldAs(e) # "none" => Has(s, v, HeldAs(e))
    PROVE  Has(s, v, LLVM[get_expression_type[e]])
<1>1. HeldAs(e) = LLVM[get_expression_type[e]]
  BY DEF Converts
<1>2. LLVM[get_expression_type[e]] # "none"
  BY ExpressionTypes, LLVMTypes DEF IRTypes, ValueTypes
<1> QED
  BY <1>1, <1>2

LEMMA ComparisonIsHeld ==
    ASSUME NEW e, IsComparison(e)
    PROVE  HeldAs(e) = "i1" /\ ~IsLiteral(e)
  BY DEF IsComparison, HeldAs, IsLiteral

LEMMA BringsReturning ==
    ASSUME NEW K \in Claimed, NEW s \in Contexts, NEW v \in Int, NEW type,
           Sure(K) /\ s \in K => Has(s, v, type)
    PROVE  Brings(s, Returning(s, v), K, type)
<1>1. Leads(s, Returning(s, v), K) /\ Returning(s, v).ret = v
  BY ReturningLeads
<1>2. Sure(K) /\ s \in K => Has(Returning(s, v), v, type)
  BY <1>1, StillHas
<1> QED
  BY <1>1, <1>2 DEF Brings

LEMMA CastLeads ==
    ASSUME NEW K \in Claimed, NEW s \in Contexts, NEW v \in Int,
           NEW src \in CTypes, NEW dest \in CTypes, dest # "void",
           Sure(K) /\ s \in K => Has(s, v, LLVM[src])
    PROVE  Brings(s, cast_value(s, v, src, dest), K, LLVM[dest])
<1>1. CASE LLVM[src] = LLVM[dest]
  BY <1>1, BringsReturning DEF cast_value
<1>2. CASE LLVM[src] # LLVM[dest]
  <2> DEFINE op == IF Bits[LLVM[src]] > Bits[LLVM[dest]] THEN "trunc" ELSE "sext"
             t == Defining(s, Convert(op, Fresh(s), LLVM[src], Register(v), LLVM[dest]))
  <2>1. op \in {"trunc", "sext", "zext"}
    OBVIOUS
  <2>2. cast_value(s, v, src, dest) = t
    BY <1>2 DEF cast_value
  <2> HIDE DEF op
  <2>3. LLVM[src] \in IRTypes /\ LLVM[dest] \in ValueTypes
    BY LLVMTypes
  <2>4. Brings(s, t, K, LLVM[dest])
    BY <2>1, <2>3, ConvertLeads
  <2> HIDE DEF t
  <2> QED
    BY <2>2, <2>4
<1> QED
  BY <1>1, <1>2

LEMMA TestZeroLeads ==
    ASSUME NEW K \in Claimed, NEW s \in Contexts, NEW operand \in IROperands,
           Sure(K) /\ s \in K => Typed(s, operand, "i32")
    PROVE  Brings(s, TestZero(s, operand), K, "i1")
<1>1. "ne" \in Computations \cup Predicates /\ "i32" \in ValueTypes
  BY DEF Predicates, ValueTypes
<1>2. Const(0) \in IROperands /\ Typed(s, Const(0), "i32")
  BY OperandsAreIROperands, OperandsAreTyped
<1>3. ComputedType("ne", "i32") = "i1"
  BY DEF ComputedType, Predicates
<1>4. Brings(s, Defining(s, Compute("ne", Fresh(s), "i32", operand, Const(0))), K,
             ComputedType("ne", "i32"))
  BY <1>1, <1>2, ComputeLeads
<1> QED
  BY <1>3, <1>4 DEF TestZero

LEMMA LiteralFields ==
    ASSUME NEW e, NEW v \in Int
    PROVE  /\ LiteralOr(e, v) \in IROperands /\ NumberOr(e, v) \in IROperands
           /\ IsLiteral(e) => LiteralOr(e, v) = Const(v)
           /\ ~IsLiteral(e) => LiteralOr(e, v) = Register(v)
           /\ IsNumber(e) => NumberOr(e, v) = Const(v)
           /\ ~IsNumber(e) => NumberOr(e, v) = Register(v)
  BY OperandsAreIROperands DEF LiteralOr, NumberOr

LEMMA NumberIsTyped ==
    ASSUME NEW e, NEW s \in Contexts, Signed0(e), Value(s, e)
    PROVE  Typed(s, NumberOr(e, s.ret), "i32")
<1>1. CASE IsNumber(e)
  BY <1>1, ContextFields, LiteralFields, OperandsAreTyped
<1>2. CASE ~IsNumber(e)
  <2>1. Has(s, s.ret, "i32")
    BY <1>2 DEF Signed0, Value
  <2> QED
    BY <1>2, <2>1, ContextFields, LiteralFields, OperandsAreTyped
<1> QED
  BY <1>1, <1>2

LEMMA BooleanLeads ==
    ASSUME NEW K \in Claimed, NEW s \in Contexts, NEW e,
           Sure(K) /\ s \in K => Value(s, e) /\ Tests0(e)
    PROVE  Brings(s, convert_to_boolean(s, e), K, "i1")
<1>1. CASE IsComparison(e)
  <2>1. convert_to_boolean(s, e) = s
    BY <1>1 DEF convert_to_boolean
  <2>2. Sure(K) /\ s \in K => Has(s, s.ret, "i1")
    BY <1>1, ComparisonIsHeld DEF Value
  <2> QED
    BY <2>1, <2>2, LeadsReflexive DEF Brings
<1>2. CASE ~IsComparison(e)
  <2>1. convert_to_boolean(s, e) = TestZero(s, NumberOr(e, s.ret))
    BY <1>2 DEF convert_to_boolean
  <2>2. Sure(K) /\ s \in K => Typed(s, NumberOr(e, s.ret), "i32")
    BY <1>2, NumberIsTyped DEF Tests0, Signed0
  <2>3. NumberOr(e, s.ret) \in IROperands
    BY ContextFields, LiteralFields
  <2> QED
    BY <2>1, <2>2, <2>3, TestZeroLeads
<1> QED
  BY <1>1, <1>2

LEMMA LogicalLeads ==
    ASSUME NEW K \in Claimed, NEW s \in Contexts, NEW e,
           Sure(K) /\ s \in K => Value(s, e) /\ Connects(e)
    PROVE  Brings(s, LogicalOperand(s, e), K, "i1")
<1>1. CASE IsComparison(e)
  <2>1. LogicalOperand(s, e) = s
    BY <1>1 DEF LogicalOperand
  <2>2. Sure(K) /\ s \in K => Has(s, s.ret, "i1")
    BY <1>1, ComparisonIsHeld DEF Value
  <2> QED
    BY <2>1, <2>2, LeadsReflexive DEF Brings
<1>2. CASE ~IsComparison(e)
  <2>1. LogicalOperand(s, e) = TestZero(s, LiteralOr(e, s.ret))
    BY <1>2 DEF LogicalOperand
  <2>2. LiteralOr(e, s.ret) \in IROperands /\ s.ret \in Int
    BY ContextFields, LiteralFields
  <2>3. ASSUME Sure(K), s \in K PROVE Typed(s, LiteralOr(e, s.ret), "i32")
    <3>1. CASE IsLiteral(e)
      BY <3>1, <2>2, LiteralFields, OperandsAreTyped
    <3>2. CASE ~IsLiteral(e)
      <4>1. Has(s, s.ret, "i32")
        BY <1>2, <2>3, <3>2 DEF Connects, Value
      <4> QED
        BY <3>2, <4>1, <2>2, LiteralFields, OperandsAreTyped
    <3> QED
      BY <3>1, <3>2
  <2> QED
    BY <2>1, <2>2, <2>3, TestZeroLeads
<1> QED
  BY <1>1, <1>2

LEMMA WidenedLeads ==
    ASSUME NEW K \in Claimed, NEW s \in Contexts, Sure(K) /\ s \in K => Has(s, s.ret, "i1")
    PROVE  Brings(s, Widened(s), K, "i32")
<1>1. "i1" \in IRTypes /\ "i32" \in ValueTypes /\ s.ret \in Int
  BY ContextFields DEF IRTypes, ValueTypes
<1> QED
  BY <1>1, ConvertLeads DEF Widened

LEMMA PromotedLeads ==
    ASSUME NEW K \in Claimed, NEW s \in Contexts, NEW e \in Expressions, NEW v \in Int,
           Sure(K) /\ s \in K => Converts(e) /\ (HeldAs(e) # "none" => Has(s, v, HeldAs(e)))
    PROVE  /\ Leads(s, Promoted(s, e, v), K)
           /\ Sure(K) /\ s \in K /\ ~IsLiteral(e)
              => Has(Promoted(s, e, v), Promoted(s, e, v).ret, "i32")
<1>1. CASE IsComparison(e)
  <2> DEFINE u == Returning(s, v)
  <2>1. Sure(K) /\ s \in K => Has(s, v, "i1")
    BY <1>1, ComparisonIsHeld
  <2>2. Brings(s, u, K, "i1")
    BY <2>1, BringsReturning
  <2>3. u \in Contexts /\ (u \in K => s \in K \/ u \in K)
    BY <2>2 DEF Brings, Leads
  <2>4. Promoted(s, e, v) = Widened(u)
    BY <1>1 DEF Promoted
  <2>5. u.ret = v /\ u.code = s.code
    BY ReturningContext
  <2> HIDE DEF u
  <2>6. CASE s \in K
    <3>1. Brings(u, Widened(u), K, "i32")
      BY <2>2, <2>3, <2>6, WidenedLeads DEF Brings
    <3>2. u \in K
      BY <2>2, <2>6 DEF Brings, Leads
    <3> QED
      BY <2>2, <2>4, <3>1, <3>2, LeadsTransitive DEF Brings
  <2>7. CASE s \notin K
    <3>1. {} \in Claimed
      BY DEF Claimed
    <3>2. Brings(u, Widened(u), {}, "i32")
      BY <2>3, <3>1, WidenedLeads
    <3>3. Leads(s, Widened(u), {})
      <4>1. Leads(s, u, {})
        BY <2>2 DEF Brings, Leads
      <4> QED
        BY <3>1, <3>2, <4>1, LeadsTransitive DEF Brings
    <3>4. Leads(s, Widened(u), K)
      BY <2>7, <3>3 DEF Leads
    <3> QED
      BY <2>4, <2>7, <3>4
  <2> QED
    BY <2>6, <2>7
<1>2. CASE ~IsComparison(e) /\ IsLiteral(e)
  BY <1>2, ReturningLeads DEF Promoted
<1>3. CASE ~IsComparison(e) /\ ~IsLiteral(e)
  <2>1. Promoted(s, e, v) = cast_value(s, v, get_expression_type[e], "int")
    BY <1>3 DEF Promoted
  <2>2. Sure(K) /\ s \in K => Has(s, v, LLVM[get_expression_type[e]])
    BY <1>3, ConvertedIsHeld
  <2>3. get_expression_type[e] \in CTypes /\ "int" \in CTypes
    BY ExpressionTypes DEF CTypes, VariableTypes
  <2>4. LLVM["int"] = "i32"
    BY DEF LLVM
  <2>5. Brings(s, cast_value(s, v, get_expression_type[e], "int"), K, LLVM["int"])
    BY <2>2, <2>3, CastLeads
  <2> QED
    BY <2>1, <2>4, <2>5 DEF Brings
<1> QED
  BY <1>1, <1>2, <1>3

LEMMA ConvertedLeads ==
    ASSUME NEW K \in Claimed, NEW s \in Contexts, NEW e \in Expressions,
           NEW type \in CTypes, type # "void",
           Sure(K) /\ s \in K => Value(s, e) /\ Converts(e)
    PROVE  /\ Leads(s, Converted(s, e, type), K)
           /\ Sure(K) /\ s \in K /\ ~IsLiteral(e)
              => Has(Converted(s, e, type), Converted(s, e, type).ret, LLVM[type])
<1>1. CASE IsLiteral(e)
  BY <1>1, LeadsReflexive DEF Converted
<1>2. CASE ~IsLiteral(e)
  <2>1. Converted(s, e, type) = cast_value(s, s.ret, get_expression_type[e], type)
    BY <1>2 DEF Converted
  <2>2. Sure(K) /\ s \in K => Has(s, s.ret, LLVM[get_expression_type[e]])
    BY <1>2, ConvertedIsHeld DEF Value
  <2>3. get_expression_type[e] \in CTypes /\ s.ret \in Int
    BY ExpressionTypes, ContextFields
  <2>4. Brings(s, cast_value(s, s.ret, get_expression_type[e], type), K, LLVM[type])
    BY <2>2, <2>3, CastLeads
  <2> QED
    BY <2>1, <2>4 DEF Brings
<1> QED
  BY <1>1, <1>2

LEMMA StoredLeads ==
    ASSUME NEW K \in Claimed, NEW s \in Contexts, NEW e \in Expressions,
           NEW type \in CTypes, type # "void",
           NEW place \in Places, s \in K => Declared(s, place, LLVM[type]),
           Sure(K) /\ s \in K => Value(s, e) /\ Converts(e)
    PROVE  /\ Leads(s, Stored(s, e, type, place), K)
           /\ Sure(K) /\ s \in K /\ ~IsLiteral(e)
              => Has(Stored(s, e, type, place), Stored(s, e, type, place).ret, LLVM[type])
<1> DEFINE c == Converted(s, e, type)
           t == Emit(c, Store(LLVM[type], LiteralOr(e, c.ret), place))
<1>1. Leads(s, c, K) /\ (Sure(K) /\ s \in K /\ ~IsLiteral(e) => Has(c, c.ret, LLVM[type]))
  BY ConvertedLeads
<1>2. t = Stored(s, e, type, place)
  BY DEF Stored
<1> HIDE DEF c
<1>3. c \in Contexts /\ c.ret \in Int
  BY <1>1, ContextFields DEF Leads
<1>4. LLVM[type] \in ValueTypes /\ LiteralOr(e, c.ret) \in IROperands
  BY <1>3, LLVMTypes, LiteralFields
<1>5. CASE s \in K
  <2>1. c \in K /\ Declared(c, place, LLVM[type])
    BY <1>1, <1>5, StillDeclared
  <2>2. ASSUME Sure(K) PROVE Typed(c, LiteralOr(e, c.ret), LLVM[type])
    <3>1. CASE IsLiteral(e)
      BY <3>1, <1>3, LiteralFields, OperandsAreTyped
    <3>2. CASE ~IsLiteral(e)
      BY <2>2, <3>2, <1>1, <1>3, <1>5, LiteralFields, OperandsAreTyped
    <3> QED
      BY <3>1, <3>2
  <2>3. Leads(c, t, K) /\ t.ret = c.ret
    BY <1>3, <1>4, <2>1, <2>2, StoreLeads
  <2> HIDE DEF t
  <2>4. Leads(s, t, K)
    BY <1>1, <2>3, LeadsTransitive
  <2>5. Sure(K) /\ ~IsLiteral(e) => Has(t, t.ret, LLVM[type])
    BY <1>1, <1>5, <2>1, <2>3, StillHas
  <2> QED
    BY <1>2, <2>4, <2>5
<1>6. CASE s \notin K
  <2>1. {} \in Claimed
    BY DEF Claimed
  <2>2. Leads(c, t, {})
    BY <1>3, <1>4, <2>1, StoreLeads
  <2> HIDE DEF t
  <2>3. Leads(s, c, {})
    BY <1>1 DEF Leads
  <2>4. Leads(s, t, {})
    BY <2>1, <2>2, <2>3, LeadsTransitive
  <2> QED
    BY <1>2, <1>6, <2>4 DEF Leads
<1> QED
  BY <1>5, <1>6

-------------------------------------------------------------------------------
(***************************************************************************)
(* The clauses of generate_expression, given what it does with the parts.  *)
(* With K = {} nothing is claimed but that the code is code and that the   *)
(* counters do not go down, which holds of every expression.               *)
(***************************************************************************)

LEMMA Onward ==
    ASSUME NEW K, NEW s, NEW t, At(s, K), Leads(s, t, K)
    PROVE  /\ At(t, K)
           /\ \A r, type : Sure(K) /\ Has(s, r, type) => Has(t, r, type)
           /\ \A p, type : K # {} /\ Declared(s, p, type) => Declared(t, p, type)
<1>1. At(t, K)
  BY DEF At, Leads
<1>2. \A r, type : Sure(K) /\ Has(s, r, type) => Has(t, r, type)
  BY StillHas DEF At
<1>3. \A p, type : K # {} /\ Declared(s, p, type) => Declared(t, p, type)
  BY StillDeclared DEF At
<1> QED
  BY <1>1, <1>2, <1>3

LEMMA AtContext ==
    ASSUME NEW s, NEW K, At(s, K)
    PROVE  s \in Contexts /\ s.temp \in Int /\ s.label \in Int /\ s.ret \in Int
  BY ContextFields DEF At

\* The part e is generated in u, which comes after s.
LEMMA PartLeads ==
    ASSUME NEW K \in Claimed, NEW s, At(s, K), NEW u, Leads(s, u, K), NEW e, NEW f,
           Delivers(f, e, K)
    PROVE  /\ Leads(s, f[u], K) /\ Leads(u, f[u], K) /\ At(f[u], K)
           /\ Sure(K) => Value(f[u], e)
<1>1. At(u, K)
  BY Onward
<1>2. Leads(u, f[u], K) /\ (Sure(K) /\ u \in K => Value(f[u], e))
  BY <1>1 DEF At, Delivers
<1>3. Leads(s, f[u], K)
  BY <1>2, LeadsTransitive
<1>4. At(f[u], K)
  BY <1>3, Onward
<1> QED
  BY <1>1, <1>2, <1>3, <1>4 DEF At

LEMMA ValueOfRegister ==
    ASSUME NEW t, NEW e, Has(t, t.ret, HeldAs(e))
    PROVE  Value(t, e)
  BY DEF Value

\* A slot, for what one of two ways gives.
LEMMA OpenedLeads ==
    ASSUME NEW K \in Claimed, NEW s, At(s, K), NEW type \in ValueTypes, NEW t,
           t = Emit(get_next_temp(generate_label(generate_label(generate_label(s)))),
                    Alloca(type, Slot(Fresh(s))))
    PROVE  Leads(s, t, K) /\ At(t, K) /\ Declared(t, Slot(Fresh(s)), type)
<1> DEFINE l1 == generate_label(s)
           l2 == generate_label(l1)
           l3 == generate_label(l2)
           u == get_next_temp(l3)
<1>1. s \in Contexts /\ s.temp \in Int /\ s.label \in Int
  BY AtContext
<1>2. l1 \in Contexts /\ l1.temp = s.temp /\ l1.label = s.label + 1 /\ l1.code = s.code
  BY <1>1, CountContext
<1>3. l2 \in Contexts /\ l2.temp = s.temp /\ l2.label = s.label + 2 /\ l2.code = s.code
  <2> HIDE DEF l1
  <2> QED
    BY <1>1, <1>2, CountContext
<1>4. l3 \in Contexts /\ l3.temp = s.temp /\ l3.label = s.label + 3 /\ l3.code = s.code
  <2> HIDE DEF l2
  <2> QED
    BY <1>1, <1>3, CountContext
<1>5. u \in Contexts /\ u.temp = s.temp + 1 /\ u.label = s.label + 3 /\ u.code = s.code
  <2> HIDE DEF l3
  <2> QED
    BY <1>1, <1>4, CountContext
<1>6. t = Emit(u, Alloca(type, Slot(Fresh(s))))
  OBVIOUS
<1> HIDE DEF u
<1>7. s.label <= u.label
  BY <1>1, <1>5
<1>8. Leads(s, t, K) /\ Declared(t, Slot(Fresh(s)), type)
  BY <1>1, <1>5, <1>6, <1>7, AllocaLeads
<1> QED
  BY <1>8, Onward

LEMMA GenerateLogicalLeads ==
    ASSUME NEW K \in Claimed, NEW s, At(s, K), NEW e \in Expressions,
           e.kind = "AST_BINARY_OP", e.op \in Logical, Sure(K) => GuessedRight(e),
           NEW of_left, Delivers(of_left, e.left, K),
           NEW of_right, Delivers(of_right, e.right, K)
    PROVE  Generates(s, GenerateLogical(s, e, of_left, of_right), e, K)
<1> DEFINE left_label == s.label + 1
           right_label == s.label + 2
           end_label == s.label + 3
           result == Slot(Fresh(s))
           and == e.op = "OP_LAND"
           opened == Emit(get_next_temp(generate_label(generate_label(generate_label(s)))),
                          Alloca("i1", result))
           left == of_left[opened]
           left_bool == LogicalOperand(left, e.left)
           split == IF and THEN BranchOn(left_bool, right_label, left_label)
                           ELSE BranchOn(left_bool, left_label, right_label)
           a1 == Emit(split, Label(left_label))
           a2 == Emit(a1, Store("i1", Const(IF and THEN 0 ELSE 1), result))
           short == Emit(a2, Jump(end_label))
           b0 == Emit(short, Label(right_label))
           right == of_right[b0]
           right_bool == LogicalOperand(right, e.right)
           b1 == Emit(right_bool, Store("i1", Register(right_bool.ret), result))
           b2 == Emit(b1, Jump(end_label))
           both == Emit(b2, Label(end_label))
           loaded == Defining(both, Load(Fresh(both), "i1", result))
           t == Widened(loaded)
<1>0. GenerateLogical(s, e, of_left, of_right) = t
  BY DEF GenerateLogical
<1>1. /\ left_label \in Int /\ right_label \in Int /\ end_label \in Int
      /\ result \in Places /\ "i1" \in ValueTypes
      /\ Const(IF and THEN 0 ELSE 1) \in IROperands
  <2>1. s.label \in Int /\ Fresh(s) \in Int
    BY AtContext DEF Fresh
  <2>2. (IF and THEN 0 ELSE 1) \in Int
    OBVIOUS
  <2> QED
    BY <2>1, <2>2, PlacesArePlaces, OperandsAreIROperands DEF ValueTypes
<1>2. Sure(K) => Connects(e.left) /\ Connects(e.right)
  BY DEF GuessedRight
<1>3. HeldAs(e) = "i32"
  BY DEF HeldAs, IsComparison, Comparisons, Logical
<1>4. Leads(s, opened, K) /\ At(opened, K) /\ Declared(opened, result, "i1")
  BY <1>1, OpenedLeads
<1> HIDE DEF opened, result, left_label, right_label, end_label, and
<1>5. Leads(opened, left, K) /\ At(left, K) /\ (Sure(K) => Value(left, e.left))
  BY <1>4, LeadsReflexive, PartLeads DEF At
<1> HIDE DEF left
<1>6. Brings(left, left_bool, K, "i1")
  BY <1>2, <1>5, LogicalLeads DEF At
<1> HIDE DEF left_bool
<1>7. /\ Leads(opened, left_bool, K) /\ At(left_bool, K)
      /\ Sure(K) => Has(left_bool, left_bool.ret, "i1")
  BY <1>5, <1>6, LeadsTransitive, Onward DEF Brings, At
<1>8. Leads(left_bool, split, K)
  BY <1>1, <1>7, BranchLeads DEF At
<1> HIDE DEF split
<1>9. Leads(opened, split, K) /\ split \in Contexts
  BY <1>7, <1>8, LeadsTransitive DEF Leads
<1>10. Leads(split, a1, K)
  BY <1>1, <1>9, JumpLeads
<1> HIDE DEF a1
<1>11. Leads(opened, a1, K) /\ At(a1, K) /\ (K # {} => Declared(a1, result, "i1"))
  BY <1>4, <1>9, <1>10, LeadsTransitive, Onward
<1>12. Leads(a1, a2, K)
  BY <1>1, <1>11, StoreLeads, OperandsAreTyped DEF At
<1> HIDE DEF a2
<1>13. Leads(opened, a2, K) /\ a2 \in Contexts
  BY <1>11, <1>12, LeadsTransitive DEF Leads
<1>14. Leads(a2, short, K)
  BY <1>1, <1>13, JumpLeads
<1> HIDE DEF short
<1>15. Leads(opened, short, K) /\ short \in Contexts
  BY <1>13, <1>14, LeadsTransitive DEF Leads
<1>16. Leads(short, b0, K)
  BY <1>1, <1>15, JumpLeads
<1> HIDE DEF b0
<1>17. Leads(opened, b0, K)
  BY <1>15, <1>16, LeadsTransitive
<1>18. Leads(opened, right, K) /\ At(right, K) /\ (Sure(K) => Value(right, e.right))
  BY <1>4, <1>17, PartLeads
<1> HIDE DEF right
<1>19. Brings(right, right_bool, K, "i1")
  BY <1>2, <1>18, LogicalLeads DEF At
<1> HIDE DEF right_bool
<1>20. /\ Leads(opened, right_bool, K) /\ At(right_bool, K)
       /\ K # {} => Declared(right_bool, result, "i1")
       /\ Sure(K) => Has(right_bool, right_bool.ret, "i1")
  <2>1. Leads(opened, right_bool, K)
    BY <1>18, <1>19, LeadsTransitive DEF Brings
  <2> QED
    BY <1>4, <1>18, <1>19, <2>1, Onward DEF Brings, At
<1>21. Leads(right_bool, b1, K)
  <2>1. Register(right_bool.ret) \in IROperands
    BY <1>20, AtContext, OperandsAreIROperands
  <2> QED
    BY <1>1, <1>20, <2>1, StoreLeads, OperandsAreTyped DEF At
<1> HIDE DEF b1
<1>22. Leads(opened, b1, K) /\ b1 \in Contexts
  BY <1>20, <1>21, LeadsTransitive DEF Leads
<1>23. Leads(b1, b2, K)
  BY <1>1, <1>22, JumpLeads
<1> HIDE DEF b2
<1>24. Leads(opened, b2, K) /\ b2 \in Contexts
  BY <1>22, <1>23, LeadsTransitive DEF Leads
<1>25. Leads(b2, both, K)
  BY <1>1, <1>24, JumpLeads
<1> HIDE DEF both
<1>26. Leads(opened, both, K) /\ At(both, K) /\ (K # {} => Declared(both, result, "i1"))
  BY <1>4, <1>24, <1>25, LeadsTransitive, Onward
<1>27. Brings(both, loaded, K, "i1")
  BY <1>1, <1>26, LoadLeads DEF At
<1> HIDE DEF loaded
<1>28. Leads(opened, loaded, K) /\ At(loaded, K) /\ (Sure(K) => Has(loaded, loaded.ret, "i1"))
  BY <1>26, <1>27, LeadsTransitive, Onward DEF Brings, At
<1>29. Brings(loaded, t, K, "i32")
  BY <1>28, WidenedLeads DEF At
<1> HIDE DEF t
<1>30. Leads(opened, t, K) /\ (Sure(K) => Has(t, t.ret, "i32"))
  BY <1>28, <1>29, LeadsTransitive DEF Brings, At
<1>31. Leads(s, t, K)
  BY <1>4, <1>30, LeadsTransitive
<1> QED
  BY <1>0, <1>3, <1>30, <1>31, ValueOfRegister DEF Generates

LEMMA OpcodesAreOpcodes ==
    ASSUME NEW e, e.op \in Arithmetic \cup Comparisons
    PROVE  /\ e.op \in Comparisons => Predicate[e.op] \in Predicates
           /\ e.op \notin Comparisons =>
                Opcode[e.op] \in Computations /\ Opcode[e.op] \notin Predicates
  BY DEF Arithmetic, Comparisons, Predicate, Opcode, Predicates, Computations

\* A number taken after s and not used up to t is free in t.
LEMMA StillFree ==
    ASSUME NEW K \in Claimed, NEW s, At(s, K), NEW t, Leads(get_next_temp(s), t, K), K # {}
    PROVE  Fresh(s) \notin DOMAIN TypesIn(t)
<1> DEFINE u == get_next_temp(s)
           n == Fresh(s)
<1>1. s \in K /\ s.temp \in Int /\ n = s.temp + 1
  BY AtContext DEF At, Fresh
<1>2. u.temp = n /\ u.code = s.code /\ Leads(s, u, K)
  BY <1>1, CountContext, TempLeads DEF At
<1>3. n \notin DOMAIN TypesIn(u)
  <2>1. n \notin DOMAIN TypesIn(s)
    BY <1>1, NewRegister
  <2> QED
    BY <2>1, <1>2, KnownOfCode
<1> HIDE DEF u
<1>4. u \in K
  BY <1>1, <1>2 DEF Leads
<1>5. Keeps(u, t)
  BY <1>4 DEF Leads, u
<1>6. \A r \in DOMAIN TypesIn(t) \ DOMAIN TypesIn(u) : r > n
  BY <1>2, <1>5 DEF Keeps
<1> QED
  BY <1>1, <1>3, <1>6

LEMMA LiteralIsTyped ==
    ASSUME NEW s, NEW e, NEW v \in Int, NEW type, ~IsLiteral(e) => Has(s, v, type)
    PROVE  Typed(s, LiteralOr(e, v), type)
<1>1. CASE IsLiteral(e)
  BY <1>1, LiteralFields, OperandsAreTyped
<1>2. CASE ~IsLiteral(e)
  BY <1>2, LiteralFields, OperandsAreTyped
<1> QED
  BY <1>1, <1>2

LEMMA GenerateBinaryLeads ==
    ASSUME NEW K \in Claimed, NEW s, At(s, K), NEW e \in Expressions,
           e.kind = "AST_BINARY_OP", e.op \notin Logical, Sure(K) => GuessedRight(e),
           NEW of_left, Delivers(of_left, e.left, K),
           NEW of_right, Delivers(of_right, e.right, K)
    PROVE  Generates(s, GenerateBinary(s, e, of_left, of_right), e, K)
<1> DEFINE left == of_left[s]
           right == of_right[left]
           temp == Fresh(right)
           u == get_next_temp(right)
           left_i32 == Promoted(u, e.left, left.ret)
           right_i32 == Promoted(left_i32, e.right, right.ret)
           op == IF IsComparison(e) THEN Predicate[e.op] ELSE Opcode[e.op]
           i == Compute(op, temp, "i32", LiteralOr(e.left, left_i32.ret),
                        LiteralOr(e.right, right_i32.ret))
           v == Emit(right_i32, i)
           t == Returning(v, temp)
<1>0. GenerateBinary(s, e, of_left, of_right) = t
  BY DEF GenerateBinary
<1>1. e.op \in Arithmetic \cup Comparisons /\ e.left \in Expressions /\ e.right \in Expressions
  BY BinaryFields
<1>2. Sure(K) => Converts(e.left) /\ Converts(e.right)
  BY DEF GuessedRight
<1>3. op \in Computations \cup Predicates /\ ComputedType(op, "i32") = HeldAs(e)
  BY <1>1, OpcodesAreOpcodes DEF HeldAs, IsComparison, ComputedType
<1>4. Leads(s, s, K)
  BY LeadsReflexive DEF At
<1>5. Leads(s, left, K) /\ At(left, K) /\ (Sure(K) => Value(left, e.left))
  BY <1>4, PartLeads
<1> HIDE DEF left, op
<1>6. /\ Leads(s, right, K) /\ Leads(left, right, K) /\ At(right, K)
      /\ Sure(K) => Value(right, e.right)
  BY <1>5, LeadsReflexive, PartLeads DEF At
<1> HIDE DEF right
<1>7. right \in Contexts /\ right.temp \in Int /\ right.ret \in Int /\ left.ret \in Int
  BY <1>5, <1>6, AtContext
<1>8. /\ temp = right.temp + 1 /\ temp \in Int
      /\ Leads(right, u, K) /\ u.temp = temp /\ At(u, K)
  BY <1>6, <1>7, TempLeads, Onward DEF Fresh
<1> HIDE DEF temp
<1>9. Sure(K) => (HeldAs(e.left) # "none" => Has(u, left.ret, HeldAs(e.left)))
  BY <1>5, <1>6, <1>8, Onward DEF Value
<1>10. Sure(K) => (HeldAs(e.right) # "none" => Has(u, right.ret, HeldAs(e.right)))
  BY <1>6, <1>8, Onward DEF Value
<1>11. /\ Leads(u, left_i32, K)
       /\ Sure(K) /\ ~IsLiteral(e.left) => Has(left_i32, left_i32.ret, "i32")
  <2> HIDE DEF u
  <2> QED
    BY <1>1, <1>2, <1>7, <1>8, <1>9, PromotedLeads DEF At
<1> HIDE DEF left_i32
<1>12. At(left_i32, K) /\ left_i32.ret \in Int
  BY <1>8, <1>11, Onward, AtContext
<1>13. Sure(K) => (HeldAs(e.right) # "none" => Has(left_i32, right.ret, HeldAs(e.right)))
  BY <1>8, <1>10, <1>11, Onward
<1>14. /\ Leads(left_i32, right_i32, K)
       /\ Sure(K) /\ ~IsLiteral(e.right) => Has(right_i32, right_i32.ret, "i32")
  BY <1>1, <1>2, <1>7, <1>12, <1>13, PromotedLeads DEF At
<1> HIDE DEF right_i32
<1>15. /\ Leads(u, right_i32, K) /\ Leads(right, right_i32, K) /\ At(right_i32, K)
       /\ right_i32.ret \in Int
       /\ Sure(K) /\ ~IsLiteral(e.left) => Has(right_i32, left_i32.ret, "i32")
  <2>1. Leads(u, right_i32, K)
    BY <1>11, <1>14, LeadsTransitive
  <2>2. Leads(right, right_i32, K)
    BY <1>8, <2>1, LeadsTransitive
  <2> QED
    BY <2>1, <2>2, <1>11, <1>12, <1>14, Onward, AtContext
<1>16. LiteralOr(e.left, left_i32.ret) \in IROperands
       /\ LiteralOr(e.right, right_i32.ret) \in IROperands
  BY <1>12, <1>15, LiteralFields
<1>17. Sure(K) => /\ Typed(right_i32, LiteralOr(e.left, left_i32.ret), "i32")
                 /\ Typed(right_i32, LiteralOr(e.right, right_i32.ret), "i32")
  BY <1>12, <1>14, <1>15, LiteralIsTyped
<1>18. /\ i \in Instructions /\ i.to = temp /\ i.op # "alloca" /\ Defines(i)
       /\ Result(i) = HeldAs(e)
       /\ K # {} => Permits(right_i32, i, K)
  <2>1. "i32" \in ValueTypes
    BY DEF ValueTypes
  <2> QED
    BY <2>1, <1>3, <1>8, <1>16, <1>17, ComputeFields
<1> HIDE DEF i
<1>19. K # {} => temp \notin DOMAIN TypesIn(right_i32)
  BY <1>6, <1>15, StillFree DEF temp
<1>20. temp <= right_i32.temp /\ right.temp < temp
  BY <1>7, <1>8, <1>15 DEF Leads
<1>21. Leads(right, v, K) /\ Has(v, temp, HeldAs(e))
  BY <1>8, <1>15, <1>18, <1>19, <1>20, ReservedLeads DEF At
<1> HIDE DEF v
<1>22. v \in Contexts
  BY <1>21 DEF Leads
<1>23. Brings(v, t, K, HeldAs(e)) /\ t.ret = temp
  BY <1>8, <1>21, <1>22, BringsReturning, ReturningContext
<1> HIDE DEF t
<1>24. Leads(s, v, K) /\ At(v, K)
  BY <1>6, <1>21, LeadsTransitive, Onward
<1>25. Leads(s, t, K)
  BY <1>23, <1>24, LeadsTransitive DEF Brings
<1>26. Sure(K) => Has(t, t.ret, HeldAs(e))
  BY <1>23, <1>24 DEF Brings, At
<1> QED
  BY <1>0, <1>25, <1>26, ValueOfRegister DEF Generates

LEMMA GenerateUnaryLeads ==
    ASSUME NEW K \in Claimed, NEW s, At(s, K), NEW e \in Expressions,
           e.kind = "AST_UNARY_OP", e.op \notin Increments, Sure(K) => GuessedRight(e),
           NEW of_operand, Delivers(of_operand, e.operand, K)
    PROVE  Generates(s, GenerateUnary(s, e, of_operand), e, K)
<1> DEFINE operand == of_operand[s]
           from == NumberOr(e.operand, operand.ret)
           op == IF e.op = "OP_NEG" THEN "sub" ELSE IF e.op = "OP_NOT" THEN "eq" ELSE "xor"
           left == IF e.op = "OP_NEG" THEN Const(0) ELSE from
           right == IF e.op = "OP_NEG" THEN from
                    ELSE IF e.op = "OP_NOT" THEN Const(0) ELSE Const(-1)
           t == Defining(operand, Compute(op, Fresh(operand), "i32", left, right))
<1>1. e.op \in Signs
  BY UnaryFields
<1>2. GenerateUnary(s, e, of_operand) = t
  BY <1>1 DEF GenerateUnary, Signs
<1>3. Sure(K) => Signed0(e.operand)
  BY DEF GuessedRight
<1>4. op \in Computations \cup Predicates /\ ComputedType(op, "i32") = HeldAs(e)
  BY <1>1 DEF HeldAs, IsComparison, ComputedType, Signs, Computations, Predicates
<1>5. Leads(s, operand, K) /\ At(operand, K) /\ (Sure(K) => Value(operand, e.operand))
  BY LeadsReflexive, PartLeads DEF At
<1> HIDE DEF operand, op
<1>6. from \in IROperands /\ (Sure(K) => Typed(operand, from, "i32"))
  BY <1>3, <1>5, AtContext, LiteralFields, NumberIsTyped
<1>7. Const(0) \in IROperands /\ Const(-1) \in IROperands
      /\ Typed(operand, Const(0), "i32") /\ Typed(operand, Const(-1), "i32")
  BY OperandsAreIROperands, OperandsAreTyped
<1> HIDE DEF from
<1>8. /\ left \in IROperands /\ right \in IROperands
      /\ Sure(K) => Typed(operand, left, "i32") /\ Typed(operand, right, "i32")
  BY <1>6, <1>7
<1> HIDE DEF left, right
<1>9. Brings(operand, t, K, HeldAs(e))
  <2>1. "i32" \in ValueTypes
    BY DEF ValueTypes
  <2>2. operand \in Contexts
    BY <1>5 DEF At
  <2>3. Sure(K) => Typed(operand, left, "i32") /\ Typed(operand, right, "i32")
    BY <1>8
  <2> QED
    BY <2>1, <2>2, <2>3, <1>4, <1>8, ComputeLeads
<1> HIDE DEF t
<1>10. Leads(s, t, K) /\ (Sure(K) => Has(t, t.ret, HeldAs(e)))
  BY <1>5, <1>9, LeadsTransitive DEF Brings, At
<1> QED
  BY <1>2, <1>10, ValueOfRegister DEF Generates

LEMMA VariablesAreDeclared ==
    ASSUME NEW K \in Claimed, NEW s, At(s, K), NEW n \in Names
    PROVE  /\ Variable(n) \in Places /\ LLVM[Type[n]] \in ValueTypes
           /\ Type[n] \in CTypes /\ Type[n] # "void"
           /\ K # {} => Declared(s, Variable(n), LLVM[Type[n]])
<1>1. Type[n] \in CTypes /\ Type[n] # "void"
  BY DeclaredTypes DEF CTypes, VariableTypes
<1>2. K # {} => Tidy(s)
  BY ClaimedAreTidy DEF At
<1> QED
  BY <1>1, <1>2, PlacesArePlaces, LLVMTypes DEF Tidy

LEMMA GenerateIncrementLeads ==
    ASSUME NEW K \in Claimed, NEW s, At(s, K), NEW e \in Expressions,
           e.kind = "AST_UNARY_OP", e.op \in Increments
    PROVE  Generates(s, GenerateIncrement(s, e), e, K)
<1> DEFINE n == e.operand.name
           type == LLVM[Type[n]]
           old == s.temp + 1
           new == s.temp + 2
           op == IF e.op \in {"OP_PREINC", "OP_POSTINC"} THEN "add" ELSE "sub"
           u1 == get_next_temp(s)
           u == get_next_temp(u1)
           i == Load(old, type, Variable(n))
           loaded == Emit(u, i)
           j == Compute(op, new, type, Register(old), Const(1))
           added == Emit(loaded, j)
           stored == Emit(added, Store(type, Register(new), Variable(n)))
           v == IF e.op \in {"OP_PREINC", "OP_PREDEC"} THEN new ELSE old
           t == Returning(stored, v)
<1>0. GenerateIncrement(s, e) = t
  BY DEF GenerateIncrement
<1>1. n \in Names
  <2>1. e.operand \in Expressions /\ e.operand.kind = "AST_IDENTIFIER"
    BY UnaryFields
  <2> QED
    BY <2>1, LeafFields
<1>2. HeldAs(e) = type
  BY DEF HeldAs, IsComparison
<1>3. /\ s \in Contexts /\ s.temp \in Int /\ old \in Int /\ new \in Int /\ v \in Int
      /\ s.temp < old /\ s.temp < new /\ old # new /\ old <= new
  BY AtContext
<1>4. Variable(n) \in Places /\ type \in ValueTypes
  BY <1>1, VariablesAreDeclared
<1>5. Leads(s, u1, K) /\ u1 \in Contexts /\ u1.temp = old /\ u1.code = s.code
  BY <1>3, TempLeads, CountContext
<1>6. Leads(s, u, K) /\ u.temp = new /\ u.code = s.code /\ At(u, K)
  <2> HIDE DEF u1
  <2>1. Leads(u1, u, K) /\ u.temp = (s.temp + 1) + 1 /\ u.code = s.code
    BY <1>5, TempLeads, CountContext
  <2> HIDE DEF u
  <2>2. u.temp = new
    BY <1>3, <2>1
  <2>3. Leads(s, u, K)
    BY <1>5, <2>1, LeadsTransitive
  <2> QED
    BY <2>1, <2>2, <2>3, Onward
<1> HIDE DEF u
<1>7. TypesIn(u) = TypesIn(s)
  BY <1>6, KnownOfCode
<1>8. K # {} => old \notin DOMAIN TypesIn(u) /\ new \notin DOMAIN TypesIn(u)
  BY <1>3, <1>7, NewRegister DEF At
<1>9. K # {} => Declared(u, Variable(n), type)
  BY <1>1, <1>6, VariablesAreDeclared
<1> HIDE DEF type
<1>10. /\ i \in Instructions /\ i.to = old /\ i.op # "alloca" /\ Defines(i)
       /\ Result(i) = type /\ (K # {} => Permits(u, i, K))
  BY <1>3, <1>4, <1>9, LoadFields
<1> HIDE DEF i
<1>11. /\ Leads(s, loaded, K) /\ loaded.temp = new /\ Has(loaded, old, type)
  <2>1. s \in K => Permits(u, i, K) /\ i.to \notin DOMAIN TypesIn(u)
    BY <1>8, <1>10
  <2>2. i.to \in Int /\ s.temp < i.to /\ i.to <= u.temp
    BY <1>3, <1>6, <1>10
  <2> QED
    BY <1>6, <1>10, <2>1, <2>2, ReservedLeads
<1>12. K # {} => new \notin DOMAIN TypesIn(loaded)
  <2>1. u \in Contexts
    BY <1>6 DEF At
  <2>2. TypesIn(loaded) = Given(TypesIn(u), old, type)
    BY <2>1, <1>10, KnownOfEmitted
  <2> QED
    BY <2>2, <1>3, <1>8 DEF Given
<1> HIDE DEF loaded
<1>13. /\ j \in Instructions /\ j.to = new /\ j.op # "alloca" /\ Defines(j)
       /\ Result(j) = type /\ Permits(loaded, j, K)
  <2>1. op \in Computations \cup Predicates /\ ComputedType(op, type) = type
    BY DEF Computations, Predicates, ComputedType
  <2> HIDE DEF op
  <2>2. Register(old) \in IROperands /\ Const(1) \in IROperands
    BY <1>3, OperandsAreIROperands
  <2>3. Typed(loaded, Register(old), type) /\ Typed(loaded, Const(1), type)
    BY <1>11, OperandsAreTyped
  <2> QED
    BY <1>3, <1>4, <2>1, <2>2, <2>3, ComputeFields
<1> HIDE DEF j
<1>14. /\ Leads(s, added, K) /\ Has(added, new, type) /\ Has(added, old, type)
  <2>1. s \in K => Permits(loaded, j, K) /\ j.to \notin DOMAIN TypesIn(loaded)
    BY <1>12, <1>13
  <2>2. j.to \in Int /\ s.temp < j.to /\ j.to <= loaded.temp
    BY <1>3, <1>11, <1>13
  <2> HIDE DEF old, new
  <2> QED
    BY <1>3, <1>11, <1>13, <2>1, <2>2, ReservedLeads
<1> HIDE DEF added
<1>15. At(added, K)
  BY <1>14, Onward
<1>16. K # {} => Declared(added, Variable(n), type)
  BY <1>1, <1>15, VariablesAreDeclared DEF type
<1> HIDE DEF old, new, n
<1>17. Leads(added, stored, K)
  <2>1. Register(new) \in IROperands /\ Typed(added, Register(new), type)
    BY <1>3, <1>14, OperandsAreIROperands, OperandsAreTyped
  <2> QED
    BY <1>4, <1>15, <1>16, <2>1, StoreLeads DEF At
<1>18. Leads(s, stored, K)
  BY <1>14, <1>17, LeadsTransitive
<1>19. Sure(K) => Has(stored, v, type)
  BY <1>14, <1>15, <1>17, Onward
<1> HIDE DEF stored, v
<1>20. At(stored, K)
  BY <1>18, Onward
<1>21. Brings(stored, t, K, type)
  BY <1>3, <1>19, <1>20, BringsReturning DEF At
<1> HIDE DEF t
<1>22. Leads(s, t, K) /\ (Sure(K) => Has(t, t.ret, type))
  BY <1>18, <1>20, <1>21, LeadsTransitive DEF Brings, At
<1> QED
  BY <1>0, <1>2, <1>22, ValueOfRegister DEF Generates

LEMMA GenerateConditionalLeads ==
    ASSUME NEW K \in Claimed, NEW s, At(s, K), NEW e \in Expressions,
           e.kind = "AST_CONDITIONAL", Sure(K) => GuessedRight(e),
           NEW of_condition, Delivers(of_condition, e.condition, K),
           NEW of_true, Delivers(of_true, e.true_expr, K),
           NEW of_false, Delivers(of_false, e.false_expr, K)
    PROVE  Generates(s, GenerateConditional(s, e, of_condition, of_true, of_false), e, K)
<1> DEFINE true_label == s.label + 1
           false_label == s.label + 2
           end_label == s.label + 3
           result == Slot(Fresh(s))
           type == usual_arithmetic_conversions(get_expression_type[e.true_expr],
                                                get_expression_type[e.false_expr])
           opened == Emit(get_next_temp(generate_label(generate_label(generate_label(s)))),
                          Alloca(LLVM[type], result))
           tested == of_condition[opened]
           condition == convert_to_boolean(tested, e.condition)
           branched == BranchOn(condition, true_label, false_label)
           split == Emit(branched, Label(true_label))
           yes == of_true[split]
           stored_yes == Stored(yes, e.true_expr, type, result)
           a1 == Emit(stored_yes, Jump(end_label))
           other == Emit(a1, Label(false_label))
           no == of_false[other]
           stored_no == Stored(no, e.false_expr, type, result)
           b1 == Emit(stored_no, Jump(end_label))
           end == Emit(b1, Label(end_label))
           t == Defining(end, Load(Fresh(end), LLVM[type], result))
<1>0. GenerateConditional(s, e, of_condition, of_true, of_false) = t
  BY DEF GenerateConditional
<1>1. /\ true_label \in Int /\ false_label \in Int /\ end_label \in Int
      /\ result \in Places
  <2>1. s.label \in Int /\ Fresh(s) \in Int
    BY AtContext DEF Fresh
  <2> QED
    BY <2>1, PlacesArePlaces
<1>2. type \in CTypes /\ type # "void" /\ LLVM[type] \in ValueTypes
  <2>1. type \in CTypes /\ type # "void"
    BY DEF usual_arithmetic_conversions, CTypes, VariableTypes
  <2> QED
    BY <2>1, LLVMTypes
<1>3. /\ e.true_expr \in Expressions /\ e.false_expr \in Expressions
      /\ Sure(K) => Tests0(e.condition) /\ Converts(e.true_expr) /\ Converts(e.false_expr)
  BY OtherFields DEF GuessedRight
<1>4. HeldAs(e) = LLVM[type]
  BY DEF HeldAs, IsComparison
<1> HIDE DEF type
<1>5. Leads(s, opened, K) /\ At(opened, K) /\ Declared(opened, result, LLVM[type])
  BY <1>2, OpenedLeads
<1> HIDE DEF opened, result, true_label, false_label, end_label
<1>6. Leads(opened, tested, K) /\ At(tested, K) /\ (Sure(K) => Value(tested, e.condition))
  BY <1>5, LeadsReflexive, PartLeads DEF At
<1> HIDE DEF tested
<1>7. Brings(tested, condition, K, "i1")
  BY <1>3, <1>6, BooleanLeads DEF At
<1> HIDE DEF condition
<1>8. /\ Leads(opened, condition, K) /\ At(condition, K)
      /\ Sure(K) => Has(condition, condition.ret, "i1")
  BY <1>6, <1>7, LeadsTransitive, Onward DEF Brings, At
<1>9. Leads(condition, branched, K)
  BY <1>1, <1>8, BranchLeads DEF At
<1> HIDE DEF branched
<1>10. Leads(opened, branched, K) /\ branched \in Contexts
  BY <1>8, <1>9, LeadsTransitive DEF Leads
<1>11. Leads(branched, split, K)
  BY <1>1, <1>10, JumpLeads
<1> HIDE DEF split
<1>12. Leads(opened, split, K)
  BY <1>10, <1>11, LeadsTransitive
<1>13. Leads(opened, yes, K) /\ At(yes, K) /\ (Sure(K) => Value(yes, e.true_expr))
  BY <1>5, <1>12, PartLeads
<1> HIDE DEF yes
<1>14. K # {} => Declared(yes, result, LLVM[type])
  BY <1>5, <1>13, Onward
<1>15. Leads(yes, stored_yes, K)
  BY <1>1, <1>2, <1>3, <1>13, <1>14, StoredLeads DEF At
<1> HIDE DEF stored_yes
<1>16. Leads(opened, stored_yes, K) /\ stored_yes \in Contexts
  BY <1>13, <1>15, LeadsTransitive DEF Leads
<1>17. Leads(stored_yes, a1, K)
  BY <1>1, <1>16, JumpLeads
<1> HIDE DEF a1
<1>18. Leads(opened, a1, K) /\ a1 \in Contexts
  BY <1>16, <1>17, LeadsTransitive DEF Leads
<1>19. Leads(a1, other, K)
  BY <1>1, <1>18, JumpLeads
<1> HIDE DEF other
<1>20. Leads(opened, other, K)
  BY <1>18, <1>19, LeadsTransitive
<1>21. Leads(opened, no, K) /\ At(no, K) /\ (Sure(K) => Value(no, e.false_expr))
  BY <1>5, <1>20, PartLeads
<1> HIDE DEF no
<1>22. K # {} => Declared(no, result, LLVM[type])
  BY <1>5, <1>21, Onward
<1>23. Leads(no, stored_no, K)
  BY <1>1, <1>2, <1>3, <1>21, <1>22, StoredLeads DEF At
<1> HIDE DEF stored_no
<1>24. Leads(opened, stored_no, K) /\ stored_no \in Contexts
  BY <1>21, <1>23, LeadsTransitive DEF Leads
<1>25. Leads(stored_no, b1, K)
  BY <1>1, <1>24, JumpLeads
<1> HIDE DEF b1
<1>26. Leads(opened, b1, K) /\ b1 \in Contexts
  BY <1>24, <1>25, LeadsTransitive DEF Leads
<1>27. Leads(b1, end, K)
  BY <1>1, <1>26, JumpLeads
<1> HIDE DEF end
<1>28. Leads(opened, end, K) /\ At(end, K) /\ (K # {} => Declared(end, result, LLVM[type]))
  BY <1>5, <1>26, <1>27, LeadsTransitive, Onward
<1>29. Brings(end, t, K, LLVM[type])
  BY <1>1, <1>2, <1>28, LoadLeads DEF At
<1> HIDE DEF t
<1>30. Leads(opened, t, K) /\ (Sure(K) => Has(t, t.ret, LLVM[type]))
  BY <1>28, <1>29, LeadsTransitive DEF Brings, At
<1>31. Leads(s, t, K)
  BY <1>5, <1>30, LeadsTransitive
<1> QED
  BY <1>0, <1>4, <1>30, <1>31, ValueOfRegister DEF Generates

LEMMA GenerateAssignmentLeads ==
    ASSUME NEW K \in Claimed, NEW s, At(s, K), NEW e \in Expressions,
           e.kind = "AST_ASSIGNMENT", Sure(K) => GuessedRight(e),
           NEW of_value, Delivers(of_value, e.value, K)
    PROVE  Generates(s, GenerateAssignment(s, e, of_value), e, K)
<1> DEFINE v == of_value[s]
<1>1. Leads(s, v, K) /\ At(v, K) /\ (Sure(K) => Value(v, e.value))
  BY LeadsReflexive, PartLeads DEF At
<1>2. e.name \in Names /\ e.value \in Expressions
  BY OtherFields
<1>3. CASE e.op = "OP_ASSIGN"
  <2> DEFINE t == Stored(v, e.value, Type[e.name], Variable(e.name))
  <2>1. GenerateAssignment(s, e, of_value) = t
    BY <1>3 DEF GenerateAssignment
  <2>2. Sure(K) => Converts(e.value)
    BY <1>3 DEF GuessedRight
  <2> HIDE DEF v
  <2>3. /\ Variable(e.name) \in Places
        /\ Type[e.name] \in CTypes /\ Type[e.name] # "void"
        /\ K # {} => Declared(v, Variable(e.name), LLVM[Type[e.name]])
    BY <1>1, <1>2, VariablesAreDeclared
  <2>4. /\ Leads(v, t, K)
        /\ Sure(K) /\ ~IsLiteral(e.value) => Has(t, t.ret, LLVM[Type[e.name]])
    BY <1>1, <1>2, <2>2, <2>3, StoredLeads DEF At
  <2> HIDE DEF t
  <2>5. Leads(s, t, K)
    BY <1>1, <2>4, LeadsTransitive
  <2>6. HeldAs(e) = IF ~IsLiteral(e.value) THEN LLVM[Type[e.name]] ELSE "none"
    BY <1>3 DEF HeldAs, IsComparison
  <2>7. Sure(K) => Value(t, e)
    BY <2>4, <2>6 DEF Value
  <2> QED
    BY <2>1, <2>5, <2>7 DEF Generates
<1>4. CASE e.op # "OP_ASSIGN"
  <2> DEFINE t == Returning(v, -1)
  <2>1. GenerateAssignment(s, e, of_value) = t
    BY <1>4 DEF GenerateAssignment
  <2>2. HeldAs(e) = "none"
    BY <1>4 DEF HeldAs, IsComparison
  <2> HIDE DEF v
  <2>3. Leads(v, t, K)
    BY <1>1, ReturningLeads DEF At
  <2> HIDE DEF t
  <2> QED
    BY <1>1, <2>1, <2>2, <2>3, LeadsTransitive DEF Generates, Value
<1> QED
  BY <1>3, <1>4

LEMMA SendFields ==
    ASSUME NEW to \in Int, NEW type \in IRTypes, NEW f \in FunctionNames,
           NEW args \in Seq(IRTypes \X IROperands)
    PROVE  /\ Send(to, type, f, args) \in Instructions
           /\ Send(to, type, f, args).to = to
           /\ Send(to, type, f, args).op # "alloca"
           /\ Defines(Send(to, type, f, args)) <=> type # "void"
           /\ Result(Send(to, type, f, args)) = type
           /\ \A s, K : (Sure(K) => Suits(s, f, args)) => Permits(s, Send(to, type, f, args), K)
<1> DEFINE i == Send(to, type, f, args)
<1>1. i \in Instructions
  BY SendIsInstruction
<1>2. i.op = "call" /\ i.to = to /\ i.type = type /\ i.name = f /\ i.args = args
  BY DEF Send
<1> HIDE DEF i
<1>3. Defines(i) <=> type # "void"
  BY <1>2 DEF Defines, Computations, Predicates
<1>4. Result(i) = type
  BY <1>2 DEF Result, Predicates
<1>5. Uses(i) = ToSet(args)
  BY <1>2 DEF Uses, Computations, Predicates
<1>6. ASSUME NEW s, NEW K, Sure(K) => Suits(s, f, args) PROVE Permits(s, i, K)
  <2>1. Sure(K) => \A use \in Uses(i) : Typed(s, use[2], use[1])
    BY <1>5, <1>6 DEF ToSet, Suits
  <2> QED
    BY <1>2, <1>6, <2>1 DEF Permits, Allowed, Suits
<1> QED
  BY <1>1, <1>2, <1>3, <1>4, <1>6 DEF i

LEMMA InTurnUnfolds ==
    ASSUME NEW S, NEW s \in S, NEW n \in Nat, NEW of_args,
           \A i \in 1 .. n : of_args[i] \in [S -> S]
    PROVE  /\ InTurn(s, n, of_args) \in [0 .. n -> S]
           /\ InTurn(s, n, of_args)[0] = s
           /\ \A i \in 1 .. n : InTurn(s, n, of_args)[i]
                                  = of_args[i][InTurn(s, n, of_args)[i - 1]]
<1> DEFINE G == [x \in (0 + 1 .. n) \X S |-> of_args[x[1]][x[2]]]
           P(f) == f = [i \in 0 .. n |-> IF i = 0 THEN s ELSE of_args[i][f[i - 1]]]
<1>1. G \in [(0 + 1 .. n) \X S -> S]
  <2>1. ASSUME NEW x \in (0 + 1 .. n) \X S PROVE of_args[x[1]][x[2]] \in S
    <3>1. x[1] \in 1 .. n /\ x[2] \in S
      OBVIOUS
    <3>2. of_args[x[1]] \in [S -> S]
      BY <3>1
    <3> QED
      BY <3>1, <3>2
  <2> QED
    BY <2>1
<1>2. \A i \in 1 .. n : \A u \in S : G[<<i, u>>] = of_args[i][u]
  OBVIOUS
<1> HIDE DEF G
<1>3. 0 \in Nat /\ 0 <= n
  OBVIOUS
<1>4. PICK f \in [0 .. n -> S] : Follows(f, 0, n, s, G)
  BY <1>1, <1>3, Recursion
<1>5. ASSUME NEW i \in 0 .. n
      PROVE  f[i] = IF i = 0 THEN s ELSE of_args[i][f[i - 1]]
  <2>1. f[i] = IF i = 0 THEN s ELSE G[<<i, f[i - 1]>>]
    BY <1>4 DEF Follows
  <2>2. i # 0 => i \in 1 .. n /\ i - 1 \in 0 .. n
    OBVIOUS
  <2> QED
    BY <1>2, <2>1, <2>2
<1>6. f = [i \in 0 .. n |-> f[i]]
  OBVIOUS
<1>7. P(f)
  BY <1>5, <1>6
<1>8. InTurn(s, n, of_args) = CHOOSE g : P(g)
  BY Zenon DEF InTurn
<1> DEFINE a == InTurn(s, n, of_args)
<1> HIDE DEF P
<1>9. P(a)
  BY <1>7, <1>8, Zenon
<1> HIDE DEF a
<1>10. \A i \in 0 .. n : a[i] = IF i = 0 THEN s ELSE of_args[i][a[i - 1]]
  BY <1>9 DEF P
<1>11. a[0] = s /\ \A i \in 1 .. n : a[i] = of_args[i][a[i - 1]]
  BY <1>10
<1> DEFINE T == {i \in 0 .. n : a[i] \in S}
<1>12. T = 0 .. n
  <2>1. T \in SUBSET (0 .. n) /\ 0 \in T
    BY <1>11
  <2>2. ASSUME NEW i \in 0 + 1 .. n, i - 1 \in T PROVE i \in T
    <3>1. i \in 1 .. n /\ i \in 0 .. n /\ a[i - 1] \in S
      BY <2>2
    <3>2. of_args[i] \in [S -> S]
      BY <3>1
    <3> QED
      BY <3>1, <3>2, <1>11
  <2> HIDE DEF T
  <2> QED
    BY <1>3, <2>1, <2>2, Stretch
<1>13. a = [i \in 0 .. n |-> a[i]]
  <2>1. DOMAIN a = 0 .. n
    BY <1>9 DEF P
  <2>2. a = [i \in 0 .. n |-> IF i = 0 THEN s ELSE of_args[i][a[i - 1]]]
    BY <1>9 DEF P
  <2> QED
    BY <2>2
<1>14. a \in [0 .. n -> S]
  BY <1>12, <1>13
<1> QED
  BY <1>11, <1>14 DEF a

LEMMA ArgumentsLead ==
    ASSUME NEW K \in Claimed, NEW s, At(s, K), NEW n \in Nat, NEW args, NEW of_args,
           NEW a, Generating(s, a, n, args, of_args, K)
    PROVE  Leads(s, a[n], K) /\ AllHeld(a[n], a, n, args, K)
<1>0. /\ \A i \in 1 .. n : Delivers(of_args[i], args[i], K)
      /\ a \in [0 .. n -> Contexts] /\ a[0] = s
      /\ \A i \in 1 .. n : a[i] = of_args[i][a[i - 1]]
  BY DEF Generating
<1> DEFINE Kept(i) == \A j \in 1 .. i :
                 Sure(K) /\ HeldAs(args[j]) # "none" => Has(a[i], a[j].ret, HeldAs(args[j]))
           T == {i \in 0 .. n : Leads(s, a[i], K) /\ Kept(i)}
<1>1. 0 \in T
  <2>1. Leads(s, a[0], K)
    BY <1>0, LeadsReflexive DEF At
  <2>2. Kept(0)
    OBVIOUS
  <2> HIDE DEF Kept
  <2> QED
    BY <2>1, <2>2
<1>2. ASSUME NEW i \in 0 + 1 .. n, i - 1 \in T PROVE i \in T
  <2>1. i \in 1 .. n /\ i - 1 \in 0 .. n /\ i \in 0 .. n
    OBVIOUS
  <2>2. Leads(s, a[i - 1], K) /\ Kept(i - 1)
    BY <1>2
  <2>3. a[i] = of_args[i][a[i - 1]] /\ Delivers(of_args[i], args[i], K)
    BY <1>0, <2>1
  <2>4. /\ Leads(s, a[i], K) /\ Leads(a[i - 1], a[i], K)
        /\ Sure(K) => Value(a[i], args[i])
    <3>1. /\ Leads(s, of_args[i][a[i - 1]], K) /\ Leads(a[i - 1], of_args[i][a[i - 1]], K)
          /\ Sure(K) => Value(of_args[i][a[i - 1]], args[i])
      BY <2>2, <2>3, PartLeads
    <3> QED
      BY <2>3, <3>1
  <2>5. At(a[i - 1], K)
    BY <2>2, Onward
  <2>6. ASSUME NEW j \in 1 .. i, Sure(K), HeldAs(args[j]) # "none"
        PROVE  Has(a[i], a[j].ret, HeldAs(args[j]))
    <3>1. CASE j = i
      BY <2>4, <2>6, <3>1 DEF Value
    <3>2. CASE j # i
      <4>1. j \in 1 .. (i - 1)
        BY <2>1, <3>2
      <4>2. Has(a[i - 1], a[j].ret, HeldAs(args[j]))
        BY <2>2, <2>6, <4>1
      <4> QED
        BY <2>4, <2>5, <2>6, <4>2, Onward
    <3> QED
      BY <3>1, <3>2
  <2> QED
    BY <2>1, <2>4, <2>6
<1>3. T \in SUBSET (0 .. n)
  OBVIOUS
<1> HIDE DEF T
<1>4. T = 0 .. n
  <2>1. 0 \in Nat
    OBVIOUS
  <2> QED
    BY <1>1, <1>2, <1>3, <2>1, Stretch
<1>5. n \in T
  BY <1>4
<1> QED
  BY <1>5 DEF T, AllHeld

LEMMA PassingLeads ==
    ASSUME NEW K \in Claimed, NEW s \in Contexts, NEW a \in Expressions, NEW param,
           NEW v \in Int,
           Sure(K) /\ s \in K => Converts(a) /\ (HeldAs(a) # "none" => Has(s, v, HeldAs(a)))
    PROVE  /\ Leads(s, Passing(s, a, param, v), K)
           /\ Sure(K) /\ s \in K /\ ~IsLiteral(a)
              => Has(Passing(s, a, param, v), Passing(s, a, param, v).ret, PassedAs(a, param))
<1>1. Sure(K) /\ s \in K /\ ~IsLiteral(a) => Has(s, v, LLVM[get_expression_type[a]])
  BY ConvertedIsHeld
<1>2. CASE Widens(a, param) /\ ~IsLiteral(a)
  <2>1. "i32" \in IRTypes /\ "i64" \in ValueTypes
    BY DEF IRTypes, ValueTypes
  <2>2. Sure(K) /\ s \in K => Has(s, v, "i32")
    BY <1>1, <1>2 DEF Widens
  <2>3. Brings(s, Defining(s, Convert("zext", Fresh(s), "i32", Register(v), "i64")), K, "i64")
    BY <2>1, <2>2, ConvertLeads
  <2> QED
    BY <1>2, <2>3 DEF Passing, PassedAs, Brings
<1>3. CASE ~(Widens(a, param) /\ ~IsLiteral(a))
  <2> DEFINE t == Returning(s, v)
  <2>1. Passing(s, a, param, v) = t
    BY <1>3 DEF Passing
  <2>2. Leads(s, t, K) /\ t.ret = v
    BY ReturningLeads
  <2> HIDE DEF t
  <2>3. Sure(K) /\ s \in K /\ ~IsLiteral(a) => Has(t, t.ret, LLVM[get_expression_type[a]])
    BY <1>1, <2>2, StillHas
  <2> QED
    BY <1>3, <2>1, <2>2, <2>3 DEF PassedAs
<1> QED
  BY <1>2, <1>3

LEMMA ArgumentsPassedUnfolds ==
    ASSUME NEW n \in Nat, NEW after \in [0 .. n -> Contexts], NEW args, NEW params,
           \A i \in 1 .. n : args[i] \in Expressions
    PROVE  /\ ArgumentsPassed(after, n, args, params) \in [0 .. n -> Contexts]
           /\ ArgumentsPassed(after, n, args, params)[0] = after[n]
           /\ \A i \in 1 .. n :
                 ArgumentsPassed(after, n, args, params)[i]
                   = Passing(ArgumentsPassed(after, n, args, params)[i - 1], args[i],
                             params[i], after[i].ret)
<1> DEFINE Onto(t, i) == Passing(t, args[i], params[i], after[i].ret)
           G == [x \in (0 + 1 .. n) \X Contexts |-> Onto(x[2], x[1])]
           P(f) == f = [i \in 0 .. n |->
                           IF i = 0 THEN after[n]
                           ELSE Passing(f[i - 1], args[i], params[i], after[i].ret)]
<1>1. ASSUME NEW i \in 1 .. n, NEW t \in Contexts PROVE Onto(t, i) \in Contexts
  <2>1. {} \in Claimed
    BY DEF Claimed
  <2>2. args[i] \in Expressions /\ after[i].ret \in Int
    BY ContextFields
  <2>3. Leads(t, Onto(t, i), {})
    BY <2>1, <2>2, PassingLeads
  <2> QED
    BY <2>3 DEF Leads
<1> HIDE DEF Onto
<1>2. G \in [(0 + 1 .. n) \X Contexts -> Contexts]
  <2>1. ASSUME NEW x \in (0 + 1 .. n) \X Contexts PROVE Onto(x[2], x[1]) \in Contexts
    <3>1. x[1] \in 1 .. n /\ x[2] \in Contexts
      OBVIOUS
    <3> QED
      BY <1>1, <3>1
  <2> QED
    BY <2>1
<1>3. \A i \in 1 .. n : \A t \in Contexts : G[<<i, t>>] = Onto(t, i)
  OBVIOUS
<1> HIDE DEF G
<1>4. 0 \in Nat /\ 0 <= n /\ after[n] \in Contexts
  OBVIOUS
<1>5. PICK f \in [0 .. n -> Contexts] : Follows(f, 0, n, after[n], G)
  BY <1>2, <1>4, Recursion
<1>6. ASSUME NEW i \in 0 .. n
      PROVE  f[i] = IF i = 0 THEN after[n] ELSE Onto(f[i - 1], i)
  <2>1. f[i] = IF i = 0 THEN after[n] ELSE G[<<i, f[i - 1]>>]
    BY <1>5 DEF Follows
  <2>2. i # 0 => i \in 1 .. n /\ i - 1 \in 0 .. n
    OBVIOUS
  <2> QED
    BY <1>3, <2>1, <2>2
<1>7. f = [i \in 0 .. n |-> f[i]]
  OBVIOUS
<1>8. P(f)
  BY <1>6, <1>7 DEF Onto
<1>9. ArgumentsPassed(after, n, args, params) = CHOOSE g : P(g)
  BY Zenon DEF ArgumentsPassed
<1> DEFINE a == ArgumentsPassed(after, n, args, params)
<1> HIDE DEF P
<1>10. P(a)
  BY <1>8, <1>9, Zenon
<1> HIDE DEF a
<1>11. \A i \in 0 .. n : a[i] = IF i = 0 THEN after[n] ELSE Onto(a[i - 1], i)
  BY <1>10 DEF P, Onto
<1>12. a[0] = after[n] /\ \A i \in 1 .. n : a[i] = Onto(a[i - 1], i)
  BY <1>11
<1> DEFINE T == {i \in 0 .. n : a[i] \in Contexts}
<1>13. T = 0 .. n
  <2>1. T \in SUBSET (0 .. n) /\ 0 \in T
    BY <1>12, <1>4
  <2>2. ASSUME NEW i \in 0 + 1 .. n, i - 1 \in T PROVE i \in T
    <3>1. i \in 1 .. n /\ i \in 0 .. n /\ a[i - 1] \in Contexts
      BY <2>2
    <3> QED
      BY <3>1, <1>1, <1>12
  <2> HIDE DEF T
  <2> QED
    BY <1>4, <2>1, <2>2, Stretch
<1>14. a = [i \in 0 .. n |-> a[i]]
  <2>1. a = [i \in 0 .. n |-> IF i = 0 THEN after[n]
                               ELSE Passing(a[i - 1], args[i], params[i], after[i].ret)]
    BY <1>10 DEF P
  <2> QED
    BY <2>1
<1>15. a \in [0 .. n -> Contexts]
  BY <1>13, <1>14
<1> QED
  BY <1>12, <1>15 DEF a, Onto

LEMMA PassedLead ==
    ASSUME NEW K \in Claimed, NEW n \in Nat, NEW after, At(after[n], K), NEW args,
           NEW params, NEW p, PassingAll(after, p, n, args, params, K),
           AllHeld(after[n], after, n, args, K)
    PROVE  Leads(after[n], p[n], K) /\ AllPassed(p[n], p, n, args, params, K)
<1>0. /\ after \in [0 .. n -> Contexts]
      /\ \A i \in 1 .. n : args[i] \in Expressions /\ (Sure(K) => Converts(args[i]))
      /\ p \in [0 .. n -> Contexts] /\ p[0] = after[n]
      /\ \A i \in 1 .. n : p[i] = Passing(p[i - 1], args[i], params[i], after[i].ret)
      /\ \A j \in 1 .. n : Sure(K) /\ HeldAs(args[j]) # "none"
                            => Has(after[n], after[j].ret, HeldAs(args[j]))
  BY DEF PassingAll, AllHeld
<1> DEFINE s == after[n]
           Kept(i) == \A j \in 1 .. i :
                 Sure(K) /\ ~IsLiteral(args[j])
                 => Has(p[i], p[j].ret, PassedAs(args[j], params[j]))
           T == {i \in 0 .. n : Leads(s, p[i], K) /\ Kept(i)}
<1>1. 0 \in T
  <2>1. Leads(s, p[0], K)
    BY <1>0, LeadsReflexive DEF At
  <2>2. Kept(0)
    OBVIOUS
  <2> HIDE DEF Kept
  <2> QED
    BY <2>1, <2>2
<1>2. ASSUME NEW i \in 0 + 1 .. n, i - 1 \in T PROVE i \in T
  <2>1. i \in 1 .. n /\ i - 1 \in 0 .. n /\ i \in 0 .. n
    OBVIOUS
  <2>2. Leads(s, p[i - 1], K) /\ Kept(i - 1)
    BY <1>2
  <2>3. At(p[i - 1], K)
    BY <2>2, Onward
  <2>4. Sure(K) => (HeldAs(args[i]) # "none" => Has(p[i - 1], after[i].ret, HeldAs(args[i])))
    BY <1>0, <2>1, <2>2, Onward
  <2>5. /\ Leads(p[i - 1], p[i], K)
        /\ Sure(K) /\ ~IsLiteral(args[i])
           => Has(p[i], p[i].ret, PassedAs(args[i], params[i]))
    <3> DEFINE q == Passing(p[i - 1], args[i], params[i], after[i].ret)
    <3>1. p[i] = q
      BY <1>0, <2>1
    <3>2. after[i].ret \in Int /\ args[i] \in Expressions /\ (Sure(K) => Converts(args[i]))
      BY <1>0, <2>1, ContextFields
    <3>3. /\ Leads(p[i - 1], q, K)
          /\ Sure(K) /\ p[i - 1] \in K /\ ~IsLiteral(args[i])
             => Has(q, q.ret, PassedAs(args[i], params[i]))
      <4>1. p[i - 1] \in Contexts
        BY <2>3 DEF At
      <4>2. Sure(K) => /\ Converts(args[i])
                       /\ HeldAs(args[i]) # "none"
                          => Has(p[i - 1], after[i].ret, HeldAs(args[i]))
        BY <2>4, <3>2
      <4> QED
        BY <3>2, <4>1, <4>2, PassingLeads
    <3> QED
      BY <2>3, <3>1, <3>3 DEF At
  <2>6. Leads(s, p[i], K)
    BY <2>2, <2>5, LeadsTransitive
  <2>7. ASSUME NEW j \in 1 .. i, Sure(K), ~IsLiteral(args[j])
        PROVE  Has(p[i], p[j].ret, PassedAs(args[j], params[j]))
    <3>1. CASE j = i
      BY <2>5, <2>7, <3>1
    <3>2. CASE j # i
      <4>1. j \in 1 .. (i - 1)
        BY <2>1, <3>2
      <4>2. Has(p[i - 1], p[j].ret, PassedAs(args[j], params[j]))
        BY <2>2, <2>7, <4>1
      <4> QED
        BY <2>3, <2>5, <2>7, <4>2, Onward
    <3> QED
      BY <3>1, <3>2
  <2> QED
    BY <2>1, <2>6, <2>7
<1>3. T \in SUBSET (0 .. n)
  OBVIOUS
<1> HIDE DEF T
<1>4. T = 0 .. n
  <2>1. 0 \in Nat
    OBVIOUS
  <2> QED
    BY <1>1, <1>2, <1>3, <2>1, Stretch
<1>5. n \in T
  BY <1>4
<1> QED
  BY <1>5 DEF T, AllPassed

LEMMA GenerateCallLeads ==
    ASSUME NEW K \in Claimed, NEW s, At(s, K), NEW e \in Expressions,
           e.kind = "AST_CALL", Sure(K) => GuessedRight(e), NEW of_args,
           \A i \in DOMAIN e.args : Delivers(of_args[i], e.args[i], K)
    PROVE  Generates(s, GenerateCall(s, e, of_args), e, K)
<1> DEFINE n == Len(e.args)
           f == Function[e.name]
           after == InTurn(s, n, of_args)
           passed == ArgumentsPassed(after, n, e.args, f.params)
           type(i) == IF Widens(e.args[i], f.params[i]) THEN "i64"
                      ELSE LLVM[get_expression_type[e.args[i]]]
           args == [i \in 1 .. n |-> <<type(i), LiteralOr(e.args[i], passed[i].ret)>>]
           none == Returning(Emit(passed[n], Send(0, "void", e.name, args)), -1)
           some == Defining(passed[n], Send(Fresh(passed[n]), LLVM[f.result], e.name, args))
<1>0. GenerateCall(s, e, of_args) = IF f.result = "void" THEN none ELSE some
  BY DEF GenerateCall
<1>1. /\ n \in Nat /\ DOMAIN e.args = 1 .. n /\ e.args \in Seq(Expressions)
      /\ e.name \in FunctionNames /\ n = Len(f.params) /\ f.params \in Seq(VariableTypes)
      /\ DOMAIN f.params = 1 .. n
      /\ f.result \in VariableTypes \cup {"void"}
      /\ \A i \in 1 .. n : e.args[i] \in Expressions
  BY CallFields, DeclaredTypes
<1> HIDE DEF n
<1>2. \A i \in 1 .. n : Delivers(of_args[i], e.args[i], K)
  BY <1>1
<1>3. s \in Contexts
  BY DEF At
<1>4. /\ after \in [0 .. n -> Contexts] /\ after[0] = s
      /\ \A i \in 1 .. n : after[i] = of_args[i][after[i - 1]]
  BY <1>1, <1>2, <1>3, InTurnUnfolds DEF Delivers
<1> HIDE DEF after
<1>5. Leads(s, after[n], K) /\ AllHeld(after[n], after, n, e.args, K)
  <2>1. Generating(s, after, n, e.args, of_args, K)
    BY <1>2, <1>4 DEF Generating
  <2> QED
    BY <1>1, <2>1, ArgumentsLead
<1>6. At(after[n], K)
  BY <1>5, Onward
<1>7. \A i \in 1 .. n : Sure(K) => Converts(e.args[i]) /\ Passes(e.args[i], f.params[i])
  BY <1>1 DEF GuessedRight, Passes
<1>8. /\ passed \in [0 .. n -> Contexts] /\ passed[0] = after[n]
      /\ \A i \in 1 .. n : passed[i] = Passing(passed[i - 1], e.args[i], f.params[i],
                                               after[i].ret)
  <2>1. /\ n \in Nat /\ after \in [0 .. n -> Contexts]
        /\ \A i \in 1 .. n : e.args[i] \in Expressions
    BY <1>1, <1>4
  <2> QED
    BY <2>1, ArgumentsPassedUnfolds
<1> HIDE DEF passed
<1>9. Leads(after[n], passed[n], K) /\ AllPassed(passed[n], passed, n, e.args, f.params, K)
  <2>1. PassingAll(after, passed, n, e.args, f.params, K)
    BY <1>1, <1>4, <1>7, <1>8 DEF PassingAll
  <2> HIDE DEF f
  <2> QED
    BY <1>1, <1>5, <1>6, <2>1, PassedLead
<1>10. Leads(s, passed[n], K) /\ At(passed[n], K) /\ passed[n] \in Contexts
  <2>1. Leads(s, passed[n], K)
    BY <1>5, <1>9, LeadsTransitive
  <2> QED
    BY <2>1, Onward DEF At
<1>11. \A i \in 1 .. n : /\ type(i) = PassedAs(e.args[i], f.params[i])
                         /\ type(i) \in IRTypes
                         /\ passed[i].ret \in Int
  <2>1. ASSUME NEW i \in 1 .. n
        PROVE  /\ type(i) = PassedAs(e.args[i], f.params[i])
               /\ type(i) \in IRTypes /\ passed[i].ret \in Int
    <3>1. type(i) = PassedAs(e.args[i], f.params[i])
      BY DEF PassedAs
    <3>2. LLVM[get_expression_type[e.args[i]]] \in IRTypes
      BY <1>1, ExpressionTypes, LLVMTypes
    <3>3. type(i) \in IRTypes
      BY <3>2 DEF IRTypes, ValueTypes
    <3>4. i \in 0 .. n
      BY <1>1
    <3>5. passed[i].ret \in Int
      BY <3>4, <1>8, ContextFields
    <3> QED
      BY <3>1, <3>3, <3>5
  <2> QED
    BY <2>1
<1>12. Sure(K) => \A i \in 1 .. n : type(i) = LLVM[f.params[i]]
  BY <1>7 DEF Passes, Widens
<1> HIDE DEF type
<1>13. /\ args \in Seq(IRTypes \X IROperands) /\ DOMAIN args = 1 .. n
       /\ \A i \in 1 .. n : /\ args[i][1] = type(i)
                            /\ args[i][2] = LiteralOr(e.args[i], passed[i].ret)
  <2>1. \A i \in 1 .. n : LiteralOr(e.args[i], passed[i].ret) \in IROperands
    BY <1>11, LiteralFields
  <2>2. args \in [1 .. n -> IRTypes \X IROperands]
    BY <1>11, <2>1
  <2>3. args \in Seq(IRTypes \X IROperands)
    <3> HIDE DEF args
    <3> QED
      BY <1>1, <2>2
  <2> QED
    BY <2>3
<1> HIDE DEF args
<1>14. ASSUME Sure(K) PROVE Suits(passed[n], e.name, args)
  <2>1. ASSUME NEW k \in 1 .. n PROVE Typed(passed[n], args[k][2], args[k][1])
    <3>1. ~IsLiteral(e.args[k]) => Has(passed[n], passed[k].ret, type(k))
      BY <1>9, <1>11, <1>14 DEF AllPassed
    <3>2. Typed(passed[n], LiteralOr(e.args[k], passed[k].ret), type(k))
      BY <3>1, <1>11, LiteralIsTyped
    <3> QED
      BY <3>2, <1>13
  <2>2. \A k \in 1 .. n : args[k][1] = LLVM[f.params[k]]
    BY <1>12, <1>13, <1>14
  <2>3. DOMAIN args = 1 .. n /\ DOMAIN f.params = 1 .. n
    BY <1>1, <1>13
  <2>4. [k \in DOMAIN args |-> args[k][1]] = [k \in DOMAIN f.params |-> LLVM[f.params[k]]]
    <3> HIDE DEF f
    <3> QED
      BY <2>2, <2>3
  <2>5. \A k \in DOMAIN args : Typed(passed[n], args[k][2], args[k][1])
    BY <2>1, <2>3
  <2> QED
    BY <2>4, <2>5 DEF Suits
<1>15. CASE f.result = "void"
  <2> DEFINE i == Send(0, "void", e.name, args)
             v == Emit(passed[n], i)
  <2> DEFINE type2 == "void"
             zero == 0
             j == Send(zero, type2, e.name, args)
  <2>1. type2 \in IRTypes /\ zero \in Int
    BY DEF IRTypes
  <2>2. /\ j \in Instructions /\ j.op # "alloca" /\ ~Defines(j)
        /\ Permits(passed[n], j, K)
    <3>1. type2 = "void"
      OBVIOUS
    <3> HIDE DEF type2, zero
    <3>2. /\ j \in Instructions /\ j.op # "alloca"
          /\ Defines(j) <=> type2 # "void"
          /\ Permits(passed[n], j, K)
      BY <1>1, <1>13, <1>14, <2>1, SendFields
    <3> QED
      BY <3>1, <3>2
  <2>9. i = j
    OBVIOUS
  <2> HIDE DEF i, j
  <2>3. Leads(passed[n], v, K)
    BY <1>10, <1>14, <2>2, <2>9, SayingLeads
  <2>4. Leads(s, v, K) /\ v \in Contexts
    BY <1>10, <2>3, LeadsTransitive DEF Leads
  <2>5. none = Returning(v, -1)
    BY DEF i
  <2> HIDE DEF v, none
  <2>6. Leads(s, none, K)
    BY <2>4, <2>5, ReturningLeads, LeadsTransitive
  <2>7. HeldAs(e) = "none"
    BY <1>15 DEF HeldAs, IsComparison
  <2> QED
    BY <1>0, <1>15, <2>6, <2>7 DEF Generates, Value
<1>16. CASE f.result # "void"
  <2> DEFINE type2 == LLVM[f.result]
             i == Send(Fresh(passed[n]), type2, e.name, args)
  <2>1. type2 \in IRTypes /\ type2 # "void"
    BY <1>1, <1>16 DEF LLVM, IRTypes, ValueTypes, VariableTypes
  <2>2. HeldAs(e) = type2
    BY <1>16 DEF HeldAs, IsComparison
  <2> HIDE DEF type2
  <2>3. Fresh(passed[n]) \in Int
    BY <1>10, ContextFields DEF Fresh
  <2>4. /\ i \in Instructions /\ i.to = Fresh(passed[n]) /\ i.op # "alloca" /\ Defines(i)
        /\ Result(i) = type2
        /\ Permits(passed[n], i, K)
    BY <1>1, <1>13, <1>14, <2>1, <2>3, SendFields
  <2>5. some = Defining(passed[n], i)
    BY DEF type2
  <2> HIDE DEF i, some
  <2>6. /\ Leads(passed[n], some, K) /\ some.ret = Fresh(passed[n])
        /\ Has(some, Fresh(passed[n]), type2)
    BY <1>10, <1>14, <2>4, <2>5, DefiningLeads
  <2>7. Leads(s, some, K)
    BY <1>10, <2>6, LeadsTransitive
  <2> QED
    BY <1>0, <1>16, <2>2, <2>6, <2>7, ValueOfRegister DEF Generates
<1> QED
  BY <1>15, <1>16

LEMMA GenerateLeads ==
    ASSUME NEW K \in Claimed, NEW s, At(s, K), NEW e \in Expressions,
           Sure(K) => GuessedRight(e), NEW of,
           \A p \in PartsOf(e) : Delivers(of[p], p, K)
    PROVE  Generates(s, Generate(of, s, e), e, K)
<1>1. CASE IsLiteral(e)
  <2>1. Generate(of, s, e) = Returning(s, e.value)
    BY <1>1 DEF Generate, IsLiteral
  <2>2. Leads(s, Returning(s, e.value), K)
    BY <1>1, LeafFields, ReturningLeads DEF At
  <2>3. HeldAs(e) = "none"
    BY <1>1 DEF HeldAs, IsLiteral, IsComparison
  <2> QED
    BY <2>1, <2>2, <2>3 DEF Generates, Value
<1>2. CASE e.kind = "AST_IDENTIFIER"
  <2> DEFINE t == Defining(s, Load(Fresh(s), LLVM[Type[e.name]], Variable(e.name)))
  <2>1. Generate(of, s, e) = t
    BY <1>2 DEF Generate, IsLiteral
  <2>2. e.name \in Names
    BY <1>2, LeafFields
  <2>3. Brings(s, t, K, LLVM[Type[e.name]])
    BY <2>2, VariablesAreDeclared, LoadLeads DEF At
  <2> HIDE DEF t
  <2>4. HeldAs(e) = LLVM[Type[e.name]]
    BY <1>2 DEF HeldAs, IsComparison
  <2> QED
    BY <2>1, <2>3, <2>4, ValueOfRegister DEF Generates, Brings, At
<1>3. CASE e.kind = "AST_BINARY_OP"
  <2>1. Delivers(of[e.left], e.left, K) /\ Delivers(of[e.right], e.right, K)
    BY <1>3, BinaryParts
  <2>2. CASE e.op \in Logical
    <3>1. Generate(of, s, e) = GenerateLogical(s, e, of[e.left], of[e.right])
      BY <1>3, <2>2 DEF Generate, IsLiteral
    <3> QED
      BY <1>3, <2>1, <2>2, <3>1, GenerateLogicalLeads
  <2>3. CASE e.op \notin Logical
    <3>1. Generate(of, s, e) = GenerateBinary(s, e, of[e.left], of[e.right])
      BY <1>3, <2>3 DEF Generate, IsLiteral
    <3> QED
      BY <1>3, <2>1, <2>3, <3>1, GenerateBinaryLeads
  <2> QED
    BY <2>2, <2>3
<1>4. CASE e.kind = "AST_UNARY_OP"
  <2>1. CASE e.op \in Increments
    <3>1. Generate(of, s, e) = GenerateIncrement(s, e)
      BY <1>4, <2>1 DEF Generate, IsLiteral
    <3> QED
      BY <1>4, <2>1, <3>1, GenerateIncrementLeads
  <2>2. CASE e.op \notin Increments
    <3>1. Generate(of, s, e) = GenerateUnary(s, e, of[e.operand])
      BY <1>4, <2>2 DEF Generate, IsLiteral
    <3>2. Delivers(of[e.operand], e.operand, K)
      BY <1>4, UnaryParts
    <3> QED
      BY <1>4, <2>2, <3>1, <3>2, GenerateUnaryLeads
  <2> QED
    BY <2>1, <2>2
<1>5. CASE e.kind = "AST_CONDITIONAL"
  <2>1. Generate(of, s, e)
          = GenerateConditional(s, e, of[e.condition], of[e.true_expr], of[e.false_expr])
    BY <1>5 DEF Generate, IsLiteral
  <2>2. /\ Delivers(of[e.condition], e.condition, K)
        /\ Delivers(of[e.true_expr], e.true_expr, K)
        /\ Delivers(of[e.false_expr], e.false_expr, K)
    BY <1>5, ConditionalParts
  <2> QED
    BY <1>5, <2>1, <2>2, GenerateConditionalLeads
<1>6. CASE e.kind = "AST_ASSIGNMENT"
  <2>1. Generate(of, s, e) = GenerateAssignment(s, e, of[e.value])
    BY <1>6 DEF Generate, IsLiteral
  <2>2. Delivers(of[e.value], e.value, K)
    BY <1>6, AssignmentParts
  <2> QED
    BY <1>6, <2>1, <2>2, GenerateAssignmentLeads
<1>7. CASE e.kind = "AST_SIZEOF"
  <2> DEFINE v == Size[get_expression_type[e.operand]]
  <2>1. Generate(of, s, e) = Returning(s, v)
    BY <1>7 DEF Generate, IsLiteral
  <2>2. v \in Int
    <3>1. get_expression_type[e.operand] \in CTypes
      BY <1>7, OtherFields, ExpressionTypes
    <3> QED
      BY <3>1 DEF Size, CTypes, VariableTypes
  <2> HIDE DEF v
  <2>3. Leads(s, Returning(s, v), K)
    BY <2>2, ReturningLeads DEF At
  <2>4. HeldAs(e) = "none"
    BY <1>7 DEF HeldAs, IsComparison
  <2> QED
    BY <2>1, <2>3, <2>4 DEF Generates, Value
<1>8. CASE e.kind = "AST_CALL"
  <2> DEFINE of_args == [i \in DOMAIN e.args |-> of[e.args[i]]]
  <2>1. Generate(of, s, e) = GenerateCall(s, e, of_args)
    BY <1>8 DEF Generate, IsLiteral
  <2>2. \A i \in DOMAIN e.args : Delivers(of_args[i], e.args[i], K)
    BY <1>8, CallParts
  <2> HIDE DEF of_args
  <2> QED
    BY <1>8, <2>1, <2>2, GenerateCallLeads
<1> QED
  BY <1>1, <1>2, <1>3, <1>4, <1>5, <1>6, <1>7, <1>8, Kinds DEF IsLiteral

\* The clause of an expression only looks at its parts.
LEMMA GenerateByParts ==
    ASSUME NEW s, NEW e \in Expressions, NEW f, NEW g, \A p \in PartsOf(e) : f[p] = g[p]
    PROVE  Generate(f, s, e) = Generate(g, s, e)
<1>1. CASE e.kind = "AST_BINARY_OP"
  <2>1. f[e.left] = g[e.left] /\ f[e.right] = g[e.right]
    BY <1>1, BinaryParts
  <2> QED
    BY <1>1, <2>1 DEF Generate, IsLiteral
<1>2. CASE e.kind = "AST_UNARY_OP"
  <2>1. f[e.operand] = g[e.operand]
    BY <1>2, UnaryParts
  <2> QED
    BY <1>2, <2>1 DEF Generate, IsLiteral
<1>3. CASE e.kind = "AST_CONDITIONAL"
  <2>1. /\ f[e.condition] = g[e.condition]
        /\ f[e.true_expr] = g[e.true_expr] /\ f[e.false_expr] = g[e.false_expr]
    BY <1>3, ConditionalParts
  <2> QED
    BY <1>3, <2>1 DEF Generate, IsLiteral
<1>4. CASE e.kind = "AST_ASSIGNMENT"
  <2>1. f[e.value] = g[e.value]
    BY <1>4, AssignmentParts
  <2> QED
    BY <1>4, <2>1 DEF Generate, IsLiteral
<1>5. CASE e.kind = "AST_CALL"
  <2>1. [i \in DOMAIN e.args |-> f[e.args[i]]] = [i \in DOMAIN e.args |-> g[e.args[i]]]
    BY <1>5, CallParts
  <2>2. Generate(f, s, e) = GenerateCall(s, e, [i \in DOMAIN e.args |-> f[e.args[i]]])
    BY <1>5 DEF Generate, IsLiteral
  <2>3. Generate(g, s, e) = GenerateCall(s, e, [i \in DOMAIN e.args |-> g[e.args[i]]])
    BY <1>5 DEF Generate, IsLiteral
  <2> QED
    BY <2>1, <2>2, <2>3
<1>6. CASE e.kind \in {"AST_NUMBER", "AST_CHARACTER", "AST_IDENTIFIER", "AST_SIZEOF"}
  BY <1>6 DEF Generate, IsLiteral
<1> QED
  BY <1>1, <1>2, <1>3, <1>4, <1>5, <1>6, Kinds

LEMMA NothingClaimed ==
    {} \in Claimed /\ ~Sure({}) /\ \A s \in Contexts : At(s, {})
  BY DEF Claimed, Sure, At

LEMMA GenerateIsGenerator ==
    ASSUME NEW e \in Expressions, NEW f, \A p \in PartsOf(e) : f[p] \in Generators
    PROVE  [s \in Contexts |-> Generate(f, s, e)] \in Generators
<1>1. ASSUME NEW s \in Contexts PROVE Leads(s, Generate(f, s, e), {})
  <2> DEFINE K == {}
  <2>1. K \in Claimed /\ ~Sure(K) /\ At(s, K)
    BY NothingClaimed
  <2>2. \A p \in PartsOf(e) : Delivers(f[p], p, K)
    BY NothingClaimed DEF Generators, Delivers
  <2> HIDE DEF K
  <2>3. Leads(s, Generate(f, s, e), K)
    BY <2>1, <2>2, GenerateLeads DEF Generates
  <2> QED
    BY <2>3 DEF K
<1>2. \A s \in Contexts : Generate(f, s, e) \in Contexts
  BY <1>1 DEF Leads
<1> QED
  BY <1>1, <1>2 DEF Generators

LEMMA SomeGeneration ==
    \E f \in [Expressions -> Generators] :
        f = [e \in Expressions |-> [s \in Contexts |-> Generate(f, s, e)]]
<1> DEFINE R == [Expressions -> Generators]
           H(f, e) == [s \in Contexts |-> Generate(f, s, e)]
           G == [x \in Expressions \X R |-> H(x[2], x[1])]
<1>1. ASSUME NEW e \in Expressions, NEW f \in R PROVE H(f, e) \in Generators
  BY PartsAreLower, GenerateIsGenerator
<1>2. ASSUME NEW e \in Expressions, NEW f \in R, NEW g \in R,
             \A p \in PartsOf(e) : f[p] = g[p]
      PROVE  H(f, e) = H(g, e)
  <2>1. \A s \in Contexts : Generate(f, s, e) = Generate(g, s, e)
    BY <1>2, GenerateByParts
  <2> QED
    BY <2>1
<1> HIDE DEF H
<1>3. G \in [Expressions \X R -> Generators]
  BY <1>1
<1>4. \A e \in Expressions : \A f \in R : G[<<e, f>>] = H(f, e)
  OBVIOUS
<1> HIDE DEF G
<1>5. Generators # {}
  <2> DEFINE f == [s \in Contexts |-> s]
  <2>1. f \in [Contexts -> Contexts] /\ \A s \in Contexts : f[s] = s
    OBVIOUS
  <2> HIDE DEF f
  <2>2. \A s \in Contexts : Leads(s, f[s], {})
    BY <2>1, NothingClaimed, LeadsReflexive
  <2> QED
    BY <2>1, <2>2 DEF Generators
<1>6. LooksAtParts(Generators, G)
  BY <1>2, <1>4 DEF LooksAtParts
<1>7. PICK f \in R : Recurs(f, Expressions, G)
  BY <1>3, <1>5, <1>6, PartsRecursion
<1>8. f = [e \in Expressions |-> H(f, e)]
  BY <1>4, <1>7 DEF Recurs
<1> QED
  BY <1>7, <1>8 DEF H

LEMMA GenerateExpressionUnfolds ==
    /\ generate_expression \in [Expressions -> Generators]
    /\ \A e \in Expressions : \A s \in Contexts :
          generate_expression[e][s] = Generate(generate_expression, s, e)
<1> DEFINE P(f) == f = [e \in Expressions |-> [s \in Contexts |-> Generate(f, s, e)]]
<1>1. \E f : P(f)
  BY SomeGeneration
<1>2. generate_expression = CHOOSE f : P(f)
  BY Zenon DEF generate_expression
<1> HIDE DEF P
<1>3. P(generate_expression)
  BY <1>1, <1>2, Zenon
<1> DEFINE g == generate_expression
<1>4. g = [e \in Expressions |-> [s \in Contexts |-> Generate(g, s, e)]]
  BY <1>3 DEF P
<1> HIDE DEF g
<1>5. \A e \in Expressions : g[e] = [s \in Contexts |-> Generate(g, s, e)]
  BY <1>4
<1>6. \A e \in Expressions : \A s \in Contexts : g[e][s] = Generate(g, s, e)
  BY <1>5
<1> DEFINE T == {e \in Expressions : g[e] \in Generators}
<1>7. ASSUME NEW e \in Expressions, \A p \in Expressions : Height[p] < Height[e] => p \in T
      PROVE  e \in T
  <2>1. \A p \in PartsOf(e) : g[p] \in Generators
    BY <1>7, PartsAreLower
  <2>2. g[e] \in Generators
    <3>1. [s \in Contexts |-> Generate(g, s, e)] \in Generators
      BY <2>1, GenerateIsGenerator
    <3>2. g[e] = [s \in Contexts |-> Generate(g, s, e)]
      BY <1>5
    <3> QED
      BY <3>1, <3>2, Zenon
  <2> QED
    BY <2>2
<1> HIDE DEF T
<1>8. Expressions \subseteq T
  BY <1>7, HeightAssumption, HeightInduction
<1>9. \A e \in Expressions : g[e] \in Generators
  BY <1>8 DEF T
<1>10. g \in [Expressions -> Generators]
  BY <1>4, <1>9
<1> QED
  BY <1>6, <1>10 DEF g

\* An expression is understood when it and its parts are taken for what they are.
LEMMA UnderstoodUnfolds ==
    \A e \in Expressions :
       Understood[e] <=> GuessedRight(e) /\ \A p \in PartsOf(e) : Understood[p]
<1> DEFINE H(f, e) == GuessedRight(e) /\ \A p \in PartsOf(e) : f[p]
           R == [Expressions -> BOOLEAN]
           G == [x \in Expressions \X R |-> H(x[2], x[1])]
           P(f) == f = [e \in Expressions |-> H(f, e)]
<1>1. G \in [Expressions \X R -> BOOLEAN]
  OBVIOUS
<1>2. ASSUME NEW e \in Expressions, NEW f \in R PROVE G[<<e, f>>] = H(f, e)
  OBVIOUS
<1>3. ASSUME NEW e \in Expressions, NEW f \in R, NEW g \in R, \A p \in PartsOf(e) : f[p] = g[p]
      PROVE  G[<<e, f>>] = G[<<e, g>>]
  <2>1. H(f, e) = H(g, e)
    BY <1>3, Zenon
  <2> QED
    BY <1>2, <2>1, Zenon
<1> HIDE DEF G, H
<1>4. LooksAtParts(BOOLEAN, G)
  BY <1>3, Zenon DEF LooksAtParts
<1>5. PICK f \in R : Recurs(f, Expressions, G)
  BY <1>1, <1>4, PartsRecursion
<1>6. P(f)
  BY <1>2, <1>5, Zenon DEF Recurs
<1>7. Understood = CHOOSE g : P(g)
  BY Zenon DEF Understood, H
<1> HIDE DEF P
<1>8. P(Understood)
  BY <1>6, <1>7, Zenon
<1>9. ASSUME NEW e \in Expressions PROVE Understood[e] = H(Understood, e)
  BY <1>8, Zenon DEF P
<1> QED
  BY <1>9, Zenon DEF H

\* The registers of every expression that is understood are sound.
LEMMA GenerateExpressionDelivers ==
    ASSUME NEW K \in Claimed
    PROVE  \A e \in Expressions :
              (Sure(K) => Understood[e]) => Delivers(generate_expression[e], e, K)
<1> DEFINE g == generate_expression
           T == {e \in Expressions : (Sure(K) => Understood[e]) => Delivers(g[e], e, K)}
<1>1. /\ g \in [Expressions -> Generators]
      /\ \A e \in Expressions : \A s \in Contexts : g[e][s] = Generate(g, s, e)
  BY GenerateExpressionUnfolds
<1> HIDE DEF g
<1>2. ASSUME NEW e \in Expressions, \A p \in Expressions : Height[p] < Height[e] => p \in T,
             Sure(K) => Understood[e]
      PROVE  Delivers(g[e], e, K)
  <2>0. Sure(K) => GuessedRight(e) /\ \A p \in PartsOf(e) : Understood[p]
    BY <1>2, UnderstoodUnfolds
  <2>1. \A p \in PartsOf(e) : Delivers(g[p], p, K)
    BY <1>2, <2>0, PartsAreLower
  <2>2. ASSUME NEW s \in Contexts
        PROVE  Leads(s, g[e][s], K) /\ (Sure(K) /\ s \in K => Value(g[e][s], e))
    <3>1. CASE s \in K
      <4>1. At(s, K)
        BY <3>1 DEF At
      <4>2. Generates(s, Generate(g, s, e), e, K)
        BY <2>0, <2>1, <4>1, GenerateLeads
      <4> QED
        BY <1>1, <3>1, <4>2 DEF Generates
    <3>2. CASE s \notin K
      <4>1. g[e] \in Generators
        BY <1>1
      <4>2. Leads(s, g[e][s], {})
        BY <4>1 DEF Generators
      <4> QED
        BY <3>2, <4>2 DEF Leads
    <3> QED
      BY <3>1, <3>2
  <2>3. g[e] \in [Contexts -> Contexts]
    BY <1>1 DEF Generators
  <2> QED
    BY <2>2, <2>3 DEF Delivers
<1>3. \A e \in Expressions :
         (\A p \in Expressions : Height[p] < Height[e] => p \in T) => e \in T
  BY <1>2
<1> HIDE DEF T
<1>4. Expressions \subseteq T
  BY <1>3, HeightAssumption, HeightInduction
<1> QED
  BY <1>4 DEF T, g

-------------------------------------------------------------------------------
\* The code of the statements.

LEMMA SourcesFields == Sources \in Seq(Programs) /\ Len(Sources) \in Nat
<1>1. Sources \in Seq(Programs)
  BY SourcesAssumption DEF Programs
<1> QED
  BY <1>1

LEMMA StatementFields ==
    ASSUME NEW k \in DOMAIN Sources
    PROVE  /\ \A st \in Sources[k].expression : st.value \in Expressions
           /\ \A st \in Sources[k].declaration : st.name \in Names /\ st.value \in Expressions
           /\ \A st \in Sources[k].condition : st.value \in Expressions
           /\ \A st \in Sources[k].return :
                 st.type \in VariableTypes /\ st.value \in Expressions
<1>1. Sources[k] \in Programs
  BY SourcesFields
<1> QED
  BY <1>1 DEF Programs

LEMMA ContextIsContext ==
    ASSUME temp_counter \in Int, label_counter \in Int
    PROVE  /\ Context \in Contexts /\ Fine(Context)
           /\ Context.temp = temp_counter /\ Context.label = label_counter
           /\ TypesIn(Context) = <<>>
<1>1. /\ Context.temp = temp_counter /\ Context.label = label_counter
      /\ Context.code = <<>>
  BY DEF Context
<1>2. Context \in Contexts
  <2>1. <<>> \in Seq(Instructions)
    OBVIOUS
  <2> QED
    BY <2>1 DEF Context, Contexts
<1>3. Execution(Context.code) = Start
  BY <1>1, ExecutionStarts
<1>4. TypesIn(Context) = <<>> /\ FaultsIn(Context) = {} /\ ClashesIn(Context) = {}
  BY <1>3 DEF TypesIn, FaultsIn, ClashesIn, Start
<1>5. PlacesIn(Context) = [p \in Variables |-> LLVM[Type[p[2]]]]
  BY <1>3 DEF PlacesIn, Start
<1>6. ASSUME NEW n \in Names PROVE Declared(Context, Variable(n), LLVM[Type[n]])
  <2>1. Variable(n) \in Variables /\ Variable(n)[2] = n
    BY DEF Variables, Variable
  <2> QED
    BY <2>1, <1>5 DEF Declared
<1>7. DOMAIN TypesIn(Context) = {} /\ DOMAIN PlacesIn(Context) = Variables
  BY <1>4, <1>5
<1>8. temp_counter <= Context.temp
  BY <1>1
<1> HIDE DEF Context
<1>9. Fine(Context)
  BY <1>4, <1>6, <1>7, <1>8 DEF Fine, Tidy
<1> QED
  BY <1>1, <1>2, <1>4, <1>9

\* Not all that is tidy is fine.
LEMMA TidyIsNotFine ==
    ASSUME temp_counter \in Int, label_counter \in Int
    PROVE  ~Sure({s \in Contexts : Tidy(s)})
<1> DEFINE i == Branch(Register(0), 1, 1)
           u == Emit(Context, i)
<1>1. Context \in Contexts /\ Tidy(Context) /\ TypesIn(Context) = <<>>
  BY ContextIsContext DEF Fine
<1>2. i \in Instructions
  BY BranchIsInstruction, OperandsAreIROperands
<1>3. /\ ~Defines(i) /\ i.op \notin {"alloca", "load", "store"}
      /\ <<"i1", Register(0)>> \in Uses(i)
  BY DEF Branch, Defines, Uses, Computations, Predicates
<1> HIDE DEF i
<1>4. /\ Placed(Execution(Context.code).check, i)
      /\ ~Accepted(Execution(Context.code).check, i)
  BY <1>1, <1>3 DEF Placed, Accepted, Register, TypesIn
<1>5. u \in Contexts /\ u.temp = Context.temp
  BY <1>1, <1>2, EmitContext
<1>6. /\ TypesIn(u) = TypesIn(Context) /\ PlacesIn(u) = PlacesIn(Context)
      /\ ClashesIn(u) = ClashesIn(Context) /\ i \in FaultsIn(u)
  BY <1>1, <1>2, <1>3, <1>4, KnownOfEmitted
<1> HIDE DEF u
<1>7. Tidy(u) /\ ~Fine(u)
  BY <1>1, <1>5, <1>6 DEF Tidy, Fine, Declared
<1> QED
  BY <1>5, <1>7 DEF Sure

\* The code of every statement is code, and sound where it is understood.
LEMMA StatementsLead ==
    ASSUME NEW K \in Claimed, At(Context, K), label_counter \in Int, NEW k \in DOMAIN Sources
    PROVE  /\ \A st \in Sources[k].expression :
                 (Sure(K) => Understood[st.value])
                 => Leads(Context, generate_expression[st.value][Context], K)
           /\ \A st \in Sources[k].declaration :
                 (Sure(K) => Understood[st.value] /\ Converts(st.value))
                 => Leads(Context, DeclarationCode(st), K)
           /\ \A st \in Sources[k].condition :
                 (Sure(K) => Understood[st.value] /\ Tests0(st.value))
                 => Leads(Context, ConditionCode(st), K)
           /\ \A st \in Sources[k].return :
                 (Sure(K) => Understood[st.value] /\ Converts(st.value))
                 => Leads(Context, ReturnCode(st), K)
<1>1. \A e \in Expressions :
         (Sure(K) => Understood[e]) => Delivers(generate_expression[e], e, K)
  BY GenerateExpressionDelivers
<1>2. Leads(Context, Context, K)
  BY LeadsReflexive DEF At
<1>3. ASSUME NEW e \in Expressions, Sure(K) => Understood[e]
      PROVE  LET s == generate_expression[e][Context]
             IN  Leads(Context, s, K) /\ At(s, K) /\ (Sure(K) => Value(s, e))
  BY <1>1, <1>2, <1>3, PartLeads
<1>4. ASSUME NEW st \in Sources[k].declaration,
             Sure(K) => Understood[st.value] /\ Converts(st.value)
      PROVE  Leads(Context, DeclarationCode(st), K)
  <2> DEFINE s == generate_expression[st.value][Context]
             t == DeclarationCode(st)
  <2>1. st.name \in Names /\ st.value \in Expressions
    BY StatementFields
  <2>3. Leads(Context, s, K) /\ At(s, K) /\ (Sure(K) => Value(s, st.value))
    BY <1>3, <1>4, <2>1
  <2>4. t = Stored(s, st.value, Type[st.name], Variable(st.name))
    BY DEF DeclarationCode
  <2> HIDE DEF s, t
  <2>5. /\ Variable(st.name) \in Places
        /\ Type[st.name] \in CTypes /\ Type[st.name] # "void"
        /\ K # {} => Declared(s, Variable(st.name), LLVM[Type[st.name]])
    BY <2>1, <2>3, VariablesAreDeclared
  <2>6. Leads(s, t, K)
    BY <1>4, <2>1, <2>3, <2>4, <2>5, StoredLeads DEF At
  <2> QED
    BY <2>3, <2>6, LeadsTransitive DEF t
<1>5. ASSUME NEW st \in Sources[k].condition,
             Sure(K) => Understood[st.value] /\ Tests0(st.value)
      PROVE  Leads(Context, ConditionCode(st), K)
  <2> DEFINE a == generate_label(Context)
             b == generate_label(a)
             s == generate_expression[st.value][b]
             c == convert_to_boolean(s, st.value)
             t == BranchOn(c, label_counter + 1, label_counter + 2)
  <2>1. st.value \in Expressions
    BY StatementFields
  <2>3. Leads(Context, b, K)
    <3>1. Leads(Context, a, K)
      BY LabelLeads DEF At
    <3> HIDE DEF a
    <3>2. a \in Contexts
      BY <3>1 DEF Leads
    <3>3. Leads(a, b, K)
      BY <3>2, LabelLeads
    <3> HIDE DEF b
    <3> QED
      BY <3>1, <3>3, LeadsTransitive
  <2> HIDE DEF b
  <2>4. Leads(Context, s, K) /\ At(s, K) /\ (Sure(K) => Value(s, st.value))
    BY <1>1, <1>5, <2>1, <2>3, PartLeads
  <2> HIDE DEF s
  <2>5. Brings(s, c, K, "i1")
    BY <1>5, <2>4, BooleanLeads DEF At
  <2> HIDE DEF c
  <2>6. Leads(Context, c, K) /\ At(c, K) /\ (Sure(K) => Has(c, c.ret, "i1"))
    BY <2>4, <2>5, LeadsTransitive, Onward DEF Brings, At
  <2>7. Leads(c, t, K)
    BY <2>6, BranchLeads DEF At
  <2> HIDE DEF t
  <2>8. Leads(Context, t, K)
    BY <2>6, <2>7, LeadsTransitive
  <2> QED
    BY <2>8 DEF ConditionCode, t, c, s, b, a
<1>6. ASSUME NEW st \in Sources[k].return,
             Sure(K) => Understood[st.value] /\ Converts(st.value)
      PROVE  Leads(Context, ReturnCode(st), K)
  <2> DEFINE s == generate_expression[st.value][Context]
             v == Converted(s, st.value, st.type)
             t == Emit(v, Return(LLVM[st.type], LiteralOr(st.value, v.ret)))
  <2>1. st.type \in VariableTypes /\ st.value \in Expressions
    BY StatementFields
  <2>3. Leads(Context, s, K) /\ At(s, K) /\ (Sure(K) => Value(s, st.value))
    BY <1>3, <1>6, <2>1
  <2>4. t = ReturnCode(st)
    BY DEF ReturnCode
  <2> HIDE DEF s
  <2>5. st.type \in CTypes /\ st.type # "void" /\ LLVM[st.type] \in IRTypes
    <3>1. st.type \in CTypes /\ st.type # "void"
      BY <2>1 DEF CTypes, VariableTypes
    <3> QED
      BY <3>1, LLVMTypes
  <2>6. /\ Leads(s, v, K)
        /\ Sure(K) /\ ~IsLiteral(st.value) => Has(v, v.ret, LLVM[st.type])
    BY <1>6, <2>1, <2>3, <2>5, ConvertedLeads DEF At
  <2> HIDE DEF v
  <2>7. Leads(Context, v, K) /\ At(v, K) /\ v.ret \in Int
    BY <2>3, <2>6, LeadsTransitive, Onward, AtContext
  <2>8. /\ LiteralOr(st.value, v.ret) \in IROperands
        /\ Sure(K) => Typed(v, LiteralOr(st.value, v.ret), LLVM[st.type])
    BY <2>6, <2>7, LiteralFields, LiteralIsTyped
  <2>9. Leads(v, t, K)
    BY <2>5, <2>7, <2>8, ReturnLeads DEF At
  <2> HIDE DEF t
  <2> QED
    BY <2>4, <2>7, <2>9, LeadsTransitive
<1>7. \A st \in Sources[k].expression :
         (Sure(K) => Understood[st.value])
         => Leads(Context, generate_expression[st.value][Context], K)
  BY <1>3, StatementFields
<1> QED
  BY <1>4, <1>5, <1>6, <1>7

LEMMA StepsGenerate ==
    ASSUME done \in Nat, Next
    PROVE  \E s, c, told, said : Steps(s, c, told, said)
<1>1. done + 1 \in DOMAIN Sources
  BY SourcesFields DEF Next
<1>2. CASE ExpressionStatement
  BY <1>1, <1>2, Zenon DEF ExpressionStatement, Steps
<1>3. CASE Declaration
  BY <1>1, <1>3, Zenon DEF Declaration, Steps, DeclarationCode
<1>4. CASE Condition
  BY <1>1, <1>4, Zenon DEF Condition, Steps, ConditionCode
<1>5. CASE ReturnStatement
  BY <1>1, <1>5, Zenon DEF ReturnStatement, Steps, ReturnCode
<1> QED
  BY <1>2, <1>3, <1>4, <1>5 DEF Next

LEMMA StepsProduce ==
    ASSUME NEW K \in Claimed, At(Context, K), Sure(K) => understood',
           label_counter \in Int, done \in Nat, Next
    PROVE  \E s : Leads(Context, s, K) /\ Produced(s)
<1>1. PICK s, c, told, said : Steps(s, c, told, said)
  BY StepsGenerate
<1>2. Leads(Context, s, K)
  BY <1>1, StatementsLead DEF Steps
<1>3. Produced(s)
  BY <1>1 DEF Steps, Generated, Produced, FaultsIn, ClashesIn
<1> QED
  BY <1>2, <1>3

-------------------------------------------------------------------------------
\* The theorems.

\* The counters are integers, nothing clashed, and nothing was refused while all
\* was understood.
SoundSoFar ==
    /\ temp_counter \in Int /\ label_counter \in Int /\ done \in Nat
    /\ clashes = {} /\ (understood => faults = {})

LEMMA SoundAfterAStep == ASSUME SoundSoFar, Next PROVE SoundSoFar'
<1> DEFINE K == {s \in Contexts : Tidy(s)}
           L == {s \in Contexts : Fine(s)}
<1>1. /\ temp_counter \in Int /\ label_counter \in Int /\ done \in Nat
      /\ clashes = {} /\ (understood => faults = {})
  BY DEF SoundSoFar
<1>2. Context \in Contexts /\ Fine(Context) /\ Tidy(Context)
  BY <1>1, ContextIsContext DEF Fine
<1>3. K \in Claimed /\ At(Context, K) /\ ~Sure(K)
  BY <1>1, <1>2, TidyIsNotFine DEF At, Claimed
<1>4. L \in Claimed /\ At(Context, L)
  BY <1>2 DEF At, Claimed
<1>5. Context \in K /\ Context \in L
  BY <1>2
<1> HIDE DEF K, L
<1>6. PICK s : Leads(Context, s, K) /\ Produced(s)
  BY <1>1, <1>3, StepsProduce
<1>7. s \in Contexts /\ Tidy(s)
  BY <1>5, <1>6 DEF Leads, K
<1>8. clashes' = {}
  BY <1>1, <1>6, <1>7 DEF Produced, Tidy
<1>9. ASSUME understood' PROVE faults' = {}
  <2>1. PICK t : Leads(Context, t, L) /\ Produced(t)
    BY <1>1, <1>4, <1>9, StepsProduce
  <2>2. FaultsIn(t) = {}
    BY <1>5, <2>1 DEF Leads, L, Fine
  <2>3. PICK u, c, told, said : Steps(u, c, told, said)
    BY <1>1, StepsGenerate
  <2>4. understood
    BY <1>9, <2>3 DEF Steps
  <2> QED
    BY <1>1, <2>1, <2>2, <2>4 DEF Produced
<1>10. temp_counter' \in Int /\ label_counter' \in Int /\ done' \in Nat
  BY <1>1, <1>6, <1>7, ContextFields DEF Produced
<1> QED
  BY <1>8, <1>9, <1>10 DEF SoundSoFar

LEMMA SoundThroughout == Spec => []SoundSoFar
<1>1. Init => SoundSoFar
  BY DEF Init, SoundSoFar
<1>2. SoundSoFar /\ [Next]_vars => SoundSoFar'
  BY SoundAfterAStep DEF vars, SoundSoFar
<1> QED
  BY <1>1, <1>2, PTL DEF Spec

\* No instruction defines a register or slot that is there already, and none
\* loads or stores what is not there or is of another type, whatever the program
\* and whatever the callers of generate_expression misread.
THEOREM DefinitionsAreSoundAlways == Spec => []DefinitionsAreSound
<1>1. SoundSoFar => DefinitionsAreSound
  BY DEF SoundSoFar, DefinitionsAreSound
<1> QED
  BY <1>1, SoundThroughout, PTL

\* As long as the callers take every value for what it is, LLVM refuses no
\* instruction: every operand is a register defined before with the type it is used
\* at, and every call has the types of its function.
THEOREM RegistersAreSoundAlways == Spec => []RegistersAreSound
<1>1. SoundSoFar => RegistersAreSound
  BY DEF SoundSoFar, RegistersAreSound
<1> QED
  BY <1>1, SoundThroughout, PTL

-------------------------------------------------------------------------------
\* Numbers of a width.

LEMMA BitsOfTypes ==
    \A type \in ValueTypes : Bits[type] \in 1 .. LongBits /\ Bits[type] - 1 \in 0 .. LongBits
<1>1. /\ CharBits \in Nat /\ IntBits \in Nat /\ LongBits \in Nat
      /\ 1 < CharBits /\ CharBits < IntBits /\ IntBits < LongBits
  BY WidthsAssumption
<1>2. \A type \in ValueTypes : Bits[type] \in {1, CharBits, IntBits, LongBits}
  BY DEF ValueTypes, Bits
<1> QED
  BY <1>1, <1>2

LEMMA TwoToUnfolds ==
    /\ Powers(TwoTo, LongBits)
    /\ TwoTo[0] = 1
    /\ \A n \in 1 .. LongBits : TwoTo[n] = 2 * TwoTo[n - 1]
    /\ \A n \in 0 .. LongBits : TwoTo[n] \in Nat \ {0}
<1> DEFINE P(f) == f = [n \in 0 .. LongBits |-> IF n = 0 THEN 1 ELSE 2 * f[n - 1]]
<1>1. LongBits \in Nat
  BY WidthsAssumption
<1>2. PICK f : Doubles(f, LongBits)
  BY <1>1, Doubling
<1>3. P(f)
  BY <1>2 DEF Doubles
<1>4. TwoTo = CHOOSE g : P(g)
  BY Zenon DEF TwoTo
<1> HIDE DEF P
<1>5. P(TwoTo)
  BY <1>3, <1>4, Zenon
<1> DEFINE g == TwoTo
<1>6. P(g)
  BY <1>5
<1> HIDE DEF g
<1>7. Doubles(g, LongBits)
  BY <1>6 DEF P, Doubles
<1>8. Powers(g, LongBits)
  BY <1>1, <1>7, DoublesUnfold
<1> QED
  BY <1>8 DEF g, Powers

LEMMA WrappedIsOfWidth ==
    ASSUME NEW v \in Int, NEW type \in ValueTypes
    PROVE  OfWidth(Wrapped(v, type), type)
<1> DEFINE h == TwoTo[Bits[type] - 1]
<1>1. h \in Nat \ {0}
  BY BitsOfTypes, TwoToUnfolds
<1>2. \A w \in Int : Wrapped(w, type) = ((w + h) % (2 * h)) - h
  BY DEF Wrapped
<1> HIDE DEF h
<1>3. \A w \in Int : (w + h) % (2 * h) \in 0 .. (2 * h) - 1
  BY <1>1
<1>4. \A w \in 0 .. (2 * h) - 1 : w % (2 * h) = w
  BY <1>1
<1> DEFINE w == ((v + h) % (2 * h)) - h
<1>5. w \in Int /\ w + h \in 0 .. (2 * h) - 1
  BY <1>1, <1>3
<1> HIDE DEF w
<1>6. ((w + h) % (2 * h)) - h = w
  BY <1>1, <1>4, <1>5
<1>7. Wrapped(v, type) = w /\ Wrapped(w, type) = w
  BY <1>2, <1>5, <1>6 DEF w
<1> QED
  BY <1>5, <1>7 DEF OfWidth

LEMMA ZeroIsOfWidth ==
    ASSUME NEW type \in ValueTypes
    PROVE  OfWidth(0, type)
<1> DEFINE h == TwoTo[Bits[type] - 1]
<1>1. h \in Nat \ {0}
  BY BitsOfTypes, TwoToUnfolds
<1>2. Wrapped(0, type) = ((0 + h) % (2 * h)) - h
  BY DEF Wrapped
<1> HIDE DEF h
<1>3. 0 + h \in 0 .. (2 * h) - 1
  BY <1>1
<1>4. \A w \in 0 .. (2 * h) - 1 : w % (2 * h) = w
  BY <1>1
<1>5. ((0 + h) % (2 * h)) - h = 0
  BY <1>1, <1>3, <1>4
<1> QED
  BY <1>2, <1>5 DEF OfWidth

LEMMA PatternIsNumber ==
    ASSUME NEW v \in Int, NEW type \in ValueTypes
    PROVE  Pattern(v, type) \in Int
<1> DEFINE d == TwoTo[Bits[type]]
<1>1. d \in Nat \ {0}
  BY BitsOfTypes, TwoToUnfolds
<1> HIDE DEF d
<1>2. v % d \in Int
  BY <1>1
<1> QED
  BY <1>2 DEF Pattern, d

\* Its sum adds up bit by bit.
LEMMA BitwiseAddsUp ==
    ASSUME NEW both \in [0 .. 2 -> Int], NEW p \in Int, NEW q \in Int
    PROVE  \E sum : /\ Bitwise(both, p, q) = sum[LongBits]
                    /\ Combines(sum, TwoTo, LongBits, both, p, q)
<1> DEFINE term(k) == both[DigitOf(TwoTo, p, k - 1) + DigitOf(TwoTo, q, k - 1)] * TwoTo[k - 1]
           t == [k \in 1 .. LongBits |-> term(k)]
           P(f) == f = [k \in 0 .. LongBits |-> IF k = 0 THEN 0 ELSE f[k - 1] + term(k)]
<1>1. LongBits \in Nat
  BY WidthsAssumption
<1>2. ASSUME NEW k \in 1 .. LongBits PROVE term(k) \in Int
  <2> DEFINE d == TwoTo[k - 1]
             a == (p \div d) % 2
             b == (q \div d) % 2
  <2>1. k - 1 \in 0 .. LongBits
    BY <1>1
  <2>2. d \in Nat \ {0}
    BY <2>1, TwoToUnfolds
  <2>3. term(k) = both[a + b] * d
    BY DEF DigitOf
  <2> HIDE DEF d
  <2>4. a \in 0 .. 1 /\ b \in 0 .. 1
    BY <2>2
  <2> HIDE DEF a, b
  <2>5. a + b \in 0 .. 2
    BY <2>4
  <2>6. both[a + b] \in Int
    BY <2>5
  <2>7. \A w \in Int : w * d \in Int
    BY <2>2
  <2> HIDE DEF term
  <2> QED
    BY <2>3, <2>6, <2>7
<1>3. Bitwise(both, p, q) = (CHOOSE g : P(g))[LongBits]
  BY Zenon DEF Bitwise, Bit, DigitOf
<1> HIDE DEF term
<1>4. t \in [1 .. LongBits -> Int] /\ \A k \in 1 .. LongBits : t[k] = term(k)
  BY <1>2
<1> HIDE DEF t
<1>5. PICK f : Sums(f, LongBits, t)
  BY <1>1, <1>4, Summing
<1>6. \A k \in 0 .. LongBits : k # 0 => k \in 1 .. LongBits
  BY <1>1
<1>7. \A g : Sums(g, LongBits, t) <=> P(g)
  BY <1>4, <1>6 DEF Sums
<1> DEFINE g == CHOOSE h : P(h)
<1> HIDE DEF P
<1>8. P(g)
  BY <1>5, <1>7, Zenon
<1> HIDE DEF g
<1>9. /\ g \in [0 .. LongBits -> Int] /\ g[0] = 0
      /\ \A k \in 1 .. LongBits : g[k] = g[k - 1] + t[k]
  BY <1>1, <1>4, <1>7, <1>8, SumsUnfold
<1>10. Combines(g, TwoTo, LongBits, both, p, q)
  BY <1>4, <1>9 DEF Combines, term
<1> QED
  BY <1>3, <1>10 DEF g

LEMMA BitwiseIsNumber ==
    ASSUME NEW both \in [0 .. 2 -> Int], NEW p \in Int, NEW q \in Int
    PROVE  Bitwise(both, p, q) \in Int
<1>1. LongBits \in 0 .. LongBits
  BY WidthsAssumption
<1> QED
  BY <1>1, BitwiseAddsUp DEF Combines

LEMMA QuotientIsNumber ==
    ASSUME NEW a \in Int, NEW b \in Int, b # 0
    PROVE  Toward0(a, b) \in Int
  BY DEF Toward0

LEMMA ComputedIsNumber ==
    ASSUME NEW op \in Computations \cup Predicates, NEW a \in Int, NEW b \in Int,
           NEW type \in ValueTypes
    PROVE  Computed(op, a, b, type) \in Int
<1>1. /\ And \in [0 .. 2 -> Int] /\ Or \in [0 .. 2 -> Int] /\ Xor \in [0 .. 2 -> Int]
  BY DEF And, Or, Xor
<1>2. Pattern(a, type) \in Int /\ Pattern(b, type) \in Int
  BY PatternIsNumber
<1>3. \A c : Bool(c) \in Int
  BY DEF Bool
<1>4. CASE op \in {"add", "sub", "mul"}
  <2>1. a + b \in Int /\ a - b \in Int /\ a * b \in Int
    OBVIOUS
  <2> QED
    BY <1>4, <2>1 DEF Computed
<1>5. CASE op \in {"sdiv", "srem"}
  <2>1. CASE b = 0
    BY <1>5, <2>1 DEF Computed
  <2>2. CASE b # 0
    <3>1. Toward0(a, b) \in Int
      BY <2>2, QuotientIsNumber
    <3>2. a - b * Toward0(a, b) \in Int
      BY <3>1
    <3> QED
      BY <1>5, <2>2, <3>1, <3>2 DEF Computed
  <2> QED
    BY <2>1, <2>2
<1>6. CASE op \in {"and", "or", "xor"}
  <2>1. /\ Bitwise(And, Pattern(a, type), Pattern(b, type)) \in Int
        /\ Bitwise(Or, Pattern(a, type), Pattern(b, type)) \in Int
        /\ Bitwise(Xor, Pattern(a, type), Pattern(b, type)) \in Int
    BY <1>1, <1>2, BitwiseIsNumber
  <2> QED
    BY <1>6, <2>1 DEF Computed
<1>7. CASE op \in {"shl", "ashr"}
  <2>1. CASE b \in 0 .. Bits[type]
    <3> DEFINE d == TwoTo[b]
    <3>1. b \in 0 .. LongBits
      BY <2>1, BitsOfTypes, WidthsAssumption
    <3>2. d \in Nat \ {0}
      BY <3>1, TwoToUnfolds
    <3> HIDE DEF d
    <3>3. a * d \in Int /\ a \div d \in Int
      BY <3>2
    <3> QED
      BY <1>7, <2>1, <3>3 DEF Computed, d
  <2>2. CASE b \notin 0 .. Bits[type]
    BY <1>7, <2>2 DEF Computed
  <2> QED
    BY <2>1, <2>2
<1>8. CASE op \in Predicates
  BY <1>3, <1>8 DEF Predicates, Computed
<1> QED
  BY <1>4, <1>5, <1>6, <1>7, <1>8 DEF Computations

-------------------------------------------------------------------------------
\* What the code leaves in the variables is of their types.

LEMMA OperationsOfInstructions ==
    ASSUME NEW i \in Instructions
    PROVE  i.op \in {"load", "store", "alloca", "trunc", "sext", "zext", "br", "jump",
                     "label", "call", "ret"} \cup Computations \cup Predicates
  BY DEF Instructions

LEMMA InstructionFields ==
    ASSUME NEW i \in Instructions
    PROVE  /\ i.op \in {"load", "store", "alloca"} => i.type \in ValueTypes
           /\ i.op = "store" => i.left \in IROperands
           /\ i.op \in {"trunc", "sext", "zext"} =>
                 i.left \in {"%t"} \X Int /\ i.into \in ValueTypes
           /\ i.op \in Computations \cup Predicates =>
                 /\ i.type \in ValueTypes
                 /\ i.left \in IROperands /\ i.right \in IROperands
           /\ i.op = "call" => /\ i.type \in IRTypes /\ i.name \in FunctionNames
                               /\ i.args \in Seq(IRTypes \X IROperands)
<1>1. CASE i.op \in Computations \cup Predicates
  <2>1. i.op \notin {"load", "store", "alloca", "trunc", "sext", "zext", "br", "jump",
                    "label", "call", "ret"}
    BY <1>1 DEF Computations, Predicates
  <2>2. i \in [op : Computations \cup Predicates, to : Int, type : ValueTypes,
              left : IROperands, right : IROperands]
    BY <2>1 DEF Instructions
  <2> QED
    BY <1>1, <2>1, <2>2
<1>2. CASE i.op \notin Computations \cup Predicates
  <2>1. i.op \in {"load", "store", "alloca"} => i.type \in ValueTypes
    BY <1>2 DEF Instructions
  <2>2. i.op = "store" => i.left \in IROperands
    BY <1>2 DEF Instructions
  <2>3. i.op \in {"trunc", "sext", "zext"} =>
           i.left \in {"%t"} \X Int /\ i.into \in ValueTypes
    BY <1>2 DEF Instructions
  <2>4. i.op = "call" => /\ i.type \in IRTypes /\ i.name \in FunctionNames
                        /\ i.args \in Seq(IRTypes \X IROperands)
    BY <1>2 DEF Instructions
  <2> QED
    BY <1>2, <2>1, <2>2, <2>3, <2>4
<1> QED
  BY <1>1, <1>2

LEMMA ResultsAreValues ==
    ASSUME NEW i \in Instructions, Defines(i)
    PROVE  Result(i) \in ValueTypes
<1>1. CASE i.op \in {"trunc", "sext", "zext"}
  <2>1. i.into \in ValueTypes
    BY <1>1, InstructionFields
  <2>2. Result(i) = i.into
    BY <1>1 DEF Result, Predicates
  <2> QED
    BY <2>1, <2>2
<1>2. CASE i.op \in Predicates
  BY <1>2 DEF Result, Predicates, ValueTypes
<1>3. CASE i.op \in {"load"} \cup Computations
  <2>1. i.type \in ValueTypes
    BY <1>3, InstructionFields
  <2>2. Result(i) = i.type
    BY <1>3 DEF Result, Predicates, Computations
  <2> QED
    BY <2>1, <2>2
<1>4. CASE i.op = "call" /\ i.type # "void"
  <2>1. i.type \in IRTypes
    BY <1>4, InstructionFields
  <2>2. i.type \in ValueTypes
    BY <1>4, <2>1 DEF IRTypes
  <2> QED
    BY <1>4, <2>2 DEF Result, Predicates
<1> QED
  BY <1>1, <1>2, <1>3, <1>4 DEF Defines

\* A value more, of a type more or the same.
LEMMA GivenValue ==
    ASSUME NEW values, NEW types, ValuesOfTypes(values, types), NEW k, NEW v,
           k \in DOMAIN types, OfWidth(v, types[k])
    PROVE  ValuesOfTypes(Given(values, k, v), types)
  BY DEF Given, ValuesOfTypes
LEMMA GivenType ==
    ASSUME NEW values, NEW types, ValuesOfTypes(values, types), NEW k, NEW type,
           k \notin DOMAIN types
    PROVE  ValuesOfTypes(values, Given(types, k, type))
  BY DEF Given, ValuesOfTypes

LEMMA CheckedHolds ==
    ASSUME NEW c, NEW m, Holds(c, m), NEW i \in Instructions, Accepted(c, i)
    PROVE  Holds(Checked(c, i), m)
<1> DEFINE d == Checked(c, i)
<1>1. /\ d.types = IF Defines(i) THEN Given(c.types, i.to, Result(i)) ELSE c.types
      /\ d.places = IF i.op = "alloca" THEN Given(c.places, i.place, i.type) ELSE c.places
  BY DEF Checked
<1>2. /\ Defines(i) => i.to \notin DOMAIN c.types
      /\ i.op = "alloca" => i.place \notin DOMAIN c.places
  BY DEF Accepted, Placed
<1> HIDE DEF d
<1>3. /\ Types(c) /\ Machine(m)
      /\ ValuesOfTypes(m.values, c.types) /\ ValuesOfTypes(m.memory, c.places)
      /\ \A n \in Names : Variable(n) \in DOMAIN m.memory
  BY DEF Holds
<1>4. ValuesOfTypes(m.values, d.types) /\ ValuesOfTypes(m.memory, d.places)
  BY <1>1, <1>2, <1>3, GivenType
<1>5. \A r \in DOMAIN d.types : d.types[r] \in ValueTypes
  <2>1. CASE Defines(i)
    BY <2>1, <1>1, <1>3, ResultsAreValues DEF Types, Given
  <2>2. CASE ~Defines(i)
    BY <2>2, <1>1, <1>3 DEF Types
  <2> QED
    BY <2>1, <2>2
<1>6. /\ \A p \in DOMAIN d.places : d.places[p] \in ValueTypes
      /\ \A n \in Names : /\ Variable(n) \in DOMAIN d.places
                          /\ d.places[Variable(n)] = LLVM[Type[n]]
  <2>1. CASE i.op = "alloca"
    <3>1. d.places = Given(c.places, i.place, i.type) /\ i.place \notin DOMAIN c.places
      BY <2>1, <1>1, <1>2
    <3>2. i.type \in ValueTypes
      BY <2>1, InstructionFields
    <3>3. /\ DOMAIN d.places = DOMAIN c.places \cup {i.place}
          /\ d.places[i.place] = i.type
          /\ \A p \in DOMAIN c.places : d.places[p] = c.places[p]
      BY <3>1 DEF Given
    <3> QED
      BY <3>2, <3>3, <1>3 DEF Types
  <2>2. CASE i.op # "alloca"
    BY <2>2, <1>1, <1>3 DEF Types
  <2> QED
    BY <2>1, <2>2
<1>7. Types(d)
  BY <1>5, <1>6 DEF Types
<1> QED
  BY <1>3, <1>4, <1>7 DEF Holds, d

\* What an instruction takes is of the type it takes it at.
LEMMA OperandHolds ==
    ASSUME NEW c, NEW m, Holds(c, m), NEW type, NEW operand \in IROperands,
           type \in ValueTypes,
           operand[1] = "%t" => operand[2] \in DOMAIN c.types /\ c.types[operand[2]] = type
    PROVE  OfWidth(ValueOf(m, type, operand), type)
<1>1. operand[2] \in Int /\ operand[1] \in {"const", "%t"}
  BY DEF IROperands
<1>2. CASE operand[1] = "const"
  BY <1>1, <1>2, WrappedIsOfWidth DEF ValueOf
<1>3. CASE operand[1] = "%t"
  <2> DEFINE r == operand[2]
  <2>1. r \in DOMAIN c.types /\ c.types[r] = type
    BY <1>3
  <2>2. ValueOf(m, type, operand) = RegisterOf(m, r)
    BY <1>3 DEF ValueOf
  <2> HIDE DEF r
  <2>3. CASE r \in DOMAIN m.values
    BY <2>1, <2>2, <2>3 DEF RegisterOf, Holds, ValuesOfTypes
  <2>4. CASE r \notin DOMAIN m.values
    BY <2>2, <2>4, ZeroIsOfWidth DEF RegisterOf
  <2> QED
    BY <2>3, <2>4
<1> QED
  BY <1>1, <1>2, <1>3

LEMMA GivesHolds ==
    ASSUME NEW c, NEW m, Holds(c, m), NEW i \in Instructions, Defines(i),
           i.to \in DOMAIN c.types, c.types[i.to] = Result(i), NEW v \in Int
    PROVE  Holds(c, Gives(m, i, v))
<1> DEFINE w == Wrapped(v, Result(i))
           t == Gives(m, i, v)
<1>1. OfWidth(w, Result(i))
  BY ResultsAreValues, WrappedIsOfWidth
<1>2. Machine(m)
  BY DEF Holds
<1>3. t = [m EXCEPT !.values = Given(m.values, i.to, w)]
  BY DEF Gives
<1> HIDE DEF w, t
<1>4. /\ Machine(t) /\ t.memory = m.memory
      /\ t.values = Given(m.values, i.to, w)
  BY <1>2, <1>3 DEF Machine
<1>5. ValuesOfTypes(t.values, c.types)
  BY <1>1, <1>4, GivenValue DEF Holds
<1> QED
  BY <1>4, <1>5 DEF Holds, t

\* What is used of what there is, as the check asks.
LEMMA UsesHold ==
    ASSUME NEW c, NEW m, Holds(c, m), NEW i, Accepted(c, i), NEW type, NEW operand,
           <<type, operand>> \in Uses(i), type \in ValueTypes, operand \in IROperands
    PROVE  OfWidth(ValueOf(m, type, operand), type)
<1>1. operand[1] = "%t" => operand[2] \in DOMAIN c.types /\ c.types[operand[2]] = type
  BY DEF Accepted
<1> QED
  BY <1>1, OperandHolds

LEMMA CalledHolds ==
    ASSUME NEW c, NEW b, NEW m, Holds(c, m), Holds(b, m), NEW i \in Instructions, Accepted(b, i),
           i.op = "call",
           Defines(i) => i.to \in DOMAIN c.types /\ c.types[i.to] = Result(i)
    PROVE  Holds(c, Called(m, i))
<1> DEFINE sending == Sent(m, i)
           called == [m EXCEPT !.sent = Append(@, <<i.name, sending>>)]
           v == Answered(i.name, sending)
<1>1. Called(m, i) = IF i.type = "void" THEN called ELSE Gives(called, i, v)
  BY DEF Called
<1>2. /\ called.values = m.values /\ called.memory = m.memory /\ Machine(called)
  <2>1. Machine(m)
    BY DEF Holds
  <2> HIDE DEF sending
  <2> DEFINE more == Append(m.sent, <<i.name, sending>>)
  <2>2. called = [m EXCEPT !.sent = more]
    OBVIOUS
  <2> HIDE DEF more, called
  <2> QED
    BY <2>1, <2>2 DEF Machine
<1> HIDE DEF called
<1>3. Holds(c, called)
  BY <1>2 DEF Holds
<1>4. i.args \in Seq(IRTypes \X IROperands) /\ i.name \in FunctionNames
  BY InstructionFields
<1>5. Function[i.name].params \in Seq(VariableTypes)
  BY <1>4, DeclarationsAssumption
<1>6. CASE i.args = <<>>
  <2>1. sending = <<>>
    BY <1>6 DEF Sent
  <2>2. v = 0
    BY <2>1 DEF Answered
  <2> HIDE DEF v
  <2> QED
    BY <1>1, <1>3, <2>2, GivesHolds DEF Defines
<1>7. CASE i.args # <<>>
  <2>1. 1 \in DOMAIN i.args /\ i.args[1] \in IRTypes \X IROperands
    BY <1>4, <1>7
  <2>2. DOMAIN sending = DOMAIN i.args
    BY DEF Sent
  <2>3. v = ValueOf(m, i.args[1][1], i.args[1][2])
    <3>1. sending # <<>>
      BY <2>1, <2>2
    <3>2. sending[1] = ValueOf(m, i.args[1][1], i.args[1][2])
      BY <2>1 DEF Sent
    <3> HIDE DEF sending
    <3> QED
      BY <3>1, <3>2 DEF Answered
  <2>4. i.args[1][1] \in ValueTypes
    <3> DEFINE f == Function[i.name].params
               given == [k \in DOMAIN i.args |-> i.args[k][1]]
               asked == [k \in DOMAIN f |-> LLVM[f[k]]]
    <3>1. given = asked
      BY DEF Accepted
    <3>2. DOMAIN given = DOMAIN i.args /\ DOMAIN asked = DOMAIN f
      OBVIOUS
    <3>3. 1 \in DOMAIN f
      BY <2>1, <3>1, <3>2
    <3>4. i.args[1][1] = LLVM[f[1]]
      <4>1. given[1] = i.args[1][1]
        BY <2>1
      <4>2. asked[1] = LLVM[f[1]]
        BY <3>3
      <4> HIDE DEF given, asked
      <4> QED
        BY <3>1, <4>1, <4>2
    <3>5. f[1] \in VariableTypes
      <4> HIDE DEF f
      <4>1. f \in Seq(VariableTypes)
        BY <1>5 DEF f
      <4> QED
        BY <3>3, <4>1
    <3> HIDE DEF f
    <3> QED
      BY <3>4, <3>5 DEF VariableTypes, LLVM, ValueTypes
  <2>5. <<i.args[1][1], i.args[1][2]>> \in Uses(i)
    <3>1. Uses(i) = ToSet(i.args)
      BY DEF Uses, Computations, Predicates
    <3>2. i.args[1] = <<i.args[1][1], i.args[1][2]>>
      BY <2>1
    <3> QED
      BY <2>1, <3>1, <3>2 DEF ToSet
  <2>6. i.args[1][2] \in IROperands
    BY <2>1
  <2>7. OfWidth(ValueOf(m, i.args[1][1], i.args[1][2]), i.args[1][1])
    BY <2>4, <2>5, <2>6, UsesHold
  <2>8. v \in Int
    BY <2>3, <2>7 DEF OfWidth
  <2> HIDE DEF v
  <2> QED
    BY <1>1, <1>3, <2>8, GivesHolds DEF Defines
<1> QED
  BY <1>6, <1>7

\* What executing is, by the operation.
LEMMA ExecutedBy ==
    ASSUME NEW m, NEW i
    PROVE  /\ i.op = "load" => Executed(m, i) = Gives(m, i, HeldIn(m, i.place))
           /\ i.op = "store" =>
                Executed(m, i) =
                  [m EXCEPT !.memory = Given(m.memory, i.place, ValueOf(m, i.type, i.left))]
           /\ i.op \in {"alloca", "label"} => Executed(m, i) = m
           /\ i.op \in {"trunc", "sext"} =>
                Executed(m, i) = Gives(m, i, ValueOf(m, i.type, i.left))
           /\ i.op = "zext" =>
                Executed(m, i) = Gives(m, i, Pattern(ValueOf(m, i.type, i.left), i.type))
           /\ i.op = "br" =>
                Executed(m, i) = [m EXCEPT !.skip = IF ValueOf(m, "i1", i.left) # 0
                                                    THEN i.yes ELSE i.no]
           /\ i.op = "jump" => Executed(m, i) = [m EXCEPT !.skip = i.yes]
           /\ i.op = "ret" => Executed(m, i) = [m EXCEPT !.told = ValueOf(m, i.type, i.left)]
           /\ i.op = "call" => Executed(m, i) = Called(m, i)
           /\ i.op \in Computations \cup Predicates =>
                Executed(m, i) = Gives(m, i, Computed(i.op, ValueOf(m, i.type, i.left),
                                                      ValueOf(m, i.type, i.right), i.type))
  BY DEF Executed, Computations, Predicates

LEMMA ExecutedHolds ==
    ASSUME NEW c, NEW b, NEW m, Holds(b, m), Holds(c, m), NEW i \in Instructions,
           Accepted(b, i), c = Checked(b, i)
    PROVE  Holds(c, Executed(m, i))
<1>1. /\ Defines(i) => i.to \in DOMAIN c.types /\ c.types[i.to] = Result(i)
      /\ i.op # "alloca" => c.places = b.places
  BY DEF Checked, Given
<1>2. /\ \A v : i.op = "store" =>
           LET t == [m EXCEPT !.memory = Given(@, i.place, v)]
           IN  Machine(t) /\ t.values = m.values /\ t.memory = Given(m.memory, i.place, v)
      /\ \A l : LET t == [m EXCEPT !.skip = l]
                IN  Machine(t) /\ t.values = m.values /\ t.memory = m.memory
      /\ \A v : LET t == [m EXCEPT !.told = v]
                IN  Machine(t) /\ t.values = m.values /\ t.memory = m.memory
  BY DEF Holds, Machine
<1>3. ASSUME Defines(i), NEW v \in Int PROVE Holds(c, Gives(m, i, v))
  BY <1>1, <1>3, GivesHolds
<1>4. CASE i.op = "load"
  <2>1. i.place \in DOMAIN b.places /\ b.places[i.place] = i.type /\ i.type \in ValueTypes
    BY <1>4, InstructionFields DEF Accepted, Placed
  <2>2. HeldIn(m, i.place) \in Int
    <3>1. CASE i.place \in DOMAIN m.memory
      BY <2>1, <3>1 DEF HeldIn, Holds, ValuesOfTypes, OfWidth
    <3>2. CASE i.place \notin DOMAIN m.memory
      BY <3>2 DEF HeldIn
    <3> QED
      BY <3>1, <3>2
  <2>3. Defines(i)
    BY <1>4 DEF Defines
  <2>4. Executed(m, i) = Gives(m, i, HeldIn(m, i.place))
    BY <1>4, ExecutedBy
  <2> QED
    BY <1>3, <2>2, <2>3, <2>4
<1>5. CASE i.op = "store"
  <2> DEFINE v == ValueOf(m, i.type, i.left)
             t == [m EXCEPT !.memory = Given(@, i.place, v)]
  <2>1. /\ i.place \in DOMAIN b.places /\ b.places[i.place] = i.type
        /\ i.type \in ValueTypes /\ i.left \in IROperands
    BY <1>5, InstructionFields DEF Accepted, Placed
  <2>2. <<i.type, i.left>> \in Uses(i)
    BY <1>5 DEF Uses
  <2>3. OfWidth(v, i.type)
    BY <2>1, <2>2, UsesHold
  <2>4. Executed(m, i) = t
    BY <1>5, ExecutedBy
  <2>5. Machine(t) /\ t.values = m.values /\ t.memory = Given(m.memory, i.place, v)
    BY <1>2, <1>5
  <2>6. i.place \in DOMAIN c.places /\ c.places[i.place] = i.type
    BY <1>1, <1>5, <2>1
  <2> HIDE DEF v, t
  <2>7. ValuesOfTypes(m.memory, c.places)
    BY DEF Holds
  <2>8. ValuesOfTypes(t.memory, c.places)
    BY <2>3, <2>5, <2>6, <2>7, GivenValue
  <2>9. \A n \in Names : Variable(n) \in DOMAIN t.memory
    BY <2>5 DEF Holds, Given
  <2> QED
    BY <2>4, <2>5, <2>8, <2>9 DEF Holds
<1>6. CASE i.op \in {"alloca", "label"}
  BY <1>6, ExecutedBy
<1>7. CASE i.op \in {"trunc", "sext", "zext"}
  <2> DEFINE v == ValueOf(m, i.type, i.left)
  <2>1. i.left \in {"%t"} \X Int
    BY <1>7, InstructionFields
  <2>2. <<i.type, i.left>> \in Uses(i)
    BY <1>7 DEF Uses
  <2>3. i.left[1] = "%t" /\ i.left[2] \in DOMAIN b.types /\ b.types[i.left[2]] = i.type
    BY <2>1, <2>2 DEF Accepted
  <2>4. i.type \in ValueTypes
    BY <2>3 DEF Holds, Types
  <2>5. i.left \in IROperands
    BY <2>1 DEF IROperands
  <2>6. v \in Int
    BY <2>2, <2>4, <2>5, UsesHold DEF OfWidth
  <2>7. Pattern(v, i.type) \in Int
    BY <2>4, <2>6, PatternIsNumber
  <2>8. Defines(i)
    BY <1>7 DEF Defines
  <2>9. Executed(m, i) = IF i.op = "zext" THEN Gives(m, i, Pattern(v, i.type))
                                          ELSE Gives(m, i, v)
    BY <1>7, ExecutedBy
  <2> HIDE DEF v
  <2> QED
    BY <1>3, <2>6, <2>7, <2>8, <2>9
<1>8. CASE i.op \in {"br", "jump", "ret"}
  <2>1. \A u : Machine(u) /\ u.values = m.values /\ u.memory = m.memory => Holds(c, u)
    BY DEF Holds
  <2>2. CASE i.op = "br"
    <3> DEFINE l == IF ValueOf(m, "i1", i.left) # 0 THEN i.yes ELSE i.no
    <3>1. Executed(m, i) = [m EXCEPT !.skip = l]
      BY <2>2, ExecutedBy
    <3> HIDE DEF l
    <3> QED
      BY <1>2, <2>1, <3>1
  <2>3. CASE i.op = "jump"
    <3>1. Executed(m, i) = [m EXCEPT !.skip = i.yes]
      BY <2>3, ExecutedBy
    <3> QED
      BY <1>2, <2>1, <3>1
  <2>4. CASE i.op = "ret"
    <3> DEFINE v == ValueOf(m, i.type, i.left)
    <3>1. Executed(m, i) = [m EXCEPT !.told = v]
      BY <2>4, ExecutedBy
    <3> HIDE DEF v
    <3> QED
      BY <1>2, <2>1, <3>1
  <2> QED
    BY <1>8, <2>2, <2>3, <2>4
<1>9. CASE i.op = "call"
  BY <1>1, <1>9, CalledHolds, ExecutedBy
<1>10. CASE i.op \in Computations \cup Predicates
  <2> DEFINE l == ValueOf(m, i.type, i.left)
             r == ValueOf(m, i.type, i.right)
             v == Computed(i.op, l, r, i.type)
  <2>0. i.op \notin {"load", "store", "alloca", "trunc", "sext", "zext", "br", "jump",
                     "label", "call", "ret"}
    BY <1>10 DEF Computations, Predicates
  <2>1. i.type \in ValueTypes /\ i.left \in IROperands /\ i.right \in IROperands
    BY <1>10, InstructionFields
  <2>2. <<i.type, i.left>> \in Uses(i) /\ <<i.type, i.right>> \in Uses(i)
    BY <1>10, <2>0 DEF Uses
  <2>3. l \in Int /\ r \in Int
    BY <2>1, <2>2, UsesHold DEF OfWidth
  <2>4. Defines(i)
    BY <1>10 DEF Defines
  <2>5. Executed(m, i) = Gives(m, i, v)
    BY <1>10, <2>0, ExecutedBy
  <2> HIDE DEF l, r
  <2>6. v \in Int
    BY <1>10, <2>1, <2>3, ComputedIsNumber
  <2> HIDE DEF v
  <2> QED
    BY <1>3, <2>4, <2>5, <2>6
<1> QED
  BY <1>4, <1>5, <1>6, <1>7, <1>8, <1>9, <1>10, OperationsOfInstructions

LEMMA StepHolds ==
    ASSUME NEW b, NEW m, Holds(b, m), NEW i \in Instructions, Accepted(b, i)
    PROVE  Holds(Checked(b, i), Step(m, i))
<1> DEFINE c == Checked(b, i)
           u == [m EXCEPT !.skip = 0]
<1>1. Holds(c, m)
  BY CheckedHolds
<1>2. Machine(u) /\ u.values = m.values /\ u.memory = m.memory
  BY DEF Holds, Machine
<1>3. Step(m, i) = Executed(u, i) \/ Step(m, i) = m
  BY DEF Step
<1> HIDE DEF u
<1>4. c = Checked(b, i)
  OBVIOUS
<1> HIDE DEF c
<1>5. Holds(c, u) /\ Holds(b, u)
  BY <1>1, <1>2 DEF Holds
<1>6. Holds(c, Executed(u, i))
  BY <1>4, <1>5, ExecutedHolds
<1> QED
  BY <1>1, <1>3, <1>4, <1>6

LEMMA RunIsSteady ==
    ASSUME NEW x, Steady(x), NEW i \in Instructions
    PROVE  Steady(Run(x, i))
<1> DEFINE c == Checked(x.check, i)
<1>1. /\ Run(x, i).check = c
      /\ Run(x, i).machine = IF c.faults = {} THEN Step(x.machine, i) ELSE x.machine
  BY DEF Run
<1>2. c.faults = IF Accepted(x.check, i) THEN x.check.faults ELSE x.check.faults \cup {i}
  BY DEF Checked
<1>3. CASE c.faults # {}
  BY <1>1, <1>3 DEF Steady
<1>4. CASE c.faults = {}
  <2>1. x.check.faults = {} /\ Accepted(x.check, i)
    BY <1>2, <1>4
  <2>2. Holds(x.check, x.machine)
    BY <2>1 DEF Steady
  <2>3. Holds(c, Step(x.machine, i))
    BY <2>1, <2>2, StepHolds
  <2>4. Run(x, i).check = c /\ Run(x, i).machine = Step(x.machine, i)
    BY <1>1, <1>4
  <2> DEFINE m == Step(x.machine, i)
  <2> HIDE DEF c, m
  <2>5. Holds(c, m)
    BY <2>3 DEF m
  <2>6. VariablesHold(m)
    BY <2>5 DEF Holds, Types, ValuesOfTypes, VariablesHold
  <2> QED
    BY <2>4, <2>5, <2>6 DEF Steady, m
<1> QED
  BY <1>3, <1>4

LEMMA StartIsSteady ==
    ASSUME IsMemory(memory)
    PROVE  Steady(Start)
<1>1. \A n \in Names : Variable(n) \in Variables /\ Variable(n)[2] = n
  BY DEF Variables, Variable
<1>2. \A p \in Variables : p[2] \in Names /\ p = Variable(p[2])
  BY DEF Variables, Variable
<1>3. /\ Start.check.types = <<>> /\ Start.check.faults = {} /\ Start.machine.values = <<>>
      /\ Start.check.places = [p \in Variables |-> LLVM[Type[p[2]]]]
      /\ Start.machine.memory = [p \in Variables |-> memory[p[2]]]
      /\ Machine(Start.machine)
  BY DEF Start, Machine
<1>4. DOMAIN Start.check.types = {} /\ DOMAIN Start.machine.values = {}
  BY <1>3
<1>5. \A n \in Names : LLVM[Type[n]] \in ValueTypes /\ OfWidth(memory[n], LLVM[Type[n]])
  <2>1. ASSUME NEW n \in Names
        PROVE  LLVM[Type[n]] \in ValueTypes /\ OfWidth(memory[n], LLVM[Type[n]])
    <3>1. Type[n] \in VariableTypes
      BY DeclarationsAssumption
    <3>2. LLVM[Type[n]] \in ValueTypes
      BY <3>1 DEF VariableTypes, LLVM, ValueTypes
    <3> QED
      BY <3>2 DEF IsMemory, Fits, OfWidth
  <2> QED
    BY <2>1
<1>6. \A p \in Variables : /\ Start.check.places[p] \in ValueTypes
                           /\ OfWidth(Start.machine.memory[p], Start.check.places[p])
  BY <1>2, <1>3, <1>5
<1>7. \A n \in Names : /\ Start.check.places[Variable(n)] = LLVM[Type[n]]
                       /\ OfWidth(Start.machine.memory[Variable(n)], LLVM[Type[n]])
  BY <1>1, <1>3, <1>5
<1>8. DOMAIN Start.check.places = Variables /\ DOMAIN Start.machine.memory = Variables
  BY <1>3
<1>9. Types(Start.check)
  BY <1>1, <1>4, <1>6, <1>7, <1>8 DEF Types
<1>10. /\ ValuesOfTypes(Start.machine.values, Start.check.types)
       /\ ValuesOfTypes(Start.machine.memory, Start.check.places)
  BY <1>4, <1>6, <1>8 DEF ValuesOfTypes
<1>11. VariablesHold(Start.machine)
  BY <1>7 DEF VariablesHold
<1> QED
  BY <1>1, <1>3, <1>8, <1>9, <1>10, <1>11 DEF Steady, Holds

\* The code leaves numbers of their types in the variables, as it found them.
LEMMA ExecutionIsSteady ==
    ASSUME IsMemory(memory), NEW code \in Seq(Instructions)
    PROVE  Steady(Execution(code))
<1> DEFINE n == Len(code)
<1>0. n \in Nat /\ \A k \in 1 .. n : code[k] \in Instructions
  OBVIOUS
<1>1. PICK x : Traces(x, code) /\ Execution(code) = x[n]
  BY ExecutionIsTrace
<1>2. x[0] = Start /\ \A k \in 1 .. n : x[k] = Run(x[k - 1], code[k])
  BY <1>1, TraceSteps
<1> HIDE DEF n
<1> DEFINE T == {k \in 0 .. n : Steady(x[k])}
<1>3. T = 0 .. n
  <2>1. T \in SUBSET (0 .. n) /\ 0 \in T
    BY <1>0, <1>2, StartIsSteady
  <2>2. ASSUME NEW k \in 0 + 1 .. n, k - 1 \in T PROVE k \in T
    <3>1. k \in 1 .. n /\ k \in 0 .. n /\ code[k] \in Instructions
      BY <1>0
    <3>2. Steady(x[k - 1])
      BY <2>2
    <3>3. Steady(Run(x[k - 1], code[k]))
      BY <3>1, <3>2, RunIsSteady
    <3> QED
      BY <3>1, <3>3, <1>2
  <2> HIDE DEF T
  <2> QED
    BY <1>0, <2>1, <2>2, Stretch
<1>4. Steady(x[n])
  BY <1>0, <1>3
<1> QED
  BY <1>1, <1>4

-------------------------------------------------------------------------------
\* What C leaves in them is of their types as well.

LEMMA MeaningFields ==
    \A c \in Meanings : /\ c.value \in Int /\ c.type \in VariableTypes
                        /\ c.memory \in [Names -> Int] /\ c.ok \in BOOLEAN
                        /\ c.sent \in Seq(FunctionNames \X Seq(Int))
  BY DEF Meanings

LEMMA MeansTransitive ==
    ASSUME NEW c, NEW d, NEW x, Means(c, d), Means(d, x)
    PROVE  Means(c, x)
  BY DEF Means

LEMMA MeansItself ==
    ASSUME NEW c \in Meanings
    PROVE  Means(c, c)
  BY DEF Means

LEMMA HavingMeans ==
    ASSUME NEW c \in Meanings, NEW v \in Int, NEW type \in VariableTypes
    PROVE  Means(c, Having(c, v, type))
<1> DEFINE ok == c.ok /\ Fits(v, type)
           d == Having(c, v, type)
<1>1. ok \in BOOLEAN
  OBVIOUS
<1>2. d = [c EXCEPT !.value = v, !.type = type, !.ok = ok]
  BY DEF Having
<1> HIDE DEF ok, d
<1>3. d \in Meanings /\ d.memory = c.memory
  BY <1>1, <1>2 DEF Meanings
<1> QED
  BY <1>3 DEF Means, d

LEMMA ProvidedMeans ==
    ASSUME NEW c \in Meanings, NEW condition \in BOOLEAN
    PROVE  Means(c, Provided(c, condition))
<1> DEFINE ok == c.ok /\ condition
           d == Provided(c, condition)
<1>1. ok \in BOOLEAN
  OBVIOUS
<1>2. d = [c EXCEPT !.ok = ok]
  BY DEF Provided
<1> HIDE DEF ok, d
<1>3. d \in Meanings /\ d.memory = c.memory
  BY <1>1, <1>2 DEF Meanings
<1> QED
  BY <1>3 DEF Means, d

LEMMA VariablesAreValues ==
    \A type \in VariableTypes : LLVM[type] \in ValueTypes
  BY DEF VariableTypes, LLVM, ValueTypes

LEMMA HoldingMeans ==
    ASSUME NEW c \in Meanings, NEW n \in Names, NEW v \in Int
    PROVE  Means(c, Holding(c, n, v))
<1> DEFINE w == Wrapped(v, LLVM[Type[n]])
           d == Holding(c, n, v)
<1>1. Type[n] \in VariableTypes
  BY DeclarationsAssumption
<1>2. OfWidth(w, LLVM[Type[n]])
  BY <1>1, VariablesAreValues, WrappedIsOfWidth
<1>3. d = [c EXCEPT !.memory[n] = w, !.value = w, !.type = Type[n]]
  BY DEF Holding
<1> HIDE DEF w, d
<1>4. w \in Int
  BY <1>2 DEF OfWidth
<1>5. c.memory \in [Names -> Int]
  BY MeaningFields
<1>6. d \in Meanings /\ d.memory = [c.memory EXCEPT ![n] = w]
  BY <1>1, <1>3, <1>4, <1>5 DEF Meanings
<1>7. IsMemory(c.memory) => IsMemory(d.memory)
  BY <1>2, <1>4, <1>5, <1>6 DEF IsMemory, Fits, OfWidth
<1> QED
  BY <1>6, <1>7 DEF Means, d

LEMMA OperationIsNumber ==
    ASSUME NEW op \in Arithmetic \cup Comparisons, NEW a \in Int, NEW b \in Int,
           NEW type \in {"int", "long"}
    PROVE  Operation(op, a, b, type) \in Int
<1> DEFINE t == LLVM[type]
           bits == Bits[t]
           outside == TwoTo[bits]
           p == Pattern(a, t)
           q == Pattern(b, t)
<1>1. t \in ValueTypes
  BY VariablesAreValues DEF VariableTypes
<1>2. bits \in 1 .. LongBits /\ outside \in Int /\ p \in Int /\ q \in Int
  BY <1>1, BitsOfTypes, TwoToUnfolds, PatternIsNumber
<1>3. \A c : Bool(c) \in Int
  BY DEF Bool
<1>4. CASE op \in {"OP_ADD", "OP_SUB", "OP_MUL"}
  <2>1. a + b \in Int /\ a - b \in Int /\ a * b \in Int
    OBVIOUS
  <2> QED
    BY <1>4, <2>1 DEF Operation
<1>5. CASE op \in {"OP_DIV", "OP_MOD"}
  <2>1. CASE b = 0
    BY <1>2, <1>5, <2>1 DEF Operation
  <2>2. CASE b # 0
    <3>1. Toward0(a, b) \in Int
      BY <2>2, QuotientIsNumber
    <3>2. a - b * Toward0(a, b) \in Int
      BY <3>1
    <3> QED
      BY <1>5, <2>2, <3>1, <3>2 DEF Operation
  <2> QED
    BY <2>1, <2>2
<1>6. CASE op \in {"OP_BAND", "OP_BOR", "OP_BXOR"}
  <2>1. /\ And \in [0 .. 2 -> Int] /\ Or \in [0 .. 2 -> Int] /\ Xor \in [0 .. 2 -> Int]
    BY DEF And, Or, Xor
  <2> DEFINE x == Bitwise(And, p, q)
             y == Bitwise(Or, p, q)
             z == Bitwise(Xor, p, q)
  <2>2. x \in Int /\ y \in Int /\ z \in Int
    BY <1>2, <2>1, BitwiseIsNumber
  <2>3. \/ Operation(op, a, b, type) = Wrapped(x, t)
        \/ Operation(op, a, b, type) = Wrapped(y, t)
        \/ Operation(op, a, b, type) = Wrapped(z, t)
    BY <1>6 DEF Operation
  <2> HIDE DEF x, y, z, t
  <2>4. Wrapped(x, t) \in Int /\ Wrapped(y, t) \in Int /\ Wrapped(z, t) \in Int
    BY <1>1, <2>2, WrappedIsOfWidth DEF OfWidth
  <2> QED
    BY <2>3, <2>4
<1>7. CASE op \in {"OP_LSHIFT", "OP_RSHIFT"}
  <2>1. CASE b \in 0 .. (bits - 1)
    <3> DEFINE d == TwoTo[b]
    <3>1. b \in 0 .. LongBits
      BY <1>2, <2>1, WidthsAssumption
    <3>2. d \in Nat \ {0}
      BY <3>1, TwoToUnfolds
    <3> HIDE DEF d
    <3>3. a * d \in Int /\ a \div d \in Int
      BY <3>2
    <3>4. \/ Operation(op, a, b, type) = outside
          \/ Operation(op, a, b, type) = a * d
          \/ Operation(op, a, b, type) = a \div d
      BY <1>7, <2>1 DEF Operation, d
    <3> QED
      BY <1>2, <3>3, <3>4
  <2>2. CASE b \notin 0 .. (bits - 1)
    <3>1. Operation(op, a, b, type) = outside
      BY <1>7, <2>2 DEF Operation
    <3> QED
      BY <1>2, <3>1
  <2> QED
    BY <2>1, <2>2
<1>8. CASE op \in Comparisons
  BY <1>3, <1>8 DEF Comparisons, Operation
<1> QED
  BY <1>4, <1>5, <1>6, <1>7, <1>8 DEF Arithmetic

LEMMA TypesInCommon ==
    /\ \A a, b : Common(a, b) \in {"int", "long"}
    /\ \A a : Promotion(a) \in {"int", "long"}
  BY DEF Common, Promotion

LEMMA EvaluateLogicalMeans ==
    ASSUME NEW c \in Meanings, NEW e, NEW of_left \in Evaluators, NEW of_right \in Evaluators
    PROVE  Means(c, EvaluateLogical(c, e, of_left, of_right))
<1> DEFINE left == of_left[c]
           right == of_right[left]
           a == Bool(right.value # 0)
           b == Bool(left.value # 0)
<1>0. EvaluateLogical(c, e, of_left, of_right) =
         IF (left.value # 0) = (e.op = "OP_LAND") THEN Having(right, a, "int")
                                                  ELSE Having(left, b, "int")
  BY DEF EvaluateLogical
<1>1. Means(c, left) /\ left \in Meanings
  BY DEF Evaluators, Means
<1>3. a \in Int /\ b \in Int /\ "int" \in VariableTypes
  BY DEF Bool, VariableTypes
<1> HIDE DEF left
<1>2. Means(left, right) /\ right \in Meanings
  BY <1>1 DEF Evaluators, Means
<1> HIDE DEF right, a, b
<1>4. Means(left, Having(left, b, "int")) /\ Means(right, Having(right, a, "int"))
  BY <1>1, <1>2, <1>3, HavingMeans
<1> QED
  BY <1>0, <1>1, <1>2, <1>4, MeansTransitive

LEMMA EvaluateBinaryMeans ==
    ASSUME NEW c \in Meanings, NEW e, e.op \in Arithmetic \cup Comparisons,
           NEW of_left \in Evaluators, NEW of_right \in Evaluators
    PROVE  Means(c, EvaluateBinary(c, e, of_left, of_right))
<1> DEFINE left == of_left[c]
           right == of_right[left]
           type == Common(left.type, right.type)
           apart == Unsequenced(e.left, e.right)
           given == Provided(right, apart)
           v == Operation(e.op, left.value, right.value, type)
           of == IF IsComparison(e) THEN "int" ELSE type
<1>0. EvaluateBinary(c, e, of_left, of_right) = Having(given, v, of)
  BY DEF EvaluateBinary
<1>1. Means(c, left) /\ left \in Meanings
  BY DEF Evaluators, Means
<1>2. apart \in BOOLEAN
  BY DEF Unsequenced
<1> HIDE DEF left, apart
<1>3. Means(left, right) /\ right \in Meanings
  BY <1>1 DEF Evaluators, Means
<1>4. type \in {"int", "long"}
  BY TypesInCommon
<1> HIDE DEF right, type
<1>5. v \in Int
  BY <1>1, <1>3, <1>4, MeaningFields, OperationIsNumber
<1>6. of \in VariableTypes
  BY <1>4 DEF VariableTypes
<1>7. Means(right, given) /\ given \in Meanings
  BY <1>2, <1>3, ProvidedMeans DEF Means
<1> HIDE DEF given, v, of
<1>8. Means(given, Having(given, v, of))
  BY <1>5, <1>6, <1>7, HavingMeans
<1> QED
  BY <1>0, <1>1, <1>3, <1>7, <1>8, MeansTransitive

LEMMA EvaluateIncrementMeans ==
    ASSUME NEW c \in Meanings, NEW e, e.operand.name \in Names
    PROVE  Means(c, EvaluateIncrement(c, e))
<1> DEFINE n == e.operand.name
           new == c.memory[n] + (IF e.op \in {"OP_PREINC", "OP_POSTINC"} THEN 1 ELSE -1)
           fits == Fits(new, Promotion(Type[n]))
           given == Provided(c, fits)
           after == Holding(given, n, new)
           old == c.memory[n]
<1>0. EvaluateIncrement(c, e) =
         IF e.op \in {"OP_PREINC", "OP_PREDEC"} THEN after ELSE Having(after, old, Type[n])
  BY DEF EvaluateIncrement
<1>1. fits \in BOOLEAN
  BY DEF Fits
<1>2. c.memory \in [Names -> Int]
  BY MeaningFields
<1>3. new \in Int /\ old \in Int /\ n \in Names /\ Type[n] \in VariableTypes
  BY <1>2, DeclarationsAssumption
<1> HIDE DEF n, new, fits, old
<1>4. Means(c, given) /\ given \in Meanings
  BY <1>1, ProvidedMeans DEF Means
<1> HIDE DEF given
<1>5. Means(given, after) /\ after \in Meanings
  BY <1>3, <1>4, HoldingMeans DEF Means
<1> HIDE DEF after
<1>6. Means(after, Having(after, old, Type[n]))
  BY <1>3, <1>5, HavingMeans
<1> QED
  BY <1>0, <1>4, <1>5, <1>6, MeansTransitive

LEMMA EvaluateUnaryMeans ==
    ASSUME NEW c \in Meanings, NEW e, e.op \in Signs, NEW of_operand \in Evaluators
    PROVE  Means(c, EvaluateUnary(c, e, of_operand))
<1> DEFINE operand == of_operand[c]
           type == Promotion(operand.type)
           zero == Bool(operand.value = 0)
           v == operand.value
<1>0. EvaluateUnary(c, e, of_operand) =
         IF e.op = "OP_NOT" THEN Having(operand, zero, "int")
         ELSE IF e.op = "OP_NEG" THEN Having(operand, -v, type)
         ELSE Having(operand, -v - 1, type)
  BY DEF EvaluateUnary, Signs
<1>1. Means(c, operand) /\ operand \in Meanings
  BY DEF Evaluators, Means
<1>2. type \in VariableTypes /\ "int" \in VariableTypes /\ zero \in Int
  BY TypesInCommon DEF VariableTypes, Bool
<1> HIDE DEF operand
<1>3. v \in Int
  BY <1>1, MeaningFields
<1> HIDE DEF v, type, zero
<1>4. -v \in Int /\ -v - 1 \in Int
  BY <1>3
<1>5. /\ Means(operand, Having(operand, zero, "int"))
      /\ Means(operand, Having(operand, -v, type))
      /\ Means(operand, Having(operand, -v - 1, type))
  BY <1>1, <1>2, <1>4, HavingMeans
<1> QED
  BY <1>0, <1>1, <1>5, MeansTransitive

LEMMA EvaluateConditionalMeans ==
    ASSUME NEW c \in Meanings, NEW of_condition \in Evaluators,
           NEW of_true \in Evaluators, NEW of_false \in Evaluators
    PROVE  Means(c, EvaluateConditional(c, of_condition, of_true, of_false))
<1> DEFINE condition == of_condition[c]
           yes == of_true[condition]
           no == of_false[condition]
           chosen == IF condition.value # 0 THEN yes ELSE no
           type == Common(yes.type, no.type)
<1>0. EvaluateConditional(c, of_condition, of_true, of_false)
        = Having(chosen, chosen.value, type)
  BY DEF EvaluateConditional
<1>1. Means(c, condition) /\ condition \in Meanings
  BY DEF Evaluators, Means
<1>2. type \in VariableTypes
  BY TypesInCommon DEF VariableTypes
<1> HIDE DEF condition, type
<1>3. Means(condition, yes) /\ Means(condition, no)
  BY <1>1 DEF Evaluators
<1> HIDE DEF yes, no
<1>4. Means(condition, chosen) /\ chosen \in Meanings
  BY <1>3 DEF Means
<1> HIDE DEF chosen
<1>5. Means(chosen, Having(chosen, chosen.value, type))
  BY <1>2, <1>4, MeaningFields, HavingMeans
<1> QED
  BY <1>0, <1>1, <1>4, <1>5, MeansTransitive

LEMMA EvaluateAssignmentMeans ==
    ASSUME NEW c \in Meanings, NEW e, e.name \in Names, e.op \in {"OP_ASSIGN"} \cup Arithmetic,
           NEW of_value \in Evaluators
    PROVE  Means(c, EvaluateAssignment(c, e, of_value))
<1> DEFINE apart == e.name \notin Writes[e.value]
           first == of_value[c]
           value == Provided(first, apart)
           type == Common(Type[e.name], value.type)
           new == Operation(e.op, value.memory[e.name], value.value, type)
           had == Having(value, new, type)
<1>0. EvaluateAssignment(c, e, of_value) =
         IF e.op = "OP_ASSIGN" THEN Holding(value, e.name, value.value)
         ELSE Holding(had, e.name, new)
  BY DEF EvaluateAssignment
<1>1. apart \in BOOLEAN
  OBVIOUS
<1>2. Means(c, first) /\ first \in Meanings
  BY DEF Evaluators, Means
<1> HIDE DEF apart, first
<1>3. Means(first, value) /\ value \in Meanings
  BY <1>1, <1>2, ProvidedMeans DEF Means
<1>4. type \in {"int", "long"} /\ type \in VariableTypes
  BY TypesInCommon DEF VariableTypes
<1> HIDE DEF value, type
<1>5. value.value \in Int /\ value.memory[e.name] \in Int
  BY <1>3, MeaningFields
<1>6. CASE e.op = "OP_ASSIGN"
  <2>1. Means(value, Holding(value, e.name, value.value))
    BY <1>3, <1>5, HoldingMeans
  <2> QED
    BY <1>0, <1>2, <1>3, <1>6, <2>1, MeansTransitive
<1>7. CASE e.op # "OP_ASSIGN"
  <2>1. new \in Int
    BY <1>4, <1>5, <1>7, OperationIsNumber
  <2> HIDE DEF new
  <2>2. Means(value, had) /\ had \in Meanings
    BY <1>3, <1>4, <2>1, HavingMeans DEF Means
  <2> HIDE DEF had
  <2>3. Means(had, Holding(had, e.name, new))
    BY <2>1, <2>2, HoldingMeans
  <2> QED
    BY <1>0, <1>2, <1>3, <1>7, <2>2, <2>3, MeansTransitive
<1> QED
  BY <1>6, <1>7

LEMMA EvaluateCallMeans ==
    ASSUME NEW c \in Meanings, NEW e \in Expressions, e.kind = "AST_CALL",
           NEW of_args, \A i \in 1 .. Len(e.args) : of_args[i] \in Evaluators
    PROVE  Means(c, EvaluateCall(c, e, of_args))
<1> DEFINE n == Len(e.args)
           f == Function[e.name]
           after == InTurn(c, n, of_args)
           passed == [i \in 1 .. n |-> Wrapped(after[i].value, LLVM[f.params[i]])]
           apart == \A i, j \in 1 .. n : i # j => Unsequenced(e.args[i], e.args[j])
           given == Provided(after[n], apart)
           called == [given EXCEPT !.sent = Append(@, <<e.name, passed>>)]
           v == Wrapped(Answered(e.name, passed), LLVM[f.result])
<1>0. EvaluateCall(c, e, of_args) =
         IF f.result = "void" THEN called ELSE Having(called, v, f.result)
  BY DEF EvaluateCall
<1>1. /\ n \in Nat /\ e.name \in FunctionNames
      /\ f.result \in VariableTypes \cup {"void"} /\ f.params \in Seq(VariableTypes)
      /\ Len(f.params) = n
  <2>1. e.name \in FunctionNames /\ e.args \in Seq(Expressions) /\ Len(f.params) = n
    BY CallFields
  <2> QED
    BY <2>1, DeclarationsAssumption
<1>2. \A i \in 1 .. n : f.params[i] \in VariableTypes
  <2> HIDE DEF f
  <2> QED
    BY <1>1
<1>3. apart \in BOOLEAN
  OBVIOUS
<1>4. \A i \in 1 .. n : of_args[i] \in Evaluators /\ of_args[i] \in [Meanings -> Meanings]
  BY DEF Evaluators
<1> HIDE DEF n, f, apart
<1>5. /\ after \in [0 .. n -> Meanings] /\ after[0] = c
      /\ \A i \in 1 .. n : after[i] = of_args[i][after[i - 1]]
  BY <1>1, <1>4, InTurnUnfolds
<1> HIDE DEF after
<1> DEFINE T == {i \in 0 .. n : Means(c, after[i])}
<1>6. T = 0 .. n
  <2>1. T \in SUBSET (0 .. n) /\ 0 \in T
    BY <1>1, <1>5, MeansItself
  <2>2. ASSUME NEW i \in 0 + 1 .. n, i - 1 \in T PROVE i \in T
    <3>1. i \in 1 .. n /\ i \in 0 .. n /\ i - 1 \in 0 .. n
      BY <1>1
    <3>2. Means(c, after[i - 1]) /\ after[i - 1] \in Meanings
      BY <2>2, <3>1, <1>5
    <3>3. Means(after[i - 1], of_args[i][after[i - 1]])
      BY <1>4, <3>1, <3>2 DEF Evaluators
    <3>4. Means(c, after[i])
      BY <1>5, <3>1, <3>2, <3>3, MeansTransitive
    <3> QED
      BY <3>1, <3>4
  <2> HIDE DEF T
  <2> QED
    BY <1>1, <2>1, <2>2, Stretch
<1>7. n \in 0 .. n /\ Means(c, after[n]) /\ after[n] \in Meanings
  BY <1>1, <1>5, <1>6
<1>8. Means(after[n], given) /\ given \in Meanings
  BY <1>3, <1>7, ProvidedMeans DEF Means
<1> HIDE DEF given
<1>9. passed \in Seq(Int)
  <2>1. ASSUME NEW i \in 1 .. n PROVE Wrapped(after[i].value, LLVM[f.params[i]]) \in Int
    <3>1. i \in 0 .. n
      BY <1>1
    <3>2. after[i].value \in Int
      BY <3>1, <1>5, MeaningFields
    <3>3. LLVM[f.params[i]] \in ValueTypes
      BY <1>2, VariablesAreValues
    <3> QED
      BY <3>2, <3>3, WrappedIsOfWidth DEF OfWidth
  <2>2. passed \in [1 .. n -> Int]
    BY <2>1
  <2> HIDE DEF passed
  <2> QED
    BY <1>1, <2>2
<1> HIDE DEF passed
<1>10. Means(given, called) /\ called \in Meanings
  <2> DEFINE call == <<e.name, passed>>
             sent == Append(given.sent, call)
  <2>1. call \in FunctionNames \X Seq(Int)
    BY <1>1, <1>9
  <2> HIDE DEF call
  <2>2. given.sent \in Seq(FunctionNames \X Seq(Int))
    BY <1>8, MeaningFields
  <2>3. sent \in Seq(FunctionNames \X Seq(Int))
    BY <2>1, <2>2
  <2>4. called = [given EXCEPT !.sent = sent]
    BY DEF call
  <2> HIDE DEF sent, called
  <2>5. called \in Meanings /\ called.memory = given.memory
    BY <1>8, <2>3, <2>4 DEF Meanings
  <2> QED
    BY <1>8, <2>5 DEF Means
<1> HIDE DEF called
<1>11. Means(c, called)
  BY <1>7, <1>8, <1>10, MeansTransitive
<1>12. CASE f.result = "void"
  BY <1>0, <1>11, <1>12
<1>13. CASE f.result # "void"
  <2>1. f.result \in VariableTypes
    BY <1>1, <1>13
  <2>2. Answered(e.name, passed) \in Int
    BY <1>9 DEF Answered
  <2>3. v \in Int
    BY <2>1, <2>2, VariablesAreValues, WrappedIsOfWidth DEF OfWidth
  <2> HIDE DEF v
  <2>4. Means(called, Having(called, v, f.result))
    BY <1>10, <2>1, <2>3, HavingMeans
  <2> QED
    BY <1>0, <1>11, <1>13, <2>4, MeansTransitive
<1> QED
  BY <1>12, <1>13

\* Each clause rests on what evaluating the parts is.
LEMMA EvaluateMeans ==
    ASSUME NEW c \in Meanings, NEW e \in Expressions, NEW of,
           \A p \in PartsOf(e) : of[p] \in Evaluators
    PROVE  Means(c, Evaluate(of, c, e))
<1>1. CASE IsLiteral(e)
  <2>1. Evaluate(of, c, e) = Having(c, e.value, "int")
    BY <1>1 DEF Evaluate, IsLiteral
  <2>2. e.value \in Int /\ "int" \in VariableTypes
    BY <1>1, LeafFields DEF VariableTypes
  <2> QED
    BY <2>1, <2>2, HavingMeans
<1>2. CASE e.kind = "AST_IDENTIFIER"
  <2>1. Evaluate(of, c, e) = Having(c, c.memory[e.name], Type[e.name])
    BY <1>2 DEF Evaluate, IsLiteral
  <2>2. e.name \in Names /\ c.memory \in [Names -> Int]
    BY <1>2, LeafFields, MeaningFields
  <2>3. c.memory[e.name] \in Int /\ Type[e.name] \in VariableTypes
    BY <2>2, DeclarationsAssumption
  <2> QED
    BY <2>1, <2>3, HavingMeans
<1>3. CASE e.kind = "AST_BINARY_OP"
  <2>1. of[e.left] \in Evaluators /\ of[e.right] \in Evaluators
    BY <1>3, BinaryParts
  <2>2. CASE e.op \in Logical
    <3>1. Evaluate(of, c, e) = EvaluateLogical(c, e, of[e.left], of[e.right])
      BY <1>3, <2>2 DEF Evaluate, IsLiteral
    <3> QED
      BY <2>1, <3>1, EvaluateLogicalMeans
  <2>3. CASE e.op \notin Logical
    <3>1. Evaluate(of, c, e) = EvaluateBinary(c, e, of[e.left], of[e.right])
      BY <1>3, <2>3 DEF Evaluate, IsLiteral
    <3>2. e.op \in Arithmetic \cup Comparisons
      BY <1>3, <2>3, BinaryFields
    <3> QED
      BY <2>1, <3>1, <3>2, EvaluateBinaryMeans
  <2> QED
    BY <2>2, <2>3
<1>4. CASE e.kind = "AST_UNARY_OP"
  <2>1. CASE e.op \in Increments
    <3>1. Evaluate(of, c, e) = EvaluateIncrement(c, e)
      BY <1>4, <2>1 DEF Evaluate, IsLiteral
    <3>2. e.operand.name \in Names
      BY <1>4, <2>1, UnaryFields, LeafFields
    <3> QED
      BY <3>1, <3>2, EvaluateIncrementMeans
  <2>2. CASE e.op \notin Increments
    <3>1. Evaluate(of, c, e) = EvaluateUnary(c, e, of[e.operand])
      BY <1>4, <2>2 DEF Evaluate, IsLiteral
    <3>2. of[e.operand] \in Evaluators /\ e.op \in Signs
      BY <1>4, <2>2, UnaryParts, UnaryFields
    <3> QED
      BY <3>1, <3>2, EvaluateUnaryMeans
  <2> QED
    BY <2>1, <2>2
<1>5. CASE e.kind = "AST_CONDITIONAL"
  <2>1. Evaluate(of, c, e) =
           EvaluateConditional(c, of[e.condition], of[e.true_expr], of[e.false_expr])
    BY <1>5 DEF Evaluate, IsLiteral
  <2>2. /\ of[e.condition] \in Evaluators
        /\ of[e.true_expr] \in Evaluators /\ of[e.false_expr] \in Evaluators
    BY <1>5, ConditionalParts
  <2> QED
    BY <2>1, <2>2, EvaluateConditionalMeans
<1>6. CASE e.kind = "AST_ASSIGNMENT"
  <2>1. Evaluate(of, c, e) = EvaluateAssignment(c, e, of[e.value])
    BY <1>6 DEF Evaluate, IsLiteral
  <2>2. of[e.value] \in Evaluators
    BY <1>6, AssignmentParts
  <2>3. e.name \in Names /\ e.op \in {"OP_ASSIGN"} \cup Arithmetic
    BY <1>6, OtherFields
  <2> QED
    BY <2>1, <2>2, <2>3, EvaluateAssignmentMeans
<1>7. CASE e.kind = "AST_SIZEOF"
  <2>1. Evaluate(of, c, e) = Having(c, Size[get_expression_type[e.operand]], "int")
    BY <1>7 DEF Evaluate, IsLiteral
  <2>2. get_expression_type[e.operand] \in CTypes
    BY <1>7, OtherFields, ExpressionTypes
  <2>3. Size[get_expression_type[e.operand]] \in Int /\ "int" \in VariableTypes
    BY <2>2 DEF CTypes, VariableTypes, Size
  <2> QED
    BY <2>1, <2>3, HavingMeans
<1>8. CASE e.kind = "AST_CALL"
  <2> DEFINE of_args == [i \in DOMAIN e.args |-> of[e.args[i]]]
  <2>1. Evaluate(of, c, e) = EvaluateCall(c, e, of_args)
    BY <1>8 DEF Evaluate, IsLiteral
  <2>2. \A i \in 1 .. Len(e.args) : of_args[i] \in Evaluators
    BY <1>8, CallParts
  <2> HIDE DEF of_args
  <2> QED
    BY <1>8, <2>1, <2>2, EvaluateCallMeans
<1> QED
  BY <1>1, <1>2, <1>3, <1>4, <1>5, <1>6, <1>7, <1>8, Kinds DEF IsLiteral

\* The clause of an expression only looks at its parts.
LEMMA EvaluateByParts ==
    ASSUME NEW c, NEW e \in Expressions, NEW f, NEW g, \A p \in PartsOf(e) : f[p] = g[p]
    PROVE  Evaluate(f, c, e) = Evaluate(g, c, e)
<1>1. CASE e.kind = "AST_BINARY_OP"
  <2>1. f[e.left] = g[e.left] /\ f[e.right] = g[e.right]
    BY <1>1, BinaryParts
  <2> QED
    BY <1>1, <2>1 DEF Evaluate, IsLiteral
<1>2. CASE e.kind = "AST_UNARY_OP"
  <2>1. f[e.operand] = g[e.operand]
    BY <1>2, UnaryParts
  <2> QED
    BY <1>2, <2>1 DEF Evaluate, IsLiteral
<1>3. CASE e.kind = "AST_CONDITIONAL"
  <2>1. /\ f[e.condition] = g[e.condition]
        /\ f[e.true_expr] = g[e.true_expr] /\ f[e.false_expr] = g[e.false_expr]
    BY <1>3, ConditionalParts
  <2> QED
    BY <1>3, <2>1 DEF Evaluate, IsLiteral
<1>4. CASE e.kind = "AST_ASSIGNMENT"
  <2>1. f[e.value] = g[e.value]
    BY <1>4, AssignmentParts
  <2> QED
    BY <1>4, <2>1 DEF Evaluate, IsLiteral
<1>5. CASE e.kind = "AST_CALL"
  <2>1. [i \in DOMAIN e.args |-> f[e.args[i]]] = [i \in DOMAIN e.args |-> g[e.args[i]]]
    BY <1>5, CallParts
  <2>2. Evaluate(f, c, e) = EvaluateCall(c, e, [i \in DOMAIN e.args |-> f[e.args[i]]])
    BY <1>5 DEF Evaluate, IsLiteral
  <2>3. Evaluate(g, c, e) = EvaluateCall(c, e, [i \in DOMAIN e.args |-> g[e.args[i]]])
    BY <1>5 DEF Evaluate, IsLiteral
  <2> QED
    BY <2>1, <2>2, <2>3
<1>6. CASE e.kind \in {"AST_NUMBER", "AST_CHARACTER", "AST_IDENTIFIER", "AST_SIZEOF"}
  BY <1>6 DEF Evaluate, IsLiteral
<1> QED
  BY <1>1, <1>2, <1>3, <1>4, <1>5, <1>6, Kinds

LEMMA EvaluateIsEvaluator ==
    ASSUME NEW e \in Expressions, NEW f, \A p \in PartsOf(e) : f[p] \in Evaluators
    PROVE  [c \in Meanings |-> Evaluate(f, c, e)] \in Evaluators
<1>1. \A c \in Meanings : Means(c, Evaluate(f, c, e))
  BY EvaluateMeans
<1>2. \A c \in Meanings : Evaluate(f, c, e) \in Meanings
  BY <1>1 DEF Means
<1> QED
  BY <1>1, <1>2 DEF Evaluators

LEMMA SomeEvaluation ==
    \E f \in [Expressions -> Evaluators] :
        f = [e \in Expressions |-> [c \in Meanings |-> Evaluate(f, c, e)]]
<1> DEFINE R == [Expressions -> Evaluators]
           H(f, e) == [c \in Meanings |-> Evaluate(f, c, e)]
           G == [x \in Expressions \X R |-> H(x[2], x[1])]
<1>1. ASSUME NEW e \in Expressions, NEW f \in R PROVE H(f, e) \in Evaluators
  BY PartsAreLower, EvaluateIsEvaluator
<1>2. ASSUME NEW e \in Expressions, NEW f \in R, NEW g \in R,
             \A p \in PartsOf(e) : f[p] = g[p]
      PROVE  H(f, e) = H(g, e)
  <2>1. \A c \in Meanings : Evaluate(f, c, e) = Evaluate(g, c, e)
    BY <1>2, EvaluateByParts
  <2> QED
    BY <2>1
<1> HIDE DEF H
<1>3. G \in [Expressions \X R -> Evaluators]
  BY <1>1
<1>4. \A e \in Expressions : \A f \in R : G[<<e, f>>] = H(f, e)
  OBVIOUS
<1> HIDE DEF G
<1>5. Evaluators # {}
  <2> DEFINE f == [c \in Meanings |-> c]
  <2>1. f \in [Meanings -> Meanings] /\ \A c \in Meanings : f[c] = c
    OBVIOUS
  <2> HIDE DEF f
  <2>2. \A c \in Meanings : Means(c, f[c])
    BY <2>1, MeansItself
  <2> QED
    BY <2>1, <2>2 DEF Evaluators
<1>6. LooksAtParts(Evaluators, G)
  BY <1>2, <1>4 DEF LooksAtParts
<1>7. PICK f \in R : Recurs(f, Expressions, G)
  BY <1>3, <1>5, <1>6, PartsRecursion
<1>8. f = [e \in Expressions |-> H(f, e)]
  BY <1>4, <1>7 DEF Recurs
<1> QED
  BY <1>7, <1>8 DEF H

LEMMA EvaluatedUnfolds ==
    /\ Evaluated \in [Expressions -> Evaluators]
    /\ \A e \in Expressions : \A c \in Meanings :
          Evaluated[e][c] = Evaluate(Evaluated, c, e)
<1> DEFINE P(f) == f = [e \in Expressions |-> [c \in Meanings |-> Evaluate(f, c, e)]]
<1>1. \E f : P(f)
  BY SomeEvaluation
<1>2. Evaluated = CHOOSE f : P(f)
  BY Zenon DEF Evaluated
<1> HIDE DEF P
<1>3. P(Evaluated)
  BY <1>1, <1>2, Zenon
<1> DEFINE g == Evaluated
<1>4. g = [e \in Expressions |-> [c \in Meanings |-> Evaluate(g, c, e)]]
  BY <1>3 DEF P
<1> HIDE DEF g
<1>5. \A e \in Expressions : g[e] = [c \in Meanings |-> Evaluate(g, c, e)]
  BY <1>4
<1>6. \A e \in Expressions : \A c \in Meanings : g[e][c] = Evaluate(g, c, e)
  BY <1>5
<1> DEFINE T == {e \in Expressions : g[e] \in Evaluators}
<1>7. ASSUME NEW e \in Expressions, \A p \in Expressions : Height[p] < Height[e] => p \in T
      PROVE  e \in T
  <2>1. \A p \in PartsOf(e) : g[p] \in Evaluators
    BY <1>7, PartsAreLower
  <2>2. g[e] \in Evaluators
    <3>1. [c \in Meanings |-> Evaluate(g, c, e)] \in Evaluators
      BY <2>1, EvaluateIsEvaluator
    <3>2. g[e] = [c \in Meanings |-> Evaluate(g, c, e)]
      BY <1>5
    <3> QED
      BY <3>1, <3>2, Zenon
  <2> QED
    BY <2>2
<1> HIDE DEF T
<1>8. Expressions \subseteq T
  BY <1>7, HeightAssumption, HeightInduction
<1>9. \A e \in Expressions : g[e] \in Evaluators
  BY <1>8 DEF T
<1>10. g \in [Expressions -> Evaluators]
  BY <1>4, <1>9
<1> QED
  BY <1>6, <1>10 DEF g

LEMMA InCMeans ==
    ASSUME NEW e \in Expressions, IsMemory(c_memory)
    PROVE  InC(e) \in Meanings /\ IsMemory(InC(e).memory)
<1> DEFINE c == [value |-> 0, type |-> "int", memory |-> c_memory, sent |-> <<>>, ok |-> TRUE]
<1>1. c \in Meanings
  <2>1. <<>> \in Seq(FunctionNames \X Seq(Int))
    OBVIOUS
  <2>2. c_memory \in [Names -> Int]
    BY DEF IsMemory
  <2> QED
    BY <2>1, <2>2 DEF Meanings, VariableTypes
<1>2. c.memory = c_memory
  OBVIOUS
<1>3. InC(e) = Evaluated[e][c]
  BY DEF InC
<1> HIDE DEF c
<1>4. Evaluated[e] \in Evaluators
  BY EvaluatedUnfolds
<1>5. Means(c, Evaluated[e][c])
  BY <1>1, <1>4 DEF Evaluators
<1> QED
  BY <1>2, <1>3, <1>5 DEF Means

\* What a step makes of the variables and of its flags.
LEMMA StepsMean ==
    ASSUME IsMemory(c_memory), done \in Nat, ended \in BOOLEAN, defined \in BOOLEAN, Next
    PROVE  /\ IsMemory(c_memory') /\ defined' \in BOOLEAN /\ ended' \in BOOLEAN
           /\ understood' \in BOOLEAN
           /\ \A s, c, told, said : Steps(s, c, told, said) => c \in Meanings
<1>1. ASSUME NEW s, NEW c, NEW told, NEW said, Steps(s, c, told, said)
      PROVE  c \in Meanings /\ IsMemory(c.memory)
  <2>1. ASSUME NEW e \in Expressions, c = InC(e) PROVE c \in Meanings /\ IsMemory(c.memory)
    BY <2>1, InCMeans
  <2>2. ASSUME NEW e \in Expressions, NEW n \in Names, c = Holding(InC(e), n, InC(e).value)
        PROVE  c \in Meanings /\ IsMemory(c.memory)
    <3> DEFINE d == InC(e)
    <3>1. d \in Meanings /\ IsMemory(d.memory) /\ d.value \in Int
      BY InCMeans, MeaningFields
    <3> HIDE DEF d
    <3> QED
      BY <2>2, <3>1, HoldingMeans DEF Means, d
  <2> QED
    BY <1>1, <2>1, <2>2, StatementFields DEF Steps
<1>2. PICK s, c, told, said : Steps(s, c, told, said)
  BY StepsGenerate
<1>3. c \in Meanings /\ IsMemory(c.memory) /\ Generated(s, Execution(s.code), c, told, said)
  BY <1>1, <1>2 DEF Steps
<1>4. IsMemory(c_memory') /\ defined' \in BOOLEAN
  BY <1>3, MeaningFields DEF Generated
<1>5. ended' \in BOOLEAN
  BY <1>2 DEF Steps
<1>6. understood' \in BOOLEAN
  BY <1>2, Zenon DEF Steps
<1> QED
  BY <1>1, <1>4, <1>5, <1>6

\* What the code leaves in memory is of the types of the variables.
LEMMA ProducedMemory ==
    ASSUME IsMemory(memory), NEW s \in Contexts, Produced(s)
    PROVE  IsMemory(memory')
<1> DEFINE m == Execution(s.code).machine
<1>1. Steady(Execution(s.code))
  BY ContextFields, ExecutionIsSteady
<1>2. VariablesHold(m)
  BY <1>1 DEF Steady
<1>3. memory' = [n \in Names |-> m.memory[Variable(n)]]
  BY DEF Produced
<1> HIDE DEF m
<1> QED
  BY <1>2, <1>3 DEF VariablesHold, OfWidth, IsMemory, Fits

LEMMA TypesToBeginWith == ASSUME Init PROVE TypeOK
<1>1. Len(Sources) \in Nat
  BY SourcesFields
<1>2. memory \in Initial /\ c_memory = memory
  BY DEF Init
<1>3. IsMemory(memory) /\ IsMemory(c_memory)
  BY <1>2, InitialAssumption, Zenon
<1>4. temp_counter = 0 /\ label_counter = 0 /\ done = 0 /\ ended = FALSE /\ defined = TRUE
      /\ understood = TRUE
  BY DEF Init
<1>5. temp_counter \in Nat /\ label_counter \in Nat /\ done \in 0 .. Len(Sources)
  BY <1>1, <1>4
<1>6. ended \in BOOLEAN /\ defined \in BOOLEAN /\ understood \in BOOLEAN
  BY <1>4, Zenon
<1> QED
  BY <1>3, <1>5, <1>6 DEF TypeOK

LEMMA TypesAfterAStep == ASSUME TypeOK, Next PROVE TypeOK'
<1>1. /\ temp_counter \in Nat /\ label_counter \in Nat /\ done \in 0 .. Len(Sources)
      /\ ended \in BOOLEAN /\ defined \in BOOLEAN
      /\ IsMemory(memory) /\ IsMemory(c_memory)
  BY DEF TypeOK
<1>2. Len(Sources) \in Nat
  BY SourcesFields
<1>3. /\ Context \in Contexts
      /\ Context.temp = temp_counter /\ Context.label = label_counter
  BY <1>1, ContextIsContext
<1>4. done \in Nat /\ label_counter \in Int
  BY <1>1, <1>2
<1>5. PICK s : Leads(Context, s, {}) /\ Produced(s)
  BY <1>3, <1>4, NothingClaimed, StepsProduce
<1>6. s \in Contexts /\ Context.temp <= s.temp /\ Context.label <= s.label
  BY <1>5 DEF Leads
<1>7. s.temp \in Int /\ s.label \in Int
  BY <1>6, ContextFields
<1>8. temp_counter' \in Nat /\ label_counter' \in Nat
  BY <1>1, <1>3, <1>5, <1>6, <1>7 DEF Produced
<1>9. done' \in 0 .. Len(Sources)
  <2>1. done < Len(Sources)
    BY DEF Next
  <2> QED
    BY <1>1, <1>2, <1>5, <2>1 DEF Produced
<1>10. IsMemory(memory')
  BY <1>1, <1>5, <1>6, ProducedMemory
<1>11. /\ IsMemory(c_memory')
       /\ defined' \in BOOLEAN /\ ended' \in BOOLEAN /\ understood' \in BOOLEAN
  BY <1>1, StepsMean
<1> QED
  BY <1>8, <1>9, <1>10, <1>11 DEF TypeOK

\* The counters never go below nothing, and the variables hold values of their
\* types, as the IR leaves them and as C does: whatever is stored has the type
\* of its place, or LLVM refuses the code.
THEOREM TypeInvariance == Spec => []TypeOK
<1>1. Init => TypeOK
  BY TypesToBeginWith
<1>2. TypeOK /\ [Next]_vars => TypeOK'
  BY TypesAfterAStep DEF vars, TypeOK
<1> QED
  BY <1>1, <1>2, PTL DEF Spec

-------------------------------------------------------------------------------
\* The machine alone, as if every instruction were accepted.

LEMMA SomeMoves ==
    ASSUME NEW code \in Seq(Instructions)
    PROVE  \E x : Moves(x, code)
<1> DEFINE n == Len(code)
           first == Start.machine
           To(m) == \E x : x = [k \in 0 .. m |->
                                   IF k = 0 THEN first ELSE Step(x[k - 1], code[k])]
           T == {m \in 0 .. n : To(m)}
<1>1. n \in Nat
  OBVIOUS
<1> HIDE DEF n, first
<1>2. To(0)
  <2> DEFINE x == [k \in 0 .. 0 |-> first]
  <2>1. x = [k \in 0 .. 0 |-> IF k = 0 THEN first ELSE Step(x[k - 1], code[k])]
    OBVIOUS
  <2> QED
    BY <2>1
<1>3. ASSUME NEW m \in 0 + 1 .. n, To(m - 1) PROVE To(m)
  <2>1. PICK x : x = [k \in 0 .. m - 1 |->
                         IF k = 0 THEN first ELSE Step(x[k - 1], code[k])]
    BY <1>3
  <2>2. m \in Nat /\ m # 0 /\ m - 1 \in 0 .. m - 1
    BY <1>1
  <2> DEFINE y == [k \in 0 .. m |-> IF k = m THEN Step(x[m - 1], code[m]) ELSE x[k]]
  <2>3. ASSUME NEW k \in 0 .. m
        PROVE  y[k] = IF k = 0 THEN first ELSE Step(y[k - 1], code[k])
    <3>1. CASE k = m
      BY <3>1, <2>2
    <3>2. CASE k # m
      <4>1. k \in 0 .. m - 1 /\ y[k] = x[k]
        BY <3>2, <2>2
      <4>2. k # 0 => y[k - 1] = x[k - 1]
        BY <4>1, <2>2
      <4>3. x[k] = IF k = 0 THEN first ELSE Step(x[k - 1], code[k])
        BY <2>1, <4>1
      <4> HIDE DEF y
      <4> QED
        BY <4>1, <4>2, <4>3
    <3> QED
      BY <3>1, <3>2
  <2>4. y = [k \in 0 .. m |-> y[k]]
    OBVIOUS
  <2> HIDE DEF y
  <2> QED
    BY <2>3, <2>4
<1> HIDE DEF To
<1>4. T = 0 .. n
  <2>1. T \in SUBSET (0 .. n) /\ 0 \in T
    BY <1>1, <1>2
  <2>2. ASSUME NEW i \in 0 + 1 .. n, i - 1 \in T PROVE i \in T
    BY <1>3, <2>2
  <2> HIDE DEF T
  <2> QED
    BY <1>1, <2>1, <2>2, Stretch
<1>5. To(n)
  BY <1>1, <1>4
<1> QED
  BY <1>5 DEF To, n, first, Moves

LEMMA RanIsMoves ==
    ASSUME NEW code \in Seq(Instructions)
    PROVE  \E x : Moves(x, code) /\ Ran(code) = x[Len(code)]
<1> DEFINE c == CHOOSE x : Moves(x, code)
<1>1. Moves(c, code)
  BY SomeMoves
<1>2. Ran(code) = c[Len(code)]
  BY Zenon DEF Ran, Moves
<1> QED
  BY <1>1, <1>2, Zenon

LEMMA MovesSteps ==
    ASSUME NEW code \in Seq(Instructions), NEW x, Moves(x, code)
    PROVE  /\ x[0] = Start.machine
           /\ \A k \in 1 .. Len(code) : x[k] = Step(x[k - 1], code[k])
<1>1. Len(code) \in Nat
  OBVIOUS
<1> DEFINE first == Start.machine
<1> HIDE DEF first
<1>2. \A k \in 0 .. Len(code) : x[k] = IF k = 0 THEN first ELSE Step(x[k - 1], code[k])
  BY DEF Moves, first
<1>3. x[0] = first /\ \A k \in 1 .. Len(code) : x[k] = Step(x[k - 1], code[k])
  BY <1>1, <1>2
<1> QED
  BY <1>3 DEF first

LEMMA RanStarts == Ran(<<>>) = Start.machine
<1>1. <<>> \in Seq(Instructions)
  OBVIOUS
<1>2. PICK x : Moves(x, <<>>) /\ Ran(<<>>) = x[Len(<<>>)]
  BY <1>1, RanIsMoves
<1>3. x[0] = Start.machine
  BY <1>1, <1>2, MovesSteps
<1>4. Len(<<>>) = 0
  OBVIOUS
<1> QED
  BY <1>2, <1>3, <1>4

LEMMA RanContinues ==
    ASSUME NEW code \in Seq(Instructions), NEW i \in Instructions
    PROVE  Ran(Append(code, i)) = Step(Ran(code), i)
<1> DEFINE more == Append(code, i)
           n == Len(code)
           first == Start.machine
<1>1. /\ more \in Seq(Instructions) /\ Len(more) = n + 1 /\ n \in Nat
      /\ more[n + 1] = i
      /\ \A k \in 1 .. n : more[k] = code[k]
  OBVIOUS
<1> HIDE DEF more, first
<1>2. PICK x : Moves(x, code) /\ Ran(code) = x[n]
  BY RanIsMoves
<1>3. PICK y : Moves(y, more) /\ Ran(more) = y[n + 1]
  BY <1>1, RanIsMoves
<1>4. x[0] = first /\ \A k \in 1 .. n : x[k] = Step(x[k - 1], code[k])
  BY <1>2, MovesSteps DEF first
<1>5. y[0] = first /\ \A k \in 1 .. n + 1 : y[k] = Step(y[k - 1], more[k])
  BY <1>1, <1>3, MovesSteps DEF first
<1> DEFINE T == {k \in 0 .. n : x[k] = y[k]}
<1> HIDE DEF n
<1>6. T = 0 .. n
  <2>1. T \in SUBSET (0 .. n) /\ 0 \in T
    BY <1>1, <1>4, <1>5
  <2>2. ASSUME NEW k \in 0 + 1 .. n, k - 1 \in T PROVE k \in T
    <3>1. k \in 1 .. n /\ k \in 1 .. n + 1 /\ k \in 0 .. n
      BY <1>1
    <3>2. x[k - 1] = y[k - 1] /\ more[k] = code[k]
      BY <2>2, <3>1, <1>1
    <3>3. x[k] = y[k]
      BY <3>1, <3>2, <1>4, <1>5
    <3> QED
      BY <3>1, <3>3
  <2> HIDE DEF T
  <2> QED
    BY <1>1, <2>1, <2>2, Stretch
<1>7. x[n] = y[n]
  BY <1>1, <1>6
<1>8. n + 1 \in 1 .. n + 1 /\ (n + 1) - 1 = n
  BY <1>1
<1>9. y[n + 1] = Step(y[n], i)
  BY <1>1, <1>5, <1>8
<1> QED
  BY <1>2, <1>3, <1>7, <1>9 DEF more

\* Of code LLVM accepts it does what the execution does.
LEMMA AcceptedCodeRuns ==
    ASSUME NEW code \in Seq(Instructions), Execution(code).check.faults = {}
    PROVE  Execution(code).machine = Ran(code)
<1> DEFINE n == Len(code)
<1>0. n \in Nat
  OBVIOUS
<1> HIDE DEF n
<1>1. PICK x : Traces(x, code) /\ Execution(code) = x[n]
  BY ExecutionIsTrace DEF n
<1>2. PICK y : Moves(y, code) /\ Ran(code) = y[n]
  BY RanIsMoves DEF n
<1>3. x[0] = Start /\ \A k \in 1 .. n : x[k] = Run(x[k - 1], code[k])
  BY <1>1, TraceSteps DEF n
<1>4. y[0] = Start.machine /\ \A k \in 1 .. n : y[k] = Step(y[k - 1], code[k])
  BY <1>2, MovesSteps DEF n
<1> DEFINE T == {k \in 0 .. n : x[k].check.faults = {} => x[k].machine = y[k]}
<1>5. T = 0 .. n
  <2>1. T \in SUBSET (0 .. n) /\ 0 \in T
    BY <1>0, <1>3, <1>4
  <2>2. ASSUME NEW k \in 0 + 1 .. n, k - 1 \in T PROVE k \in T
    <3>1. k \in 1 .. n /\ k \in 0 .. n
      BY <1>0
    <3>2. x[k] = Run(x[k - 1], code[k]) /\ y[k] = Step(y[k - 1], code[k])
      BY <3>1, <1>3, <1>4
    <3> DEFINE w == x[k - 1]
               i == code[k]
               z == y[k - 1]
    <3>3. w.check.faults = {} => w.machine = z
      BY <2>2
    <3>4. x[k] = Run(w, i) /\ y[k] = Step(z, i)
      BY <3>2
    <3> HIDE DEF w, i, z
    <3>5. ASSUME x[k].check.faults = {} PROVE x[k].machine = y[k]
      <4>1. /\ x[k].check = Checked(w.check, i)
            /\ x[k].machine = IF Checked(w.check, i).faults = {} THEN Step(w.machine, i)
                              ELSE w.machine
        BY <3>4 DEF Run
      <4>2. Checked(w.check, i).faults = {}
        BY <3>5, <4>1
      <4>3. w.check.faults = {}
        BY <4>2 DEF Checked
      <4> QED
        BY <3>3, <3>4, <4>1, <4>2, <4>3
    <3> QED
      BY <3>1, <3>5
  <2> HIDE DEF T
  <2> QED
    BY <1>0, <2>1, <2>2, Stretch
<1>6. n \in 0 .. n
  BY <1>0
<1>7. n \in T
  BY <1>5, <1>6
<1> QED
  BY <1>1, <1>2, <1>7

LEMMA GivesFields ==
    ASSUME NEW m, Machine(m), NEW i, NEW v
    PROVE  /\ Machine(Gives(m, i, v))
           /\ Gives(m, i, v).values = Given(m.values, i.to, Wrapped(v, Result(i)))
           /\ Gives(m, i, v).memory = m.memory /\ Gives(m, i, v).skip = m.skip
           /\ Gives(m, i, v).sent = m.sent /\ Gives(m, i, v).told = m.told
<1> DEFINE values == Given(m.values, i.to, Wrapped(v, Result(i)))
           n == Gives(m, i, v)
<1>1. n = [m EXCEPT !.values = values]
  BY DEF Gives
<1> HIDE DEF n, values
<1>2. /\ Machine(n) /\ n.values = values /\ n.memory = m.memory /\ n.skip = m.skip
      /\ n.sent = m.sent /\ n.told = m.told
  BY <1>1 DEF Machine
<1> QED
  BY <1>2 DEF n, values

LEMMA CalledFields ==
    ASSUME NEW m, Machine(m), NEW i
    PROVE  /\ Machine(Called(m, i))
           /\ Called(m, i).values =
                IF i.type = "void" THEN m.values
                ELSE Given(m.values, i.to, Wrapped(Answered(i.name, Sent(m, i)), Result(i)))
           /\ Called(m, i).memory = m.memory /\ Called(m, i).skip = m.skip
           /\ Called(m, i).sent = Append(m.sent, <<i.name, Sent(m, i)>>)
<1> DEFINE sent == Append(m.sent, <<i.name, Sent(m, i)>>)
           v == Answered(i.name, Sent(m, i))
           called == [m EXCEPT !.sent = sent]
<1>1. Called(m, i) = IF i.type = "void" THEN called ELSE Gives(called, i, v)
  BY DEF Called
<1> HIDE DEF sent, v
<1>2. /\ Machine(called) /\ called.values = m.values /\ called.memory = m.memory
      /\ called.skip = m.skip /\ called.sent = sent
  BY DEF Machine
<1> HIDE DEF called
<1>3. /\ Machine(Gives(called, i, v))
      /\ Gives(called, i, v).values = Given(m.values, i.to, Wrapped(v, Result(i)))
      /\ Gives(called, i, v).memory = m.memory /\ Gives(called, i, v).skip = m.skip
      /\ Gives(called, i, v).sent = sent
  BY <1>2, GivesFields
<1> QED
  BY <1>1, <1>2, <1>3 DEF sent, v

\* What executing an instruction may change.
LEMMA ExecutedChanges ==
    ASSUME NEW m, Machine(m), NEW i \in Instructions
    PROVE  /\ Machine(Executed(m, i))
           /\ ~Defines(i) => Executed(m, i).values = m.values
           /\ Defines(i) => \E v : Executed(m, i).values = Given(m.values, i.to, v)
           /\ i.op # "store" => Executed(m, i).memory = m.memory
           /\ i.op = "store" =>
                Executed(m, i).memory = Given(m.memory, i.place, ValueOf(m, i.type, i.left))
<1> DEFINE x == Executed(m, i)
<1>1. CASE i.op \in {"load", "trunc", "sext", "zext"} \cup Computations \cup Predicates
  <2>1. \E v : x = Gives(m, i, v)
    BY <1>1, ExecutedBy
  <2>2. Defines(i) /\ i.op # "store"
    BY <1>1 DEF Defines, Computations, Predicates
  <2> HIDE DEF x
  <2>3. /\ Machine(x) /\ x.memory = m.memory
        /\ \E v : x.values = Given(m.values, i.to, v)
    BY <2>1, GivesFields
  <2> QED
    BY <2>2, <2>3 DEF x
<1>2. CASE i.op = "call"
  <2>1. x = Called(m, i) /\ (Defines(i) <=> i.type # "void") /\ i.op # "store"
    BY <1>2, ExecutedBy DEF Defines, Computations, Predicates
  <2> HIDE DEF x
  <2>2. /\ Machine(x) /\ x.memory = m.memory
        /\ i.type = "void" => x.values = m.values
        /\ i.type # "void" => \E v : x.values = Given(m.values, i.to, v)
    BY <2>1, CalledFields
  <2> QED
    BY <2>1, <2>2 DEF x
<1>3. CASE i.op \in {"store", "alloca", "label", "br", "jump", "ret"}
  <2>1. ~Defines(i)
    BY <1>3 DEF Defines, Computations, Predicates
  <2> DEFINE to == IF ValueOf(m, "i1", i.left) # 0 THEN i.yes ELSE i.no
             stored == ValueOf(m, i.type, i.left)
             memory1 == Given(m.memory, i.place, stored)
  <2>2. \/ i.op = "store" /\ x = [m EXCEPT !.memory = memory1]
        \/ i.op # "store" /\ (\/ x = m
                              \/ x = [m EXCEPT !.skip = to]
                              \/ x = [m EXCEPT !.skip = i.yes]
                              \/ x = [m EXCEPT !.told = stored])
    BY <1>3, ExecutedBy
  <2> HIDE DEF x, to, memory1
  <2>3. /\ Machine(x) /\ x.values = m.values
        /\ i.op # "store" => x.memory = m.memory
        /\ i.op = "store" => x.memory = memory1
    BY <2>2 DEF Machine
  <2> QED
    BY <2>1, <2>3 DEF x, memory1
<1> QED
  BY <1>1, <1>2, <1>3, OperationsOfInstructions

-------------------------------------------------------------------------------
\* Steps of the machine.

LEMMA Resuming ==
    ASSUME NEW m, Machine(m)
    PROVE  /\ Machine([m EXCEPT !.skip = 0])
           /\ [m EXCEPT !.skip = 0].values = m.values
           /\ [m EXCEPT !.skip = 0].memory = m.memory
           /\ [m EXCEPT !.skip = 0].skip = 0
           /\ [m EXCEPT !.skip = 0].sent = m.sent
           /\ m.skip = 0 => [m EXCEPT !.skip = 0] = m
  BY DEF Machine

\* Where nothing is skipped an instruction is executed.
LEMMA StepExecutes ==
    ASSUME NEW m, Machine(m), m.skip = 0, NEW i
    PROVE  Step(m, i) = Executed(m, i)
<1> DEFINE u == [m EXCEPT !.skip = 0]
<1>1. u = m
  BY Resuming
<1>2. Step(m, i) = Executed(u, i)
  BY DEF Step
<1> HIDE DEF u
<1> QED
  BY <1>1, <1>2

\* On the way to a label nothing happens before it.
LEMMA StepSkips ==
    ASSUME NEW m, m.skip # 0, NEW i, ~(i.op = "label" /\ i.yes = m.skip)
    PROVE  Step(m, i) = m
  BY DEF Step
LEMMA StepArrives ==
    ASSUME NEW m, Machine(m), NEW i, i.op = "label", i.yes = m.skip \/ m.skip = 0
    PROVE  Step(m, i) = [m EXCEPT !.skip = 0]
<1> DEFINE u == [m EXCEPT !.skip = 0]
<1>1. Step(m, i) = Executed(u, i)
  BY DEF Step
<1> HIDE DEF u
<1>2. Executed(u, i) = u
  BY ExecutedBy
<1> QED
  BY <1>1, <1>2 DEF u

LEMMA StepIsMachine ==
    ASSUME NEW m, Machine(m), NEW i \in Instructions
    PROVE  Machine(Step(m, i))
<1> DEFINE u == [m EXCEPT !.skip = 0]
<1>1. Machine(u)
  BY Resuming
<1>2. Step(m, i) = Executed(u, i) \/ Step(m, i) = m
  BY DEF Step
<1> HIDE DEF u
<1> QED
  BY <1>1, <1>2, ExecutedChanges

LEMMA RanIsMachine ==
    ASSUME NEW code \in Seq(Instructions)
    PROVE  Machine(Ran(code))
<1> DEFINE n == Len(code)
<1>0. n \in Nat
  OBVIOUS
<1>1. PICK x : Moves(x, code) /\ Ran(code) = x[n]
  BY RanIsMoves
<1>2. x[0] = Start.machine /\ \A k \in 1 .. n : x[k] = Step(x[k - 1], code[k])
  BY <1>1, MovesSteps
<1> HIDE DEF n
<1> DEFINE T == {k \in 0 .. n : Machine(x[k])}
<1>3. T = 0 .. n
  <2>1. Machine(Start.machine)
    BY DEF Start, Machine
  <2>2. T \in SUBSET (0 .. n) /\ 0 \in T
    BY <1>0, <1>2, <2>1
  <2>3. ASSUME NEW k \in 0 + 1 .. n, k - 1 \in T PROVE k \in T
    <3>1. k \in 1 .. n /\ k \in 0 .. n /\ code[k] \in Instructions
      BY <1>0 DEF n
    <3>2. Machine(x[k - 1])
      BY <2>3
    <3>3. Machine(Step(x[k - 1], code[k]))
      BY <3>1, <3>2, StepIsMachine
    <3> QED
      BY <3>1, <3>3, <1>2
  <2> HIDE DEF T
  <2> QED
    BY <1>0, <2>2, <2>3, Stretch
<1>4. n \in T
  BY <1>0, <1>3
<1> QED
  BY <1>1, <1>4

LEMMA MachineOfContext ==
    ASSUME NEW s \in Contexts
    PROVE  Machine(After(s))
  BY ContextFields, RanIsMachine DEF After
LEMMA MachineOfCode ==
    ASSUME NEW s, NEW t, s.code = t.code
    PROVE  After(s) = After(t)
  BY DEF After
LEMMA MachineOfEmitted ==
    ASSUME NEW s \in Contexts, NEW i \in Instructions
    PROVE  After(Emit(s, i)) = Step(After(s), i)
<1>1. s.code \in Seq(Instructions) /\ Emit(s, i).code = Append(s.code, i)
  BY ContextFields, EmitContext
<1> QED
  BY <1>1, RanContinues DEF After

-------------------------------------------------------------------------------
(***************************************************************************)
(* What comes after a context leaves what belongs to it alone: the         *)
(* registers and slots up to t, and whoever is on the way to a label up to *)
(* l.                                                                      *)
(***************************************************************************)

LEMMA GoesTransitive ==
    ASSUME NEW s, NEW t, NEW u, Goes(s, t), Goes(t, u)
    PROVE  Goes(s, u)
<1>1. /\ s \in Contexts /\ t \in Contexts /\ u \in Contexts
      /\ s.temp <= t.temp /\ t.temp <= u.temp /\ s.label <= t.label /\ t.label <= u.label
      /\ Spares(s.temp, s.label, After(s), After(t)) /\ Spares(t.temp, t.label, After(t), After(u))
  BY DEF Goes
<1>2. /\ s.temp \in Int /\ t.temp \in Int /\ u.temp \in Int
      /\ s.label \in Int /\ t.label \in Int /\ u.label \in Int
  BY <1>1, ContextFields
<1>3. ASSUME After(s).skip \in 1 .. s.label PROVE After(u) = After(s)
  <2>1. After(t) = After(s)
    BY <1>1, <1>3 DEF Spares
  <2>2. After(t).skip \in 1 .. t.label
    BY <1>1, <1>2, <1>3, <2>1
  <2>3. After(u) = After(t)
    BY <1>1, <2>2 DEF Spares
  <2> QED
    BY <2>1, <2>3
<1>4. ASSUME NEW r \in Int, r <= s.temp
      PROVE  /\ RegisterOf(After(u), r) = RegisterOf(After(s), r)
             /\ HeldIn(After(u), Slot(r)) = HeldIn(After(s), Slot(r))
  <2>1. r <= t.temp
    BY <1>1, <1>2, <1>4
  <2> QED
    BY <1>1, <1>4, <2>1 DEF Spares
<1> QED
  BY <1>1, <1>2, <1>3, <1>4 DEF Goes, Spares

\* Counting and returning run nothing.
LEMMA CountingGoes ==
    ASSUME NEW s \in Contexts, NEW t \in Contexts, s.code = t.code,
           s.temp <= t.temp, s.label <= t.label
    PROVE  Goes(s, t) /\ After(t) = After(s)
<1>1. After(t) = After(s)
  BY DEF After
<1> QED
  BY <1>1 DEF Goes, Spares

LEMMA GoesItself ==
    ASSUME NEW s \in Contexts
    PROVE  Goes(s, s)
<1>1. s.temp <= s.temp /\ s.label <= s.label
  BY ContextFields
<1> QED
  BY <1>1, CountingGoes

LEMMA GivenElsewhere ==
    ASSUME NEW f, NEW k, NEW v, NEW x, x # k
    PROVE  /\ x \in DOMAIN Given(f, k, v) <=> x \in DOMAIN f
           /\ x \in DOMAIN f => Given(f, k, v)[x] = f[x]
  BY DEF Given
LEMMA GivenThere ==
    ASSUME NEW f, NEW k, NEW v
    PROVE  k \in DOMAIN Given(f, k, v) /\ Given(f, k, v)[k] = v
  BY DEF Given

LEMMA ExecutedSpares ==
    ASSUME NEW m, Machine(m), NEW i \in Instructions, NEW t \in Int,
           Defines(i) => i.to > t,
           i.op = "store" => \A r \in Int : r <= t => i.place # Slot(r),
           NEW r \in Int, r <= t
    PROVE  /\ RegisterOf(Executed(m, i), r) = RegisterOf(m, r)
           /\ HeldIn(Executed(m, i), Slot(r)) = HeldIn(m, Slot(r))
<1> DEFINE n == Executed(m, i)
<1>1. /\ ~Defines(i) => n.values = m.values
      /\ Defines(i) => \E v : n.values = Given(m.values, i.to, v)
      /\ i.op # "store" => n.memory = m.memory
      /\ i.op = "store" => \E v : n.memory = Given(m.memory, i.place, v)
  BY ExecutedChanges
<1> HIDE DEF n
<1>2. RegisterOf(n, r) = RegisterOf(m, r)
  <2>1. CASE ~Defines(i)
    BY <1>1, <2>1 DEF RegisterOf
  <2>2. CASE Defines(i)
    <3>1. r # i.to
      BY <2>2
    <3> QED
      BY <1>1, <2>2, <3>1, GivenElsewhere DEF RegisterOf
  <2> QED
    BY <2>1, <2>2
<1>3. HeldIn(n, Slot(r)) = HeldIn(m, Slot(r))
  <2>1. CASE i.op # "store"
    BY <1>1, <2>1 DEF HeldIn
  <2>2. CASE i.op = "store"
    <3>1. Slot(r) # i.place
      BY <2>2
    <3> QED
      BY <1>1, <2>2, <3>1, GivenElsewhere DEF HeldIn
  <2> QED
    BY <2>1, <2>2
<1> QED
  BY <1>2, <1>3 DEF n

LEMMA StepSpares ==
    ASSUME NEW m, Machine(m), NEW i \in Instructions, NEW t \in Int, NEW l \in Int,
           Defines(i) => i.to > t,
           i.op = "store" => \A r \in Int : r <= t => i.place # Slot(r),
           i.op = "label" => i.yes > l
    PROVE  Spares(t, l, m, Step(m, i))
<1> DEFINE u == [m EXCEPT !.skip = 0]
<1>1. Machine(u) /\ u.values = m.values /\ u.memory = m.memory
  BY Resuming
<1>2. Step(m, i) = Executed(u, i) \/ Step(m, i) = m
  BY DEF Step
<1>3. ASSUME m.skip \in 1 .. l PROVE Step(m, i) = m
  <2>1. m.skip # 0 /\ ~(i.op = "label" /\ i.yes = m.skip)
    BY <1>3
  <2> QED
    BY <2>1, StepSkips
<1> HIDE DEF u
<1>4. ASSUME NEW r \in Int, r <= t
      PROVE  /\ RegisterOf(Step(m, i), r) = RegisterOf(m, r)
             /\ HeldIn(Step(m, i), Slot(r)) = HeldIn(m, Slot(r))
  <2>1. RegisterOf(u, r) = RegisterOf(m, r) /\ HeldIn(u, Slot(r)) = HeldIn(m, Slot(r))
    BY <1>1 DEF RegisterOf, HeldIn
  <2>2. /\ RegisterOf(Executed(u, i), r) = RegisterOf(u, r)
        /\ HeldIn(Executed(u, i), Slot(r)) = HeldIn(u, Slot(r))
    BY <1>1, <1>4, ExecutedSpares
  <2> QED
    BY <1>2, <2>1, <2>2
<1> QED
  BY <1>3, <1>4 DEF Spares

\* Printing an instruction after s, in u.
LEMMA EmittingGoes ==
    ASSUME NEW s, NEW u, Goes(s, u), NEW i \in Instructions,
           Defines(i) => i.to > s.temp,
           i.op = "store" => \A r \in Int : r <= s.temp => i.place # Slot(r),
           i.op = "label" => i.yes > s.label
    PROVE  Goes(s, Emit(u, i))
<1>1. /\ s \in Contexts /\ u \in Contexts /\ s.temp <= u.temp /\ s.label <= u.label
      /\ Spares(s.temp, s.label, After(s), After(u))
  BY DEF Goes
<1>2. s.temp \in Int /\ s.label \in Int
  BY <1>1, ContextFields
<1>3. Machine(After(u)) /\ After(Emit(u, i)) = Step(After(u), i)
  BY <1>1, MachineOfContext, MachineOfEmitted
<1>4. Spares(s.temp, s.label, After(u), After(Emit(u, i)))
  BY <1>2, <1>3, StepSpares
<1>5. Spares(s.temp, s.label, After(s), After(Emit(u, i)))
  BY <1>1, <1>4 DEF Spares
<1>6. /\ Emit(u, i) \in Contexts
      /\ Emit(u, i).temp = u.temp /\ Emit(u, i).label = u.label
  BY <1>1, EmitContext
<1> QED
  BY <1>1, <1>5, <1>6 DEF Goes

-------------------------------------------------------------------------------
\* Numbers of the machine and of C.

\* The numbers of a type are those from -h to h - 1.
LEMMA WidthIsRange ==
    ASSUME NEW v \in Int, NEW type \in ValueTypes
    PROVE  /\ TwoTo[Bits[type] - 1] \in Nat \ {0}
           /\ TwoTo[Bits[type]] = 2 * TwoTo[Bits[type] - 1]
           /\ OfWidth(v, type) <=> /\ -TwoTo[Bits[type] - 1] <= v
                                   /\ v <= TwoTo[Bits[type] - 1] - 1
<1> DEFINE h == TwoTo[Bits[type] - 1]
<1>1. h \in Nat \ {0} /\ TwoTo[Bits[type]] = 2 * h
  BY BitsOfTypes, TwoToUnfolds
<1>2. Wrapped(v, type) = ((v + h) % (2 * h)) - h
  BY DEF Wrapped
<1> HIDE DEF h
<1>3. (v + h) % (2 * h) \in 0 .. (2 * h) - 1
  BY <1>1
<1>4. \A w \in 0 .. (2 * h) - 1 : w % (2 * h) = w
  BY <1>1
<1>5. OfWidth(v, type) => -h <= v /\ v <= h - 1
  BY <1>1, <1>2, <1>3 DEF OfWidth
<1>6. -h <= v /\ v <= h - 1 => OfWidth(v, type)
  <2>1. SUFFICES ASSUME -h <= v, v <= h - 1 PROVE Wrapped(v, type) = v
    BY DEF OfWidth
  <2>2. v + h \in 0 .. (2 * h) - 1
    BY <1>1, <2>1
  <2>3. (v + h) % (2 * h) = v + h
    BY <1>4, <2>2
  <2> QED
    BY <1>1, <1>2, <2>3
<1> QED
  BY <1>1, <1>5, <1>6 DEF h

\* A number of a type is one of every wider type.
LEMMA WiderWidth ==
    ASSUME NEW v \in Int, NEW a \in ValueTypes, NEW b \in ValueTypes, Bits[a] <= Bits[b],
           OfWidth(v, a)
    PROVE  OfWidth(v, b)
<1> DEFINE g == TwoTo[Bits[a] - 1]
           h == TwoTo[Bits[b] - 1]
<1>1. Bits[a] - 1 \in 0 .. LongBits /\ Bits[b] - 1 \in 0 .. LongBits
  BY BitsOfTypes
<1>2. Bits[a] \in 1 .. LongBits /\ Bits[b] \in 1 .. LongBits
  BY BitsOfTypes
<1>3. Bits[a] - 1 <= Bits[b] - 1
  BY <1>2, WidthsAssumption
<1>4. g <= h
  BY <1>1, <1>3, TwoToUnfolds, PowersGrow
<1>5. g \in Nat /\ h \in Nat /\ -g <= v /\ v <= g - 1
  BY WidthIsRange
<1> HIDE DEF g
<1>6. -h <= v /\ v <= h - 1
  BY <1>4, <1>5
<1> QED
  BY <1>6, WidthIsRange

LEMMA WidthsInOrder ==
    /\ Bits["i1"] = 1 /\ Bits["i1"] < Bits["i8"]
    /\ Bits["i8"] < Bits["i32"] /\ Bits["i32"] < Bits["i64"]
    /\ Bits["i8"] \in Nat /\ Bits["i32"] \in Nat /\ Bits["i64"] \in Nat
    /\ \A type \in ValueTypes : type \in {"i1", "i8", "i32", "i64"}
  BY WidthsAssumption DEF Bits, ValueTypes

LEMMA LongerWidths ==
    ASSUME NEW v \in Int
    PROVE  /\ OfWidth(v, "i8") => OfWidth(v, "i32")
           /\ OfWidth(v, "i8") => OfWidth(v, "i64")
           /\ OfWidth(v, "i32") => OfWidth(v, "i64")
<1>1. /\ "i8" \in ValueTypes /\ "i32" \in ValueTypes /\ "i64" \in ValueTypes
      /\ Bits["i8"] <= Bits["i32"] /\ Bits["i8"] <= Bits["i64"]
      /\ Bits["i32"] <= Bits["i64"]
  BY WidthsInOrder DEF ValueTypes
<1> QED
  BY <1>1, WiderWidth

\* 1 does not fit in one bit: there it is -1.
LEMMA OneBit ==
    /\ Wrapped(0, "i1") = 0 /\ Wrapped(1, "i1") = -1 /\ Wrapped(-1, "i1") = -1
    /\ Pattern(0, "i1") = 0 /\ Pattern(-1, "i1") = 1
<1>1. Bits["i1"] = 1 /\ 1 \in 1 .. LongBits /\ 0 \in 0 .. LongBits
  BY WidthsAssumption DEF Bits
<1>2. TwoTo[0] = 1 /\ TwoTo[1] = 2
  BY <1>1, TwoToUnfolds
<1>3. \A v \in Int : Wrapped(v, "i1") = ((v + 1) % 2) - 1 /\ Pattern(v, "i1") = v % 2
  BY <1>1, <1>2 DEF Wrapped, Pattern
<1> QED
  BY <1>3

LEMMA SmallNumbers ==
    ASSUME NEW v \in {-1, 0, 1}, NEW type \in {"i8", "i32", "i64"}
    PROVE  OfWidth(v, type)
<1> DEFINE h == TwoTo[Bits[type] - 1]
<1>1. type \in ValueTypes /\ Bits[type] - 1 \in 1 .. LongBits /\ Bits[type] - 2 \in 0 .. LongBits
  BY WidthsAssumption, BitsOfTypes DEF Bits, ValueTypes
<1>2. h = 2 * TwoTo[Bits[type] - 2] /\ TwoTo[Bits[type] - 2] \in Nat \ {0}
  <2> DEFINE n == Bits[type] - 1
  <2>1. n \in 1 .. LongBits /\ n - 1 = Bits[type] - 2 /\ n - 1 \in 0 .. LongBits
    BY <1>1, BitsOfTypes, WidthsAssumption
  <2> HIDE DEF n
  <2>2. TwoTo[n] = 2 * TwoTo[n - 1] /\ TwoTo[n - 1] \in Nat \ {0}
    BY <2>1, TwoToUnfolds
  <2> QED
    BY <2>1, <2>2 DEF n
<1>3. -h <= v /\ v <= h - 1
  BY <1>2
<1> QED
  BY <1>1, <1>3, WidthIsRange

\* What C leaves undefined is given a value that fits no type.
LEMMA OutsideFitsNone ==
    ASSUME NEW type \in ValueTypes
    PROVE  ~OfWidth(TwoTo[Bits[type]], type)
<1> DEFINE h == TwoTo[Bits[type] - 1]
           d == TwoTo[Bits[type]]
<1>1. 0 \in Int
  OBVIOUS
<1>2. h \in Nat \ {0} /\ d = 2 * h
  BY <1>1, WidthIsRange
<1>3. d \in Int /\ ~(d <= h - 1)
  BY <1>2
<1> QED
  BY <1>3, WidthIsRange

LEMMA BoolValues == \A b : Bool(b) \in {0, 1} /\ Wrapped(Bool(b), "i1") = -Bool(b)
  BY OneBit DEF Bool

-------------------------------------------------------------------------------
\* v ^ -1 turns every bit of v, so it is -v - 1.
LEMMA XorIsComplement ==
    ASSUME NEW v, OfWidth(v, "i32")
    PROVE  Wrapped(Computed("xor", v, -1, "i32"), "i32") = -v - 1
<1> DEFINE n == Bits["i32"]
           d == TwoTo[n]
           h == TwoTo[n - 1]
           p == v % d
<1>1. v \in Int /\ n \in 0 .. LongBits
  BY BitsOfTypes, WidthsAssumption DEF OfWidth, ValueTypes
<1>2. h \in Nat \ {0} /\ d = 2 * h /\ -h <= v /\ v <= h - 1
  BY <1>1, WidthIsRange DEF ValueTypes
<1>3. Computed("xor", v, -1, "i32") = Bitwise(Xor, p, (-1) % d)
  BY DEF Computed, Pattern
<1>4. \A w \in Int : Wrapped(w, "i32") = ((w + h) % (2 * h)) - h
  BY DEF Wrapped
<1>5. p \in 0 .. d - 1 => Bitwise(Xor, p, d - 1) = d - 1 - p
  <2> HIDE DEF p
  <2>1. SUFFICES ASSUME p \in 0 .. d - 1
                 PROVE  Bitwise(Xor, p, d - 1) = d - 1 - p
    OBVIOUS
  <2>2. Xor \in [0 .. 2 -> Int] /\ Xor[0] = 0 /\ Xor[1] = 1 /\ Xor[2] = 0
    BY DEF Xor
  <2>3. p \in Int /\ d - 1 \in Int
    BY <1>2, <2>1
  <2>4. PICK sum : /\ Bitwise(Xor, p, d - 1) = sum[LongBits]
                   /\ Combines(sum, TwoTo, LongBits, Xor, p, d - 1)
    BY <2>2, <2>3, BitwiseAddsUp
  <2> QED
    BY <1>1, <2>1, <2>2, <2>4, TwoToUnfolds, OnesComplement
<1> HIDE DEF n, d, h
<1>6. (-1) % d = d - 1
  <2>1. d - 1 \in 0 .. d - 1 /\ -1 \in Int /\ -1 = d * (-1) + (d - 1) /\ d \in Nat \ {0}
    BY <1>2
  <2> QED
    BY <2>1, Remainder
<1>7. p = IF v >= 0 THEN v ELSE v + d
  <2>1. d \in Nat \ {0} /\ d * 0 = 0 /\ d * (-1) = -d
    BY <1>2
  <2>2. CASE v >= 0
    <3>1. v \in 0 .. d - 1 /\ 0 \in Int /\ v = d * 0 + v
      BY <1>1, <1>2, <2>1, <2>2
    <3>2. p = v
      BY <1>1, <2>1, <3>1, Remainder
    <3> QED
      BY <2>2, <3>2
  <2>3. CASE v < 0
    <3>1. v + d \in 0 .. d - 1 /\ -1 \in Int /\ v = d * (-1) + (v + d)
      BY <1>1, <1>2, <2>1, <2>3
    <3> DEFINE x == v + d
    <3>2. x \in 0 .. d - 1 /\ v = d * (-1) + x
      BY <3>1
    <3> HIDE DEF x
    <3>3. v % d = x
      BY <1>1, <2>1, <3>1, <3>2, Remainder
    <3> QED
      BY <1>1, <2>3, <3>3 DEF x, p
  <2> QED
    BY <1>1, <2>2, <2>3
<1> HIDE DEF p
<1>8. p \in 0 .. d - 1
  BY <1>1, <1>2, <1>7
<1> DEFINE w == d - 1 - p
<1>9. w \in Int /\ Computed("xor", v, -1, "i32") = w
  BY <1>2, <1>3, <1>5, <1>6, <1>8
<1>10. (w + h) % (2 * h) = -v - 1 + h
  <2> DEFINE r == -v - 1 + h
             q == IF v >= 0 THEN 1 ELSE 0
  <2>1. r \in 0 .. (2 * h) - 1 /\ 2 * h \in Nat \ {0} /\ q \in Int /\ w + h \in Int
    BY <1>1, <1>2, <1>9
  <2>2. w + h = (2 * h) * q + r
    <3>1. (2 * h) * 1 = 2 * h /\ (2 * h) * 0 = 0
      BY <1>2
    <3> QED
      BY <1>1, <1>2, <1>7, <3>1
  <2> HIDE DEF r, q, w
  <2> QED
    BY <2>1, <2>2, Remainder DEF r
<1> HIDE DEF w
<1>11. Wrapped(w, "i32") = ((w + h) % (2 * h)) - h
  BY <1>4, <1>9
<1> QED
  BY <1>1, <1>2, <1>9, <1>10, <1>11

-------------------------------------------------------------------------------
\* What i32 instructions compute is what C computes on int, where C says what.

LEMMA ComputedIsOperation ==
    ASSUME NEW op \in Arithmetic, NEW a \in Int, NEW b \in Int,
           OfWidth(Operation(op, a, b, "int"), "i32")
    PROVE  Wrapped(Computed(Opcode[op], a, b, "i32"), "i32") = Operation(op, a, b, "int")
<1> DEFINE v == Operation(op, a, b, "int")
           d == TwoTo[Bits["i32"]]
           bits == Bits["i32"]
<1>1. LLVM["int"] = "i32"
  BY DEF LLVM
<1>2. Wrapped(v, "i32") = v /\ v # d
  BY OutsideFitsNone DEF OfWidth, ValueTypes
<1>3. CASE op \in {"OP_ADD", "OP_SUB", "OP_MUL"}
  <2>1. Computed(Opcode[op], a, b, "i32") = v
    BY <1>3 DEF Computed, Operation, Opcode
  <2> HIDE DEF v
  <2> QED
    BY <1>2, <2>1 DEF v
<1>4. CASE op \in {"OP_DIV", "OP_MOD"}
  <2>1. v = IF b = 0 THEN d ELSE IF op = "OP_DIV" THEN Toward0(a, b)
                                 ELSE a - b * Toward0(a, b)
    BY <1>1, <1>4 DEF Operation
  <2>2. Computed(Opcode[op], a, b, "i32") =
           IF b = 0 THEN 0 ELSE IF op = "OP_DIV" THEN Toward0(a, b)
                                 ELSE a - b * Toward0(a, b)
    BY <1>4 DEF Computed, Opcode
  <2> HIDE DEF v, d
  <2>3. Computed(Opcode[op], a, b, "i32") = v
    BY <1>2, <2>1, <2>2
  <2> QED
    BY <1>2, <2>3 DEF v
<1>5. CASE op \in {"OP_BAND", "OP_BOR", "OP_BXOR"}
  <2>1. v = Wrapped(Computed(Opcode[op], a, b, "i32"), "i32")
    BY <1>1, <1>5 DEF Computed, Operation, Opcode
  <2> QED
    BY <2>1
<1>6. CASE op = "OP_LSHIFT"
  <2>1. v = IF a < 0 \/ b \notin 0 .. (bits - 1) THEN d ELSE a * TwoTo[b]
    BY <1>1, <1>6 DEF Operation
  <2>2. Computed(Opcode[op], a, b, "i32") = IF b \in 0 .. bits THEN a * TwoTo[b] ELSE 0
    BY <1>6 DEF Computed, Opcode
  <2>3. bits \in Nat
    BY WidthsInOrder
  <2> HIDE DEF v, d, bits
  <2>4. b \in 0 .. (bits - 1) => b \in 0 .. bits
    BY <2>3
  <2>5. Computed(Opcode[op], a, b, "i32") = v
    BY <1>2, <2>1, <2>2, <2>4
  <2> QED
    BY <1>2, <2>5 DEF v
<1>7. CASE op = "OP_RSHIFT"
  <2>1. v = IF b \notin 0 .. (bits - 1) THEN d ELSE a \div TwoTo[b]
    BY <1>1, <1>7 DEF Operation
  <2>2. Computed(Opcode[op], a, b, "i32") = IF b \in 0 .. bits THEN a \div TwoTo[b] ELSE 0
    BY <1>7 DEF Computed, Opcode
  <2>3. bits \in Nat
    BY WidthsInOrder
  <2> HIDE DEF v, d, bits
  <2>4. b \in 0 .. (bits - 1) => b \in 0 .. bits
    BY <2>3
  <2>5. Computed(Opcode[op], a, b, "i32") = v
    BY <1>2, <2>1, <2>2, <2>4
  <2> QED
    BY <1>2, <2>5 DEF v
<1> QED
  BY <1>3, <1>4, <1>5, <1>6, <1>7 DEF Arithmetic

LEMMA ComputedIsComparison ==
    ASSUME NEW op \in Comparisons, NEW a \in Int, NEW b \in Int
    PROVE  /\ Computed(Predicate[op], a, b, "i32") = Operation(op, a, b, "int")
           /\ Operation(op, a, b, "int") \in {0, 1}
  BY BoolValues DEF Comparisons, Predicate, Computed, Operation, Bool

-------------------------------------------------------------------------------
\* What a register holds, and what instructions make of it.

LEMMA GivesSets ==
    ASSUME NEW m, Machine(m), NEW i, NEW v
    PROVE  Sets(m, Gives(m, i, v), i.to, Wrapped(v, Result(i)))
<1> DEFINE n == Gives(m, i, v)
           w == Wrapped(v, Result(i))
<1>1. /\ Machine(n) /\ n.values = Given(m.values, i.to, w) /\ n.memory = m.memory
      /\ n.skip = m.skip /\ n.sent = m.sent
  BY GivesFields
<1> HIDE DEF n, w
<1>2. RegisterOf(n, i.to) = w
  BY <1>1, GivenThere DEF RegisterOf
<1>3. ASSUME NEW q, q # i.to PROVE RegisterOf(n, q) = RegisterOf(m, q)
  BY <1>1, <1>3, GivenElsewhere DEF RegisterOf
<1> QED
  BY <1>1, <1>2, <1>3 DEF Sets, n, w

\* An instruction that defines the next register.
LEMMA DefiningGoes ==
    ASSUME NEW s \in Contexts, NEW i \in Instructions, Defines(i), i.to = Fresh(s)
    PROVE  /\ Goes(s, Defining(s, i))
           /\ Defining(s, i).ret = Fresh(s) /\ Defining(s, i).temp = Fresh(s)
           /\ Defining(s, i).label = s.label
           /\ After(s).skip = 0 => After(Defining(s, i)) = Executed(After(s), i)
<1> DEFINE u == get_next_temp(s)
           w == Emit(u, i)
           t == Returning(w, Fresh(s))
<1>1. Defining(s, i) = t
  BY DEF Defining
<1>2. /\ u \in Contexts /\ u.temp = s.temp + 1 /\ u.label = s.label /\ u.code = s.code
  BY CountContext
<1>3. /\ s.temp \in Int /\ s.label \in Int /\ Fresh(s) = s.temp + 1
      /\ Fresh(s) \in Int
  BY ContextFields DEF Fresh
<1> HIDE DEF u
<1>4. Goes(s, u) /\ After(u) = After(s)
  BY <1>2, <1>3, CountingGoes
<1>5. i.op # "store" /\ i.op # "label"
  BY DEF Defines, Computations, Predicates
<1>6. Goes(s, w)
  BY <1>3, <1>4, <1>5, EmittingGoes
<1>7. w \in Contexts /\ w.temp = u.temp /\ w.label = u.label /\ After(w) = Step(After(s), i)
  BY <1>2, <1>4, EmitContext, MachineOfEmitted
<1> HIDE DEF w
<1>8. /\ t \in Contexts /\ t.temp = w.temp /\ t.label = w.label /\ t.ret = Fresh(s)
      /\ t.code = w.code
  BY <1>3, <1>7, ReturningContext
<1> HIDE DEF t
<1>9. Goes(w, t) /\ After(t) = After(w)
  <2>1. w.temp <= t.temp /\ w.label <= t.label
    BY <1>2, <1>3, <1>7, <1>8
  <2> QED
    BY <1>7, <1>8, <2>1, CountingGoes
<1>10. Goes(s, t)
  BY <1>6, <1>9, GoesTransitive
<1>11. After(s).skip = 0 => After(t) = Executed(After(s), i)
  BY <1>7, <1>9, MachineOfContext, StepExecutes
<1> QED
  BY <1>1, <1>2, <1>3, <1>7, <1>8, <1>10, <1>11

\* The same where it gives v.
LEMMA DefiningSets ==
    ASSUME NEW s \in Contexts, NEW i \in Instructions, Defines(i), i.to = Fresh(s), NEW v,
           After(s).skip = 0 => Executed(After(s), i) = Gives(After(s), i, v)
    PROVE  /\ Goes(s, Defining(s, i)) /\ Defining(s, i).ret = Fresh(s)
           /\ Defining(s, i).ret <= Defining(s, i).temp
           /\ After(s).skip = 0 =>
                Sets(After(s), After(Defining(s, i)), Fresh(s), Wrapped(v, Result(i)))
<1> DEFINE t == Defining(s, i)
<1>1. /\ Goes(s, t) /\ t.ret = Fresh(s) /\ t.temp = Fresh(s)
      /\ After(s).skip = 0 => After(t) = Executed(After(s), i)
  BY DefiningGoes
<1> HIDE DEF t
<1>2. Fresh(s) \in Int
  BY ContextFields DEF Fresh
<1>3. After(s).skip = 0 => Sets(After(s), After(t), Fresh(s), Wrapped(v, Result(i)))
  BY <1>1, MachineOfContext, GivesSets
<1> QED
  BY <1>1, <1>2, <1>3 DEF t

LEMMA LoadingSets ==
    ASSUME NEW s \in Contexts, NEW type \in ValueTypes, NEW place \in Places, NEW t,
           t = Defining(s, Load(Fresh(s), type, place))
    PROVE  /\ Goes(s, t) /\ t.ret = Fresh(s) /\ t.ret <= t.temp
           /\ After(s).skip = 0 =>
                Sets(After(s), After(t), t.ret, Wrapped(HeldIn(After(s), place), type))
<1> DEFINE i == Load(Fresh(s), type, place)
<1>1. /\ i \in Instructions /\ i.to = Fresh(s) /\ Defines(i) /\ Result(i) = type
  BY ContextFields, LoadFields DEF Fresh
<1>2. i.op = "load" /\ i.place = place
  BY DEF Load
<1> HIDE DEF i
<1>3. Executed(After(s), i) = Gives(After(s), i, HeldIn(After(s), place))
  BY <1>2, ExecutedBy
<1>4. t = Defining(s, i)
  BY DEF i
<1> QED
  BY <1>1, <1>3, <1>4, DefiningSets

LEMMA ConvertingSets ==
    ASSUME NEW s \in Contexts, NEW op \in {"trunc", "sext", "zext"}, NEW from \in IRTypes,
           NEW r \in Int, NEW into \in ValueTypes, NEW t,
           t = Defining(s, Convert(op, Fresh(s), from, Register(r), into))
    PROVE  /\ Goes(s, t) /\ t.ret = Fresh(s) /\ t.ret <= t.temp
           /\ After(s).skip = 0 =>
                Sets(After(s), After(t), t.ret,
                     Wrapped(IF op = "zext" THEN Pattern(RegisterOf(After(s), r), from)
                             ELSE RegisterOf(After(s), r), into))
<1> DEFINE i == Convert(op, Fresh(s), from, Register(r), into)
           v == IF op = "zext" THEN Pattern(RegisterOf(After(s), r), from)
                ELSE RegisterOf(After(s), r)
<1>1. i \in Instructions
  BY ContextFields, ConvertIsInstruction DEF Fresh
<1>2. i.op = op /\ i.to = Fresh(s) /\ i.type = from /\ i.left = Register(r) /\ i.into = into
  BY DEF Convert
<1> HIDE DEF i
<1>3. Defines(i) /\ Result(i) = into
  BY <1>2 DEF Defines, Result, Predicates
<1>4. ValueOf(After(s), from, Register(r)) = RegisterOf(After(s), r)
  BY DEF ValueOf, Register
<1>5. Executed(After(s), i) = Gives(After(s), i, v)
  BY <1>2, <1>4, ExecutedBy
<1>6. t = Defining(s, i)
  BY DEF i
<1> HIDE DEF v
<1>7. /\ Goes(s, t) /\ t.ret = Fresh(s) /\ t.ret <= t.temp
      /\ After(s).skip = 0 => Sets(After(s), After(t), t.ret, Wrapped(v, into))
  BY <1>1, <1>2, <1>3, <1>5, <1>6, DefiningSets
<1> QED
  BY <1>7 DEF v

LEMMA ComputingSets ==
    ASSUME NEW s \in Contexts, NEW op \in Computations \cup Predicates, NEW type \in ValueTypes,
           NEW left \in IROperands, NEW right \in IROperands, NEW t,
           t = Defining(s, Compute(op, Fresh(s), type, left, right))
    PROVE  /\ Goes(s, t) /\ t.ret = Fresh(s) /\ t.ret <= t.temp
           /\ After(s).skip = 0 =>
                Sets(After(s), After(t), t.ret,
                     Wrapped(Computed(op, ValueOf(After(s), type, left),
                                      ValueOf(After(s), type, right), type),
                             ComputedType(op, type)))
<1> DEFINE i == Compute(op, Fresh(s), type, left, right)
           v == Computed(op, ValueOf(After(s), type, left), ValueOf(After(s), type, right), type)
<1>1. /\ i \in Instructions /\ i.to = Fresh(s) /\ Defines(i)
      /\ Result(i) = ComputedType(op, type)
  BY ContextFields, ComputeFields DEF Fresh
<1>2. i.op = op /\ i.type = type /\ i.left = left /\ i.right = right
  BY DEF Compute
<1> HIDE DEF i
<1>3. Executed(After(s), i) = Gives(After(s), i, v)
  BY <1>2, ExecutedBy
<1>4. t = Defining(s, i)
  BY DEF i
<1> HIDE DEF v
<1>5. /\ Goes(s, t) /\ t.ret = Fresh(s) /\ t.ret <= t.temp
      /\ After(s).skip = 0 => Sets(After(s), After(t), t.ret, Wrapped(v, ComputedType(op, type)))
  BY <1>1, <1>3, <1>4, DefiningSets
<1> QED
  BY <1>5 DEF v

-------------------------------------------------------------------------------
\* Conversions.

LEMMA WideTypes ==
    /\ Wide \subseteq ValueTypes /\ "i1" \notin Wide /\ "none" \notin Wide
    /\ \A type \in VariableTypes : LLVM[type] \in Wide
    /\ LLVM["char"] = "i8" /\ LLVM["int"] = "i32" /\ LLVM["long"] = "i64"
  BY DEF Wide, ValueTypes, VariableTypes, LLVM

LEMMA SetsBears ==
    ASSUME NEW m, NEW n, NEW r, NEW v, NEW type \in Wide, Sets(m, n, r, v), OfWidth(v, type)
    PROVE  Quiet(m, n) /\ Bears(n, r, v, type)
  BY WideTypes DEF Sets, Quiet, Bears

\* A register up to the counter keeps what it holds.
LEMMA StillBears ==
    ASSUME NEW s, NEW t, Goes(s, t), NEW r \in Int, r <= s.temp, NEW v, NEW type,
           Bears(After(s), r, v, type)
    PROVE  r <= t.temp /\ Bears(After(t), r, v, type)
<1>1. /\ s \in Contexts /\ t \in Contexts /\ s.temp <= t.temp
      /\ RegisterOf(After(t), r) = RegisterOf(After(s), r)
  BY DEF Goes, Spares
<1>2. r <= t.temp
  BY <1>1, ContextFields
<1> QED
  BY <1>1, <1>2 DEF Bears

LEMMA QuietTransitive ==
    ASSUME NEW m, NEW n, NEW o, Quiet(m, n), Quiet(n, o)
    PROVE  Quiet(m, o)
  BY DEF Quiet

LEMMA ReturningGoes ==
    ASSUME NEW s \in Contexts, NEW r \in Int
    PROVE  /\ Goes(s, Returning(s, r)) /\ After(Returning(s, r)) = After(s)
           /\ Returning(s, r).ret = r /\ Returning(s, r).temp = s.temp
           /\ Returning(s, r).label = s.label
<1> DEFINE t == Returning(s, r)
<1>1. /\ t \in Contexts /\ t.temp = s.temp /\ t.label = s.label /\ t.ret = r
      /\ t.code = s.code
  BY ReturningContext
<1> HIDE DEF t
<1>2. s.temp <= t.temp /\ s.label <= t.label
  BY <1>1, ContextFields
<1>3. Goes(s, t) /\ After(t) = After(s)
  BY <1>1, <1>2, CountingGoes
<1> QED
  BY <1>1, <1>3 DEF t

\* cast_value makes of a number what C makes of it.
LEMMA CastGets ==
    ASSUME NEW s \in Contexts, NEW r \in Int, r <= s.temp,
           NEW src \in CTypes, NEW dest \in CTypes, LLVM[src] \in Wide, LLVM[dest] \in Wide,
           NEW v \in Int, After(s).skip = 0 => Bears(After(s), r, v, LLVM[src])
    PROVE  Gets(s, cast_value(s, r, src, dest), Wrapped(v, LLVM[dest]), LLVM[dest])
<1> DEFINE op == IF Bits[LLVM[src]] > Bits[LLVM[dest]] THEN "trunc" ELSE "sext"
           t == cast_value(s, r, src, dest)
           w == Wrapped(v, LLVM[dest])
<1>1. /\ LLVM[src] \in IRTypes /\ LLVM[src] \in ValueTypes /\ LLVM[dest] \in ValueTypes
      /\ LLVM[src] # "i1" /\ OfWidth(w, LLVM[dest])
  BY LLVMTypes, WideTypes, WrappedIsOfWidth
<1>2. After(s).skip = 0 => OfWidth(v, LLVM[src]) /\ RegisterOf(After(s), r) = v
  BY <1>1 DEF Bears
<1>3. CASE LLVM[src] = LLVM[dest]
  <2>1. t = Returning(s, r)
    BY <1>3 DEF cast_value
  <2> HIDE DEF t
  <2>2. /\ Goes(s, t) /\ After(t) = After(s) /\ t.ret = r /\ t.temp = s.temp
    BY <2>1, ReturningGoes
  <2>3. After(s).skip = 0 => w = v
    BY <1>2, <1>3 DEF OfWidth
  <2> HIDE DEF w
  <2> QED
    BY <1>3, <2>2, <2>3 DEF Gets, Quiet, t, w
<1>4. CASE LLVM[src] # LLVM[dest]
  <2>1. t = Defining(s, Convert(op, Fresh(s), LLVM[src], Register(r), LLVM[dest]))
    BY <1>4 DEF cast_value
  <2>2. op \in {"trunc", "sext", "zext"} /\ op # "zext"
    OBVIOUS
  <2> HIDE DEF t, op
  <2>3. /\ Goes(s, t) /\ t.ret = Fresh(s) /\ t.ret <= t.temp
        /\ After(s).skip = 0 =>
             Sets(After(s), After(t), t.ret, Wrapped(RegisterOf(After(s), r), LLVM[dest]))
    BY <1>1, <2>1, <2>2, ConvertingSets
  <2>4. After(s).skip = 0 => Sets(After(s), After(t), t.ret, w)
    BY <1>2, <2>3
  <2> HIDE DEF w
  <2>5. After(s).skip = 0 => Quiet(After(s), After(t)) /\ Bears(After(t), t.ret, w, LLVM[dest])
    BY <1>1, <2>4, SetsBears
  <2> QED
    BY <2>3, <2>5 DEF Gets, t, w
<1> QED
  BY <1>3, <1>4

\* A truth value becomes 0 or 1.
LEMMA WidenedGets ==
    ASSUME NEW s \in Contexts, s.ret <= s.temp, NEW v \in {0, 1},
           After(s).skip = 0 => Bears(After(s), s.ret, v, "i1")
    PROVE  Gets(s, Widened(s), v, "i32")
<1> DEFINE t == Widened(s)
<1>1. t = Defining(s, Convert("zext", Fresh(s), "i1", Register(s.ret), "i32"))
  BY DEF Widened
<1>2. s.ret \in Int /\ "i1" \in IRTypes /\ "i32" \in ValueTypes /\ "i32" \in Wide
  BY ContextFields DEF IRTypes, ValueTypes, Wide
<1> HIDE DEF t
<1>3. /\ Goes(s, t) /\ t.ret <= t.temp
      /\ After(s).skip = 0 =>
           Sets(After(s), After(t), t.ret,
                Wrapped(Pattern(RegisterOf(After(s), s.ret), "i1"), "i32"))
  BY <1>1, <1>2, ConvertingSets
<1>4. OfWidth(v, "i32")
  BY SmallNumbers
<1>5. After(s).skip = 0 => Wrapped(Pattern(RegisterOf(After(s), s.ret), "i1"), "i32") = v
  <2>1. SUFFICES ASSUME After(s).skip = 0
                 PROVE  Wrapped(Pattern(RegisterOf(After(s), s.ret), "i1"), "i32") = v
    OBVIOUS
  <2>2. RegisterOf(After(s), s.ret) = -v
    BY <2>1 DEF Bears
  <2>3. Pattern(-v, "i1") = v
    BY OneBit
  <2> QED
    BY <1>4, <2>2, <2>3 DEF OfWidth
<1>6. After(s).skip = 0 => Quiet(After(s), After(t)) /\ Bears(After(t), t.ret, v, "i32")
  BY <1>2, <1>3, <1>4, <1>5, SetsBears
<1> QED
  BY <1>3, <1>6 DEF Gets, t

LEMMA ComparingGets ==
    ASSUME NEW s \in Contexts, NEW op \in Predicates, NEW left \in IROperands,
           NEW right \in IROperands, NEW b,
           After(s).skip = 0 =>
              Computed(op, ValueOf(After(s), "i32", left), ValueOf(After(s), "i32", right), "i32")
                 = Bool(b)
    PROVE  Gets(s, Defining(s, Compute(op, Fresh(s), "i32", left, right)), Bool(b), "i1")
<1> DEFINE t == Defining(s, Compute(op, Fresh(s), "i32", left, right))
<1>1. "i32" \in ValueTypes /\ ComputedType(op, "i32") = "i1"
  BY DEF ValueTypes, ComputedType
<1>2. /\ Goes(s, t) /\ t.ret <= t.temp
      /\ After(s).skip = 0 =>
           Sets(After(s), After(t), t.ret,
                Wrapped(Computed(op, ValueOf(After(s), "i32", left),
                                 ValueOf(After(s), "i32", right), "i32"), "i1"))
  BY <1>1, ComputingSets
<1> HIDE DEF t
<1>3. After(s).skip = 0 => Sets(After(s), After(t), t.ret, -Bool(b))
  BY <1>2, BoolValues
<1>4. Bool(b) \in {0, 1}
  BY BoolValues
<1>5. After(s).skip = 0 => Quiet(After(s), After(t)) /\ Bears(After(t), t.ret, Bool(b), "i1")
  BY <1>3, <1>4 DEF Sets, Quiet, Bears
<1> QED
  BY <1>2, <1>5 DEF Gets, t

\* An operand is a number or the register of one.
LEMMA OperandsGive ==
    ASSUME NEW m, NEW v, NEW type
    PROVE  /\ ValueOf(m, type, Const(v)) = Wrapped(v, type)
           /\ ValueOf(m, type, Register(v)) = RegisterOf(m, v)
  BY DEF ValueOf, Const, Register

LEMMA TestingGets ==
    ASSUME NEW s \in Contexts, NEW operand \in IROperands, NEW v \in Int,
           After(s).skip = 0 => ValueOf(After(s), "i32", operand) = v
    PROVE  Gets(s, TestZero(s, operand), Bool(v # 0), "i1")
<1> DEFINE zero == Const(0)
<1>1. ValueOf(After(s), "i32", zero) = 0
  <2>1. OfWidth(0, "i32")
    BY ZeroIsOfWidth DEF ValueTypes
  <2> QED
    BY <2>1, OperandsGive DEF OfWidth
<1>2. TestZero(s, operand) = Defining(s, Compute("ne", Fresh(s), "i32", operand, zero))
  BY DEF TestZero
<1>3. zero \in IROperands /\ "ne" \in Predicates
  BY OperandsAreIROperands DEF Predicates
<1> HIDE DEF zero
<1>4. After(s).skip = 0 =>
        Computed("ne", ValueOf(After(s), "i32", operand), ValueOf(After(s), "i32", zero), "i32")
           = Bool(v # 0)
  BY <1>1 DEF Computed
<1> QED
  BY <1>2, <1>3, <1>4, ComparingGets

-------------------------------------------------------------------------------
\* The value of an expression e, generated last, is v.

LEMMA HeldTypes ==
    ASSUME NEW e \in Expressions
    PROVE  /\ HeldAs(e) \in {"i1", "i8", "i32", "i64", "none"}
           /\ IsLiteral(e) => HeldAs(e) = "none"
<1>1. CASE e.kind = "AST_UNARY_OP"
  <2>1. e.op \in Increments => Type[e.operand.name] \in VariableTypes
    BY <1>1, UnaryFields, LeafFields, DeclaredTypes
  <2> QED
    BY <1>1, <2>1 DEF HeldAs, IsLiteral, VariableTypes, LLVM
<1>2. CASE e.kind = "AST_CONDITIONAL"
  BY <1>2 DEF HeldAs, IsLiteral, usual_arithmetic_conversions, LLVM
<1>3. CASE e.kind \in {"AST_IDENTIFIER", "AST_ASSIGNMENT", "AST_CALL"}
  <2>1. /\ e.kind = "AST_IDENTIFIER" => Type[e.name] \in VariableTypes
        /\ e.kind = "AST_ASSIGNMENT" => Type[e.name] \in VariableTypes
        /\ e.kind = "AST_CALL" => Function[e.name].result \in VariableTypes \cup {"void"}
    BY LeafFields, OtherFields, CallFields, DeclaredTypes
  <2> QED
    BY <1>3, <2>1 DEF HeldAs, IsLiteral, VariableTypes, LLVM
<1>4. CASE e.kind \in {"AST_NUMBER", "AST_CHARACTER", "AST_BINARY_OP", "AST_SIZEOF"}
  BY <1>4 DEF HeldAs, IsLiteral
<1> QED
  BY <1>1, <1>2, <1>3, <1>4, Kinds

\* What is tested against zero.
LEMMA BooleanGets ==
    ASSUME NEW s \in Contexts, NEW e \in Expressions, NEW v \in Int, Tests0(e),
           HeldAs(e) # "none" => s.ret <= s.temp,
           After(s).skip = 0 => Yields(s, e, v)
    PROVE  Gets(s, convert_to_boolean(s, e), Bool(v # 0), "i1")
<1>1. s.ret \in Int
  BY ContextFields
<1>2. CASE IsComparison(e)
  <2>1. convert_to_boolean(s, e) = s /\ HeldAs(e) = "i1"
    BY <1>2, ComparisonIsHeld DEF convert_to_boolean
  <2>2. ASSUME After(s).skip = 0 PROVE Bears(After(s), s.ret, Bool(v # 0), "i1")
    <3>1. v \in {0, 1} /\ RegisterOf(After(s), s.ret) = -v
      BY <2>1, <2>2 DEF Yields, Bears
    <3> QED
      BY <3>1 DEF Bool, Bears
  <2>3. Goes(s, s)
    BY GoesItself
  <2> QED
    BY <2>1, <2>2, <2>3 DEF Gets, Quiet
<1>3. CASE ~IsComparison(e)
  <2> DEFINE operand == NumberOr(e, s.ret)
  <2>1. convert_to_boolean(s, e) = TestZero(s, operand)
    BY <1>3 DEF convert_to_boolean
  <2>2. /\ operand \in IROperands
        /\ IsNumber(e) => operand = Const(s.ret)
        /\ ~IsNumber(e) => operand = Register(s.ret)
    BY <1>1, LiteralFields
  <2> HIDE DEF operand
  <2>3. ASSUME After(s).skip = 0 PROVE ValueOf(After(s), "i32", operand) = v
    <3>1. CASE IsNumber(e)
      <4>1. s.ret = v /\ OfWidth(v, "i32")
        BY <2>3, <3>1 DEF Yields, IsLiteral, IsNumber
      <4> QED
        BY <2>2, <3>1, <4>1, OperandsGive DEF OfWidth
    <3>2. CASE ~IsNumber(e)
      <4>1. HeldAs(e) = "i32"
        BY <1>3, <3>2 DEF Tests0
      <4>2. RegisterOf(After(s), s.ret) = v
        BY <2>3, <4>1 DEF Yields, Bears
      <4> QED
        BY <2>2, <3>2, <4>2, OperandsGive
    <3> QED
      BY <3>1, <3>2
  <2> QED
    BY <2>1, <2>2, <2>3, TestingGets
<1> QED
  BY <1>2, <1>3

LEMMA LogicalGets ==
    ASSUME NEW s \in Contexts, NEW e \in Expressions, NEW v \in Int, Connects(e),
           HeldAs(e) # "none" => s.ret <= s.temp,
           After(s).skip = 0 => Yields(s, e, v)
    PROVE  Gets(s, LogicalOperand(s, e), Bool(v # 0), "i1")
<1>1. s.ret \in Int
  BY ContextFields
<1>2. CASE IsComparison(e)
  <2>1. LogicalOperand(s, e) = s /\ HeldAs(e) = "i1"
    BY <1>2, ComparisonIsHeld DEF LogicalOperand
  <2>2. ASSUME After(s).skip = 0 PROVE Bears(After(s), s.ret, Bool(v # 0), "i1")
    <3>1. v \in {0, 1} /\ RegisterOf(After(s), s.ret) = -v
      BY <2>1, <2>2 DEF Yields, Bears
    <3> QED
      BY <3>1 DEF Bool, Bears
  <2>3. Goes(s, s)
    BY GoesItself
  <2> QED
    BY <2>1, <2>2, <2>3 DEF Gets, Quiet
<1>3. CASE ~IsComparison(e)
  <2> DEFINE operand == LiteralOr(e, s.ret)
  <2>1. LogicalOperand(s, e) = TestZero(s, operand)
    BY <1>3 DEF LogicalOperand
  <2>2. /\ operand \in IROperands
        /\ IsLiteral(e) => operand = Const(s.ret)
        /\ ~IsLiteral(e) => operand = Register(s.ret)
    BY <1>1, LiteralFields
  <2> HIDE DEF operand
  <2>3. ASSUME After(s).skip = 0 PROVE ValueOf(After(s), "i32", operand) = v
    <3>1. CASE IsLiteral(e)
      <4>1. s.ret = v /\ OfWidth(v, "i32")
        BY <2>3, <3>1 DEF Yields
      <4> QED
        BY <2>2, <3>1, <4>1, OperandsGive DEF OfWidth
    <3>2. CASE ~IsLiteral(e)
      <4>1. HeldAs(e) = "i32"
        BY <1>3, <3>2 DEF Connects
      <4>2. RegisterOf(After(s), s.ret) = v
        BY <2>3, <4>1 DEF Yields, Bears
      <4> QED
        BY <2>2, <3>2, <4>2, OperandsGive
    <3> QED
      BY <3>1, <3>2
  <2> QED
    BY <2>1, <2>2, <2>3, TestingGets
<1> QED
  BY <1>2, <1>3

\* An operand of arithmetic becomes an i32, the value of the expression.
LEMMA PromotedGets ==
    ASSUME NEW s \in Contexts, NEW e \in Expressions, NEW r \in Int, NEW v \in Int,
           Converts(e), IsComparison(e) \/ HeldAs(e) \notin {"i1", "i64"},
           HeldAs(e) # "none" => r <= s.temp,
           After(s).skip = 0 =>
              /\ IsLiteral(e) => r = v /\ OfWidth(v, "i32")
              /\ HeldAs(e) # "none" => Bears(After(s), r, v, HeldAs(e)),
           NEW t, t = Promoted(s, e, r)
    PROVE  /\ Goes(s, t) /\ (~IsLiteral(e) => t.ret <= t.temp)
           /\ After(s).skip = 0 => /\ Quiet(After(s), After(t)) /\ OfWidth(v, "i32")
                                   /\ ValueOf(After(t), "i32", LiteralOr(e, t.ret)) = v
<1>1. CASE IsComparison(e)
  <2> DEFINE u == Returning(s, r)
             w == IF v \in {0, 1} THEN v ELSE 0
  <2>1. HeldAs(e) = "i1" /\ ~IsLiteral(e)
    BY <1>1, ComparisonIsHeld
  <2>2. t = Widened(u)
    BY <1>1 DEF Promoted
  <2>3. /\ Goes(s, u) /\ After(u) = After(s) /\ u.ret = r /\ u.temp = s.temp
        /\ u \in Contexts
    BY ReturningGoes, ReturningContext
  <2> HIDE DEF u
  <2>4. w \in {0, 1} /\ (After(s).skip = 0 => w = v)
    BY <2>1 DEF Bears
  <2> HIDE DEF w
  <2>5. u.ret <= u.temp /\ (After(u).skip = 0 => Bears(After(u), u.ret, w, "i1"))
    BY <2>1, <2>3, <2>4
  <2>6. Gets(u, t, w, "i32")
    BY <2>2, <2>3, <2>4, <2>5, WidenedGets
  <2>7. Goes(s, t) /\ t.ret <= t.temp
    BY <2>3, <2>6, GoesTransitive DEF Gets
  <2>8. ASSUME After(s).skip = 0
        PROVE  /\ Quiet(After(s), After(t)) /\ OfWidth(v, "i32")
               /\ ValueOf(After(t), "i32", LiteralOr(e, t.ret)) = v
    <3>1. Quiet(After(s), After(t)) /\ Bears(After(t), t.ret, v, "i32")
      BY <2>3, <2>4, <2>6, <2>8 DEF Gets
    <3>2. LiteralOr(e, t.ret) = Register(t.ret)
      BY <2>1 DEF LiteralOr
    <3> QED
      BY <3>1, <3>2, OperandsGive DEF Bears
  <2> QED
    BY <2>7, <2>8
<1>2. CASE IsLiteral(e)
  <2>1. t = Returning(s, r)
    BY <1>2 DEF Promoted, IsComparison, IsLiteral
  <2>2. Goes(s, t) /\ After(t) = After(s) /\ t.ret = r
    BY <2>1, ReturningGoes
  <2>3. ASSUME After(s).skip = 0
        PROVE  /\ Quiet(After(s), After(t)) /\ OfWidth(v, "i32")
               /\ ValueOf(After(t), "i32", LiteralOr(e, t.ret)) = v
    <3>1. LiteralOr(e, t.ret) = Const(v) /\ OfWidth(v, "i32")
      BY <1>2, <2>2, <2>3 DEF LiteralOr
    <3> QED
      BY <2>2, <3>1, OperandsGive DEF OfWidth, Quiet
  <2> QED
    BY <1>2, <2>2, <2>3
<1>3. CASE ~IsComparison(e) /\ ~IsLiteral(e)
  <2> DEFINE src == get_expression_type[e]
             w == Wrapped(v, "i32")
  <2>1. HeldAs(e) = LLVM[src] /\ src \in CTypes
    BY <1>3, ExpressionTypes DEF Converts
  <2>2. LLVM[src] \in {"i8", "i32"} /\ LLVM[src] \in Wide /\ HeldAs(e) # "none"
    <3>1. LLVM[src] # "none"
      BY <2>1 DEF CTypes, VariableTypes, LLVM
    <3> QED
      BY <1>3, <2>1, <3>1, HeldTypes DEF Wide
  <2>3. t = cast_value(s, r, src, "int") /\ "int" \in CTypes /\ LLVM["int"] = "i32"
        /\ "i32" \in Wide
    BY <1>3 DEF Promoted, CTypes, VariableTypes, LLVM, Wide
  <2>4. r <= s.temp /\ (After(s).skip = 0 => Bears(After(s), r, v, LLVM[src]))
    BY <2>1, <2>2
  <2> HIDE DEF src
  <2>5. Gets(s, t, w, "i32")
    BY <2>1, <2>2, <2>3, <2>4, CastGets
  <2>6. After(s).skip = 0 => OfWidth(v, "i32")
    BY <2>2, <2>4, LongerWidths DEF Bears
  <2>7. After(s).skip = 0 => w = v
    BY <2>6 DEF OfWidth
  <2>8. LiteralOr(e, t.ret) = Register(t.ret)
    BY <1>3 DEF LiteralOr
  <2>9. After(s).skip = 0 =>
           Quiet(After(s), After(t)) /\ RegisterOf(After(t), t.ret) = v
    BY <2>5, <2>7 DEF Gets, Bears
  <2> QED
    BY <2>5, <2>6, <2>8, <2>9, OperandsGive DEF Gets
<1> QED
  BY <1>1, <1>2, <1>3

\* What is converted to a type is what C makes of it there.
LEMMA ConvertedGets ==
    ASSUME NEW s \in Contexts, NEW e \in Expressions, NEW v \in Int,
           NEW type \in VariableTypes, Converts(e), HeldAs(e) # "i1",
           HeldAs(e) # "none" => s.ret <= s.temp,
           After(s).skip = 0 => Yields(s, e, v),
           NEW t, t = Converted(s, e, type)
    PROVE  /\ Goes(s, t) /\ (~IsLiteral(e) => t.ret <= t.temp)
           /\ After(s).skip = 0 =>
                /\ Quiet(After(s), After(t))
                /\ ValueOf(After(t), LLVM[type], LiteralOr(e, t.ret)) = Wrapped(v, LLVM[type])
<1>1. CASE IsLiteral(e)
  <2>1. t = s
    BY <1>1 DEF Converted
  <2>2. After(s).skip = 0 => LiteralOr(e, t.ret) = Const(v)
    BY <1>1, <2>1 DEF Yields, LiteralOr
  <2> QED
    BY <1>1, <2>1, <2>2, GoesItself, OperandsGive DEF Quiet
<1>2. CASE ~IsLiteral(e)
  <2> DEFINE src == get_expression_type[e]
             w == Wrapped(v, LLVM[type])
  <2>1. HeldAs(e) = LLVM[src] /\ src \in CTypes
    BY <1>2, ExpressionTypes DEF Converts
  <2>2. LLVM[src] \in Wide /\ HeldAs(e) # "none"
    <3>1. LLVM[src] # "none"
      BY <2>1 DEF CTypes, VariableTypes, LLVM
    <3> QED
      BY <2>1, <3>1, HeldTypes DEF Wide
  <2>3. /\ t = cast_value(s, s.ret, src, type) /\ type \in CTypes /\ LLVM[type] \in Wide
        /\ LLVM[type] # "i1"
    BY <1>2, WideTypes DEF Converted, CTypes
  <2>4. /\ s.ret \in Int /\ s.ret <= s.temp
        /\ After(s).skip = 0 => Bears(After(s), s.ret, v, LLVM[src])
    BY <2>1, <2>2, ContextFields DEF Yields
  <2> HIDE DEF src
  <2>5. Gets(s, t, w, LLVM[type])
    BY <2>1, <2>2, <2>3, <2>4, CastGets
  <2>6. LiteralOr(e, t.ret) = Register(t.ret)
    BY <1>2 DEF LiteralOr
  <2>7. After(s).skip = 0 => Quiet(After(s), After(t)) /\ RegisterOf(After(t), t.ret) = w
    BY <2>3, <2>5 DEF Gets, Bears
  <2> QED
    BY <2>5, <2>6, <2>7, OperandsGive DEF Gets
<1> QED
  BY <1>1, <1>2

-------------------------------------------------------------------------------
\* Stores, branches, jumps and labels.

LEMMA BoundFields ==
    ASSUME NEW m, Machine(m), NEW l
    PROVE  /\ Machine(Bound(m, l)) /\ Bound(m, l).skip = l
           /\ Bound(m, l).values = m.values /\ Bound(m, l).memory = m.memory
           /\ Bound(m, l).sent = m.sent
           /\ m.skip = 0 => Bound(Bound(m, l), 0) = m
<1> DEFINE n == Bound(m, l)
<1>1. /\ n = [values |-> m.values, memory |-> m.memory, skip |-> l, sent |-> m.sent,
              told |-> m.told]
  BY DEF Bound, Machine
<1> HIDE DEF n
<1>2. Bound(n, 0) = [values |-> m.values, memory |-> m.memory, skip |-> 0, sent |-> m.sent,
                     told |-> m.told]
  BY <1>1 DEF Bound
<1>3. m.skip = 0 => Bound(n, 0) = m
  BY <1>2 DEF Machine
<1> QED
  BY <1>1, <1>3 DEF n, Machine

LEMMA StoringPuts ==
    ASSUME NEW s \in Contexts, NEW type \in ValueTypes, NEW operand \in IROperands,
           NEW place \in Places, NEW t, t = Emit(s, Store(type, operand, place))
    PROVE  /\ t \in Contexts /\ t.temp = s.temp /\ t.label = s.label /\ t.ret = s.ret
           /\ \A b : Goes(b, s) /\ (\A r \in Int : r <= b.temp => place # Slot(r)) => Goes(b, t)
           /\ After(s).skip # 0 => After(t) = After(s)
           /\ After(s).skip = 0 =>
                Puts(After(s), After(t), place, ValueOf(After(s), type, operand))
<1> DEFINE i == Store(type, operand, place)
           m == After(s)
           v == ValueOf(m, type, operand)
<1>1. i \in Instructions
  BY StoreIsInstruction
<1>2. i.op = "store" /\ i.type = type /\ i.left = operand /\ i.place = place
  BY DEF Store
<1>3. t = Emit(s, i)
  OBVIOUS
<1> HIDE DEF i
<1>4. ~Defines(i)
  BY <1>2 DEF Defines, Computations, Predicates
<1>5. \A b : Goes(b, s) /\ (\A r \in Int : r <= b.temp => place # Slot(r)) => Goes(b, t)
  BY <1>1, <1>2, <1>3, <1>4, EmittingGoes
<1>6. /\ t \in Contexts /\ t.temp = s.temp /\ t.label = s.label /\ t.ret = s.ret
      /\ After(t) = Step(m, i) /\ Machine(m)
  BY <1>1, <1>3, EmitContext, MachineOfEmitted, MachineOfContext
<1>7. m.skip # 0 => After(t) = m
  BY <1>2, <1>6, StepSkips
<1> HIDE DEF m, v
<1>8. ASSUME m.skip = 0 PROVE Puts(m, After(t), place, v)
  <2> DEFINE memory1 == Given(m.memory, place, v)
             n == After(t)
  <2>1. n = [m EXCEPT !.memory = memory1]
    BY <1>2, <1>6, <1>8, StepExecutes, ExecutedBy DEF v
  <2> HIDE DEF memory1, n
  <2>2. n.memory = memory1 /\ n.skip = m.skip /\ n.sent = m.sent /\ n.values = m.values
    BY <1>6, <2>1 DEF Machine
  <2>3. HeldIn(n, place) = v
    BY <2>2, GivenThere DEF HeldIn, memory1
  <2>4. \A q : q # place => HeldIn(n, q) = HeldIn(m, q)
    BY <2>2, GivenElsewhere DEF HeldIn, memory1
  <2> QED
    BY <2>2, <2>3, <2>4 DEF Puts, n
<1> QED
  BY <1>5, <1>6, <1>7, <1>8 DEF m, v

\* After a branch one is on the way to where its condition says.
LEMMA BranchingGoes ==
    ASSUME NEW s \in Contexts, NEW yes \in Int, NEW no \in Int, NEW b,
           After(s).skip = 0 => Bears(After(s), s.ret, Bool(b), "i1"),
           NEW t, t = BranchOn(s, yes, no)
    PROVE  /\ Goes(s, t) /\ t.temp = s.temp /\ t.label = s.label
           /\ After(s).skip # 0 => After(t) = After(s)
           /\ After(s).skip = 0 => After(t) = Bound(After(s), IF b THEN yes ELSE no)
<1> DEFINE i == Branch(Register(s.ret), yes, no)
           m == After(s)
<1>1. i \in Instructions
  BY ContextFields, OperandsAreIROperands, BranchIsInstruction
<1>2. i.op = "br" /\ i.left = Register(s.ret) /\ i.yes = yes /\ i.no = no
  BY DEF Branch
<1>3. t = Emit(s, i)
  BY DEF BranchOn
<1> HIDE DEF i
<1>4. ~Defines(i)
  BY <1>2 DEF Defines, Computations, Predicates
<1>5. Goes(s, t)
  BY <1>1, <1>2, <1>3, <1>4, GoesItself, EmittingGoes
<1>6. /\ t.temp = s.temp /\ t.label = s.label
      /\ After(t) = Step(m, i) /\ Machine(m)
  BY <1>1, <1>3, EmitContext, MachineOfEmitted, MachineOfContext
<1>7. m.skip # 0 => After(t) = m
  BY <1>2, <1>6, StepSkips
<1>8. ASSUME m.skip = 0 PROVE After(t) = Bound(m, IF b THEN yes ELSE no)
  <2>1. After(t) = [m EXCEPT !.skip = IF ValueOf(m, "i1", i.left) # 0 THEN i.yes ELSE i.no]
    BY <1>2, <1>6, <1>8, StepExecutes, ExecutedBy
  <2>2. ValueOf(m, "i1", i.left) = -Bool(b)
    BY <1>2, <1>8, OperandsGive DEF Bears
  <2>3. ValueOf(m, "i1", i.left) # 0 <=> b
    BY <2>2 DEF Bool
  <2> QED
    BY <1>2, <2>1, <2>3 DEF Bound
<1> QED
  BY <1>5, <1>6, <1>7, <1>8

LEMMA JumpingGoes ==
    ASSUME NEW s \in Contexts, NEW l \in Int, NEW t, t = Emit(s, Jump(l))
    PROVE  /\ Goes(s, t) /\ t.temp = s.temp /\ t.label = s.label /\ t.ret = s.ret
           /\ After(s).skip # 0 => After(t) = After(s)
           /\ After(s).skip = 0 => After(t) = Bound(After(s), l)
<1> DEFINE i == Jump(l)
           m == After(s)
<1>1. i \in Instructions
  BY LabelsAreInstructions
<1>2. i.op = "jump" /\ i.yes = l
  BY DEF Jump
<1>3. t = Emit(s, i)
  OBVIOUS
<1> HIDE DEF i
<1>4. ~Defines(i)
  BY <1>2 DEF Defines, Computations, Predicates
<1>5. Goes(s, t)
  BY <1>1, <1>2, <1>3, <1>4, GoesItself, EmittingGoes
<1>6. /\ t.temp = s.temp /\ t.label = s.label /\ t.ret = s.ret
      /\ After(t) = Step(m, i) /\ Machine(m)
  BY <1>1, <1>3, EmitContext, MachineOfEmitted, MachineOfContext
<1>7. m.skip # 0 => After(t) = m
  BY <1>2, <1>6, StepSkips
<1>8. m.skip = 0 => After(t) = Bound(m, l)
  BY <1>2, <1>6, StepExecutes, ExecutedBy DEF Bound
<1> QED
  BY <1>5, <1>6, <1>7, <1>8

LEMMA LabelMoves ==
    ASSUME NEW s \in Contexts, NEW l \in Int, NEW t, t = Emit(s, Label(l))
    PROVE  /\ t \in Contexts /\ t.temp = s.temp /\ t.label = s.label /\ t.ret = s.ret
           /\ \A b : Goes(b, s) /\ l > b.label => Goes(b, t)
           /\ After(s).skip \notin {0, l} => After(t) = After(s)
           /\ After(s).skip \in {0, l} => After(t) = Bound(After(s), 0)
<1> DEFINE i == Label(l)
           m == After(s)
<1>1. i \in Instructions
  BY LabelsAreInstructions
<1>2. i.op = "label" /\ i.yes = l
  BY DEF Label
<1>3. t = Emit(s, i)
  OBVIOUS
<1> HIDE DEF i
<1>4. ~Defines(i)
  BY <1>2 DEF Defines, Computations, Predicates
<1>5. \A b : Goes(b, s) /\ l > b.label => Goes(b, t)
  BY <1>1, <1>2, <1>3, <1>4, EmittingGoes
<1>6. /\ t \in Contexts /\ t.temp = s.temp /\ t.label = s.label /\ t.ret = s.ret
      /\ After(t) = Step(m, i) /\ Machine(m)
  BY <1>1, <1>3, EmitContext, MachineOfEmitted, MachineOfContext
<1>7. m.skip \notin {0, l} => After(t) = m
  BY <1>2, <1>6, StepSkips
<1>8. m.skip \in {0, l} => After(t) = Bound(m, 0)
  BY <1>2, <1>6, StepArrives DEF Bound
<1> QED
  BY <1>5, <1>6, <1>7, <1>8

-------------------------------------------------------------------------------
(***************************************************************************)
(* The machine and C side by side.  A context runs with a meaning when     *)
(* everything before it has done what C does, or is on the way to a label  *)
(* that comes later and has nothing to show.                               *)
(***************************************************************************)

LEMMA ComesRuns ==
    ASSUME NEW s, NEW c, Runs(s, c), NEW t, NEW d \in Meanings, Comes(s, t, d)
    PROVE  Runs(t, d) /\ (After(t).skip = 0 <=> After(s).skip = 0)
<1>1. /\ s \in Contexts /\ t \in Contexts /\ s.label \in Nat /\ s.label <= t.label
      /\ Spares(s.temp, s.label, After(s), After(t)) /\ After(s).skip \in 0 .. s.label
      /\ After(s).skip = 0 => Reads(After(t), d)
  BY DEF Runs, Comes, Goes
<1>2. t.label \in Nat
  BY <1>1, ContextFields
<1>3. CASE After(s).skip = 0
  <2>1. Reads(After(t), d) /\ After(t).skip = 0
    BY <1>1, <1>3 DEF Reads
  <2> QED
    BY <1>1, <1>2, <1>3, <2>1 DEF Runs
<1>4. CASE After(s).skip # 0
  <2>1. After(s).skip \in 1 .. s.label
    BY <1>1, <1>4
  <2>2. After(t) = After(s)
    BY <1>1, <2>1 DEF Spares
  <2>3. After(t).skip \in 0 .. t.label /\ After(t).skip # 0
    BY <1>1, <1>2, <1>4, <2>2
  <2> QED
    BY <1>1, <1>2, <1>4, <2>3 DEF Runs
<1> QED
  BY <1>3, <1>4

LEMMA ComesTransitive ==
    ASSUME NEW s, NEW t, NEW u, NEW c, NEW d, NEW x, Runs(s, c), d \in Meanings,
           Comes(s, t, d), Comes(t, u, x)
    PROVE  Comes(s, u, x)
<1>1. After(t).skip = 0 <=> After(s).skip = 0
  BY ComesRuns
<1> QED
  BY <1>1, GoesTransitive DEF Comes

LEMMA QuietReads ==
    ASSUME NEW m, NEW n, Quiet(m, n), NEW c, NEW d, Reads(m, c),
           d.memory = c.memory, d.sent = c.sent
    PROVE  Reads(n, d)
  BY DEF Quiet, Reads, HeldIn

\* What changes nothing but registers.
LEMMA QuietComes ==
    ASSUME NEW s, NEW c, Runs(s, c), NEW t, Goes(s, t),
           After(s).skip = 0 => Quiet(After(s), After(t)),
           NEW d, d.memory = c.memory, d.sent = c.sent
    PROVE  Comes(s, t, d)
  BY QuietReads DEF Comes, Runs

LEMMA FitsIsWidth ==
    ASSUME NEW v \in Int, NEW type \in VariableTypes
    PROVE  Fits(v, type) <=> OfWidth(v, LLVM[type])
  BY DEF Fits, OfWidth

LEMMA HavingFields ==
    ASSUME NEW c \in Meanings, NEW v \in Int, NEW type \in VariableTypes, NEW d,
           d = Having(c, v, type)
    PROVE  /\ d \in Meanings /\ d.value = v /\ d.type = type
           /\ d.memory = c.memory /\ d.sent = c.sent
           /\ d.ok <=> c.ok /\ OfWidth(v, LLVM[type])
<1> DEFINE ok == c.ok /\ Fits(v, type)
<1>1. ok \in BOOLEAN /\ (ok <=> c.ok /\ OfWidth(v, LLVM[type]))
  BY FitsIsWidth
<1>2. d = [c EXCEPT !.value = v, !.type = type, !.ok = ok]
  BY DEF Having
<1> HIDE DEF ok
<1>3. /\ d \in Meanings /\ d.value = v /\ d.type = type
      /\ d.memory = c.memory /\ d.sent = c.sent /\ d.ok = ok
  BY <1>1, <1>2 DEF Meanings
<1> QED
  BY <1>1, <1>3, Zenon

LEMMA ProvidedFields ==
    ASSUME NEW c \in Meanings, NEW condition \in BOOLEAN, NEW d, d = Provided(c, condition)
    PROVE  /\ d \in Meanings /\ d.value = c.value /\ d.type = c.type
           /\ d.memory = c.memory /\ d.sent = c.sent
           /\ d.ok <=> c.ok /\ condition
<1> DEFINE ok == c.ok /\ condition
<1>1. ok \in BOOLEAN
  OBVIOUS
<1>2. d = [c EXCEPT !.ok = ok]
  BY DEF Provided
<1> HIDE DEF ok
<1>3. /\ d \in Meanings /\ d.value = c.value /\ d.type = c.type
      /\ d.memory = c.memory /\ d.sent = c.sent /\ d.ok = ok
  BY <1>1, <1>2 DEF Meanings
<1> QED
  BY <1>3, Zenon DEF ok

LEMMA HoldingFields ==
    ASSUME NEW c \in Meanings, NEW n \in Names, NEW v \in Int, NEW d, d = Holding(c, n, v)
    PROVE  /\ d \in Meanings /\ d.type = Type[n]
           /\ d.value = Wrapped(v, LLVM[Type[n]]) /\ d.value \in Int
           /\ d.memory = [c.memory EXCEPT ![n] = d.value] /\ d.sent = c.sent
           /\ d.ok = c.ok
           /\ IsMemory(c.memory) => IsMemory(d.memory)
<1> DEFINE w == Wrapped(v, LLVM[Type[n]])
<1>1. Type[n] \in VariableTypes
  BY DeclarationsAssumption
<1>2. OfWidth(w, LLVM[Type[n]])
  BY <1>1, VariablesAreValues, WrappedIsOfWidth
<1>3. d = [c EXCEPT !.memory[n] = w, !.value = w, !.type = Type[n]]
  BY DEF Holding
<1> HIDE DEF w
<1>4. w \in Int
  BY <1>2 DEF OfWidth
<1>5. c.memory \in [Names -> Int]
  BY MeaningFields
<1>6. /\ d \in Meanings /\ d.memory = [c.memory EXCEPT ![n] = w] /\ d.value = w
      /\ d.type = Type[n] /\ d.sent = c.sent /\ d.ok = c.ok
  <2> DEFINE m == [c.memory EXCEPT ![n] = w]
  <2>1. m \in [Names -> Int]
    BY <1>4, <1>5
  <2>2. d = [c EXCEPT !.memory = m, !.value = w, !.type = Type[n]]
    BY <1>3
  <2> HIDE DEF m
  <2>3. /\ d \in Meanings /\ d.memory = m /\ d.value = w
        /\ d.type = Type[n] /\ d.sent = c.sent /\ d.ok = c.ok
    BY <1>1, <1>4, <2>1, <2>2 DEF Meanings
  <2> QED
    BY <2>3 DEF m
<1>7. IsMemory(c.memory) => IsMemory(d.memory)
  BY HoldingMeans DEF Means
<1> QED
  BY <1>4, <1>6, <1>7 DEF w

\* g gives a meaning, and leaves variables their types.
LEMMA SpeaksMeans ==
    ASSUME NEW g, NEW e, Speaks(g, e), NEW c \in Meanings
    PROVE  /\ g[c] \in Meanings /\ Says(c, g[c], e)
           /\ IsMemory(c.memory) => IsMemory(g[c].memory)
  BY DEF Speaks, Evaluators, Means

LEMMA AnswersBecome ==
    ASSUME NEW f, NEW g, NEW e, Answers(f, g, e), NEW s, NEW c, Runs(s, c),
           After(s).skip = 0 => g[c].ok
    PROVE  /\ Becomes(s, f[s], g[c], e) /\ g[c] \in Meanings /\ Runs(f[s], g[c])
           /\ f[s] \in Contexts /\ Goes(s, f[s])
           /\ After(f[s]).skip = 0 <=> After(s).skip = 0
           /\ HeldAs(e) # "none" => f[s].ret <= f[s].temp
           /\ After(f[s]).skip = 0 => Yields(f[s], e, g[c].value)
<1>1. Becomes(s, f[s], g[c], e)
  BY DEF Answers
<1>2. g[c] \in Meanings
  BY SpeaksMeans DEF Answers, Runs
<1>3. Comes(s, f[s], g[c])
  BY <1>1 DEF Becomes
<1>4. Runs(f[s], g[c]) /\ (After(f[s]).skip = 0 <=> After(s).skip = 0)
  BY <1>2, <1>3, ComesRuns
<1> QED
  BY <1>1, <1>2, <1>3, <1>4 DEF Becomes, Comes, Goes

-------------------------------------------------------------------------------
\* Literals, variables and sizeof.

LEMMA LiteralBecomes ==
    ASSUME NEW s, NEW c, Runs(s, c), NEW e \in Expressions, IsLiteral(e), NEW d,
           d = Having(c, e.value, "int"), After(s).skip = 0 => d.ok
    PROVE  Becomes(s, Returning(s, e.value), d, e)
<1> DEFINE t == Returning(s, e.value)
<1>1. e.value \in Int /\ "int" \in VariableTypes /\ LLVM["int"] = "i32" /\ HeldAs(e) = "none"
  BY LeafFields, HeldTypes DEF VariableTypes, LLVM
<1>2. s \in Contexts /\ c \in Meanings
  BY DEF Runs
<1>3. Goes(s, t) /\ After(t) = After(s) /\ t.ret = e.value
  BY <1>1, <1>2, ReturningGoes
<1> HIDE DEF t
<1>4. /\ d.memory = c.memory /\ d.sent = c.sent /\ d.value = e.value
      /\ d.ok => OfWidth(d.value, "i32")
  BY <1>1, <1>2, HavingFields
<1>5. Comes(s, t, d)
  BY <1>3, <1>4, QuietComes DEF Quiet
<1> QED
  BY <1>1, <1>3, <1>4, <1>5 DEF Becomes, Yields, t

LEMMA SizeOfBecomes ==
    ASSUME NEW s, NEW c, Runs(s, c), NEW e \in Expressions, e.kind = "AST_SIZEOF",
           NEW v \in Int, NEW d, d = Having(c, v, "int")
    PROVE  Becomes(s, Returning(s, v), d, e)
<1> DEFINE t == Returning(s, v)
<1>1. "int" \in VariableTypes /\ HeldAs(e) = "none" /\ ~IsLiteral(e)
  BY DEF VariableTypes, HeldAs, IsLiteral
<1>2. s \in Contexts /\ c \in Meanings
  BY DEF Runs
<1>3. Goes(s, t) /\ After(t) = After(s)
  BY <1>2, ReturningGoes
<1> HIDE DEF t
<1>4. d.memory = c.memory /\ d.sent = c.sent
  BY <1>1, <1>2, HavingFields
<1>5. Comes(s, t, d)
  BY <1>3, <1>4, QuietComes DEF Quiet
<1> QED
  BY <1>1, <1>5 DEF Becomes, Yields, t

LEMMA IdentifierBecomes ==
    ASSUME NEW s, NEW c, Runs(s, c), NEW e \in Expressions, e.kind = "AST_IDENTIFIER", NEW d,
           d = Having(c, c.memory[e.name], Type[e.name]), NEW t,
           t = Defining(s, Load(Fresh(s), LLVM[Type[e.name]], Variable(e.name)))
    PROVE  Becomes(s, t, d, e)
<1> DEFINE n == e.name
           type == LLVM[Type[n]]
<1>1. n \in Names /\ Type[n] \in VariableTypes
  BY LeafFields, DeclaredTypes
<1>2. /\ type \in ValueTypes /\ type \in Wide /\ Variable(n) \in Places
  BY <1>1, WideTypes, VariablesAreValues, PlacesArePlaces
<1>3. s \in Contexts /\ c \in Meanings /\ c.memory[n] \in Int
  BY <1>1, MeaningFields DEF Runs
<1>4. HeldAs(e) = type /\ ~IsLiteral(e)
  BY DEF HeldAs, IsLiteral
<1>5. /\ Goes(s, t) /\ t.ret <= t.temp
      /\ After(s).skip = 0 =>
           Sets(After(s), After(t), t.ret, Wrapped(HeldIn(After(s), Variable(n)), type))
  BY <1>2, <1>3, LoadingSets
<1>6. d.memory = c.memory /\ d.sent = c.sent /\ d.value = c.memory[n]
  BY <1>1, <1>3, HavingFields
<1>7. ASSUME After(s).skip = 0
      PROVE  Quiet(After(s), After(t)) /\ Bears(After(t), t.ret, d.value, type)
  <2>1. HeldIn(After(s), Variable(n)) = c.memory[n] /\ Fits(c.memory[n], Type[n])
    BY <1>1, <1>7 DEF Runs, Reads, IsMemory
  <2>2. Wrapped(c.memory[n], type) = c.memory[n] /\ OfWidth(c.memory[n], type)
    BY <1>3, <2>1 DEF Fits, OfWidth
  <2> QED
    BY <1>2, <1>5, <1>6, <1>7, <2>1, <2>2, SetsBears
<1> HIDE DEF n, type
<1>8. Comes(s, t, d)
  BY <1>5, <1>6, <1>7, QuietComes
<1> QED
  BY <1>4, <1>5, <1>7, <1>8 DEF Becomes, Yields

-------------------------------------------------------------------------------
\* Signs, arithmetic and comparisons.

\* What is converted is a literal or has a register.
LEMMA ConvertsHeld ==
    ASSUME NEW e \in Expressions, Converts(e), ~IsLiteral(e)
    PROVE  HeldAs(e) # "none" /\ HeldAs(e) = LLVM[get_expression_type[e]]
<1>1. HeldAs(e) = LLVM[get_expression_type[e]] /\ get_expression_type[e] \in CTypes
  BY ExpressionTypes DEF Converts
<1>2. \A type \in CTypes : LLVM[type] # "none"
  BY DEF CTypes, VariableTypes, LLVM
<1> QED
  BY <1>1, <1>2

LEMMA GetsBecomes ==
    ASSUME NEW s, NEW c, Runs(s, c), NEW t, NEW x \in Meanings, Comes(s, t, x),
           NEW u, NEW v, NEW type, Gets(t, u, v, type), NEW d,
           d.memory = x.memory, d.sent = x.sent, d.value = v,
           NEW e, HeldAs(e) = type, ~IsLiteral(e)
    PROVE  Becomes(s, u, d, e)
<1>1. Runs(t, x) /\ (After(t).skip = 0 <=> After(s).skip = 0)
  BY ComesRuns
<1>2. /\ Goes(t, u) /\ u.ret <= u.temp
      /\ After(t).skip = 0 => Quiet(After(t), After(u)) /\ Bears(After(u), u.ret, v, type)
  BY DEF Gets
<1>3. Comes(t, u, d)
  BY <1>1, <1>2, QuietComes
<1>4. Comes(s, u, d)
  BY <1>1, <1>3, ComesTransitive
<1> QED
  BY <1>1, <1>2, <1>4 DEF Becomes, Yields

LEMMA NumberGives ==
    ASSUME NEW s \in Contexts, NEW a \in Expressions, NEW v \in Int, Signed0(a)
    PROVE  /\ NumberOr(a, s.ret) \in IROperands
           /\ Yields(s, a, v) =>
                ValueOf(After(s), "i32", NumberOr(a, s.ret)) = v /\ OfWidth(v, "i32")
<1> DEFINE operand == NumberOr(a, s.ret)
<1>1. /\ s.ret \in Int /\ operand \in IROperands
      /\ IsNumber(a) => operand = Const(s.ret)
      /\ ~IsNumber(a) => operand = Register(s.ret)
  BY ContextFields, LiteralFields
<1> HIDE DEF operand
<1>2. ASSUME Yields(s, a, v)
      PROVE  ValueOf(After(s), "i32", operand) = v /\ OfWidth(v, "i32")
  <2>1. CASE IsNumber(a)
    <3>1. s.ret = v /\ OfWidth(v, "i32")
      BY <1>2, <2>1 DEF Yields, IsLiteral, IsNumber
    <3> QED
      BY <1>1, <2>1, <3>1, OperandsGive DEF OfWidth
  <2>2. CASE ~IsNumber(a)
    <3>1. HeldAs(a) = "i32"
      BY <2>2 DEF Signed0
    <3>2. RegisterOf(After(s), s.ret) = v /\ OfWidth(v, "i32")
      BY <1>2, <3>1 DEF Yields, Bears
    <3> QED
      BY <1>1, <2>2, <3>2, OperandsGive
  <2> QED
    BY <2>1, <2>2
<1> QED
  BY <1>1, <1>2 DEF operand

\* An operand of a sign is an int to C as well.
LEMMA SignedIsInt ==
    ASSUME NEW a \in Expressions, Signed0(a), NEW c, NEW x, Says(c, x, a)
    PROVE  Promotion(x.type) = "int"
<1>1. x.type # "long"
  BY DEF Signed0, Says, IsNumber, IsLiteral
<1> QED
  BY <1>1 DEF Promotion

LEMMA UnaryHeld ==
    ASSUME NEW e \in Expressions, e.kind = "AST_UNARY_OP", e.op \in Signs
    PROVE  /\ ~IsLiteral(e) /\ e.op \notin Increments
           /\ e.op = "OP_NOT" => HeldAs(e) = "i1"
           /\ e.op \in {"OP_NEG", "OP_BNOT"} => HeldAs(e) = "i32"
  BY DEF HeldAs, IsLiteral, Signs, Increments

LEMMA UnaryBecomes ==
    ASSUME NEW s, NEW c, Runs(s, c), NEW e \in Expressions, e.kind = "AST_UNARY_OP",
           e.op \in Signs, Signed0(e.operand), NEW f, NEW g, Answers(f, g, e.operand),
           NEW d, d = EvaluateUnary(c, e, g), After(s).skip = 0 => d.ok
    PROVE  Becomes(s, GenerateUnary(s, e, f), d, e)
<1> DEFINE a == e.operand
           t == f[s]
           x == g[c]
           from == NumberOr(a, t.ret)
           zero == Const(0)
           ones == Const(-1)
           u == GenerateUnary(s, e, f)
           v == x.value
<1>1. a \in Expressions /\ s \in Contexts /\ c \in Meanings
  BY UnaryFields DEF Runs
<1>2. x \in Meanings /\ Says(c, x, a)
  BY <1>1, SpeaksMeans DEF Answers
<1>3. v \in Int /\ -v \in Int /\ (-v) - 1 \in Int /\ Promotion(x.type) = "int"
  BY <1>1, <1>2, MeaningFields, SignedIsInt
<1>4. /\ e.op = "OP_NOT" => d = Having(x, Bool(v = 0), "int")
      /\ e.op = "OP_NEG" => d = Having(x, -v, "int")
      /\ e.op = "OP_BNOT" => d = Having(x, (-v) - 1, "int")
  BY <1>3 DEF EvaluateUnary
<1>5. "int" \in VariableTypes /\ LLVM["int"] = "i32" /\ Bool(v = 0) \in Int
  BY DEF VariableTypes, LLVM, Bool
<1>6. /\ d.memory = x.memory /\ d.sent = x.sent
      /\ d.ok => x.ok /\ OfWidth(d.value, "i32")
      /\ e.op = "OP_NOT" => d.value = Bool(v = 0)
      /\ e.op = "OP_NEG" => d.value = -v
      /\ e.op = "OP_BNOT" => d.value = (-v) - 1
  <2> HIDE DEF x, v
  <2>1. e.op \in {"OP_NEG", "OP_NOT", "OP_BNOT"}
    BY DEF Signs
  <2>2. CASE e.op = "OP_NOT"
    BY <1>2, <1>4, <1>5, <2>2, HavingFields
  <2>3. CASE e.op = "OP_NEG"
    BY <1>2, <1>3, <1>4, <1>5, <2>3, HavingFields
  <2>4. CASE e.op = "OP_BNOT"
    BY <1>2, <1>3, <1>4, <1>5, <2>4, HavingFields
  <2> QED
    BY <2>1, <2>2, <2>3, <2>4
<1>7. /\ t \in Contexts /\ Comes(s, t, x) /\ (After(t).skip = 0 <=> After(s).skip = 0)
      /\ After(t).skip = 0 => Yields(t, a, v)
  BY <1>6, AnswersBecome DEF Becomes
<1>8. /\ from \in IROperands
      /\ After(t).skip = 0 => ValueOf(After(t), "i32", from) = v /\ OfWidth(v, "i32")
  BY <1>1, <1>3, <1>7, NumberGives
<1>9. /\ e.op = "OP_NEG" => u = Defining(t, Compute("sub", Fresh(t), "i32", zero, from))
      /\ e.op = "OP_NOT" => u = Defining(t, Compute("eq", Fresh(t), "i32", from, zero))
      /\ e.op = "OP_BNOT" => u = Defining(t, Compute("xor", Fresh(t), "i32", from, ones))
  BY DEF GenerateUnary
<1>10. /\ zero \in IROperands /\ ones \in IROperands
       /\ \A m : ValueOf(m, "i32", zero) = 0 /\ ValueOf(m, "i32", ones) = -1
  <2>1. zero \in IROperands /\ ones \in IROperands
    BY OperandsAreIROperands
  <2>2. OfWidth(0, "i32") /\ OfWidth(-1, "i32")
    BY SmallNumbers
  <2> QED
    BY <2>1, <2>2, OperandsGive DEF OfWidth
<1> HIDE DEF t, x, from, zero, ones, u, v
<1>11. CASE e.op = "OP_NOT"
  <2>1. "eq" \in Predicates
    BY DEF Predicates
  <2>2. After(t).skip = 0 =>
          Computed("eq", ValueOf(After(t), "i32", from), ValueOf(After(t), "i32", zero), "i32")
             = Bool(v = 0)
    BY <1>8, <1>10 DEF Computed
  <2>3. Gets(t, u, Bool(v = 0), "i1")
    BY <1>7, <1>8, <1>9, <1>10, <1>11, <2>1, <2>2, ComparingGets
  <2> QED
    BY <1>2, <1>6, <1>7, <1>11, <2>3, UnaryHeld, GetsBecomes DEF u
<1>12. CASE e.op \in {"OP_NEG", "OP_BNOT"}
  <2> DEFINE op == IF e.op = "OP_NEG" THEN "sub" ELSE "xor"
             left == IF e.op = "OP_NEG" THEN zero ELSE from
             right == IF e.op = "OP_NEG" THEN from ELSE ones
  <2>1. /\ op \in Computations \cup Predicates /\ "i32" \in ValueTypes /\ "i32" \in Wide
        /\ ComputedType(op, "i32") = "i32"
    BY DEF Computations, Predicates, ValueTypes, Wide, ComputedType
  <2>2. u = Defining(t, Compute(op, Fresh(t), "i32", left, right))
    BY <1>9, <1>12
  <2>3. left \in IROperands /\ right \in IROperands
    BY <1>8, <1>10
  <2>4. ASSUME After(t).skip = 0
        PROVE  Wrapped(Computed(op, ValueOf(After(t), "i32", left),
                                ValueOf(After(t), "i32", right), "i32"), "i32") = d.value
    <3>1. OfWidth(d.value, "i32")
      BY <1>6, <1>7, <2>4
    <3>2. CASE e.op = "OP_NEG"
      <4>1. Computed(op, ValueOf(After(t), "i32", left), ValueOf(After(t), "i32", right), "i32")
              = 0 - v
        BY <1>8, <1>10, <2>4, <3>2 DEF Computed
      <4>2. 0 - v = d.value
        BY <1>3, <1>6, <3>2 DEF v
      <4> QED
        BY <3>1, <4>1, <4>2 DEF OfWidth
    <3>3. CASE e.op = "OP_BNOT"
      <4>1. /\ op = "xor" /\ ValueOf(After(t), "i32", left) = v
            /\ ValueOf(After(t), "i32", right) = -1
        BY <1>8, <1>10, <2>4, <3>3
      <4>2. Wrapped(Computed("xor", v, -1, "i32"), "i32") = (-v) - 1
        BY <1>8, <2>4, XorIsComplement
      <4> QED
        BY <1>6, <3>3, <4>1, <4>2
    <3> QED
      BY <1>12, <3>2, <3>3
  <2> HIDE DEF op, left, right
  <2>5. /\ Goes(t, u) /\ u.ret <= u.temp
        /\ After(t).skip = 0 => Sets(After(t), After(u), u.ret, d.value)
    BY <1>7, <2>1, <2>2, <2>3, <2>4, ComputingSets
  <2>6. After(t).skip = 0 => OfWidth(d.value, "i32")
    BY <1>6, <1>7
  <2>7. Gets(t, u, d.value, "i32")
    BY <2>1, <2>5, <2>6, SetsBears DEF Gets
  <2> QED
    BY <1>2, <1>6, <1>7, <1>12, <2>7, UnaryHeld, GetsBecomes DEF u
<1> QED
  BY <1>11, <1>12 DEF Signs, u

LEMMA UnarySays ==
    ASSUME NEW c \in Meanings, NEW e \in Expressions, e.kind = "AST_UNARY_OP", e.op \in Signs,
           Signed0(e.operand), NEW g, Speaks(g, e.operand)
    PROVE  Says(c, EvaluateUnary(c, e, g), e)
<1> DEFINE x == g[c]
           v == x.value
           d == EvaluateUnary(c, e, g)
<1>1. x \in Meanings /\ Says(c, x, e.operand) /\ e.operand \in Expressions
  BY UnaryFields, SpeaksMeans
<1>2. v \in Int /\ -v \in Int /\ (-v) - 1 \in Int /\ Promotion(x.type) = "int"
      /\ Bool(v = 0) \in Int /\ "int" \in VariableTypes
  BY <1>1, MeaningFields, SignedIsInt DEF Bool, VariableTypes
<1>3. \/ d = Having(x, Bool(v = 0), "int")
      \/ d = Having(x, -v, "int")
      \/ d = Having(x, (-v) - 1, "int")
  BY <1>2 DEF EvaluateUnary, Signs
<1> HIDE DEF x, v, d
<1>4. d.type = "int" /\ (d.ok => x.ok)
  BY <1>1, <1>2, <1>3, HavingFields
<1>5. ~IsLiteral(e) /\ HeldAs(e) # "i64"
  BY UnaryHeld DEF Signs
<1> QED
  BY <1>1, <1>4, <1>5 DEF Says, d

LEMMA OperandIsInt ==
    ASSUME NEW a \in Expressions, Converts(a), IsComparison(a) \/ HeldAs(a) \notin {"i1", "i64"},
           NEW c, NEW x, Says(c, x, a)
    PROVE  x.type # "long"
<1>1. CASE IsLiteral(a)
  BY <1>1 DEF Says
<1>2. CASE ~IsLiteral(a)
  <2>1. HeldAs(a) # "none" /\ HeldAs(a) # "i64"
    BY <1>2, ConvertsHeld, ComparisonIsHeld
  <2> QED
    BY <2>1 DEF Says
<1> QED
  BY <1>1, <1>2

\* Nobody stops being on the way to a label before it comes.
LEMMA GoesResuming ==
    ASSUME NEW s, NEW t, Goes(s, t), After(s).skip \in 0 .. s.label,
           After(s).skip = 0 => Quiet(After(s), After(t))
    PROVE  After(t).skip = 0 <=> After(s).skip = 0
<1>1. s.label \in Int
  BY ContextFields DEF Goes
<1>2. CASE After(s).skip # 0
  <2>1. After(s).skip \in 1 .. s.label
    BY <1>1, <1>2
  <2> QED
    BY <1>2, <2>1 DEF Goes, Spares
<1> QED
  BY <1>2 DEF Quiet

\* Both operands, the second generated after the first, as i32s.
LEMMA OperandsPromoted ==
    ASSUME NEW left \in Contexts, NEW right, Goes(left, right),
           After(right).skip \in 0 .. right.label,
           NEW a \in Expressions, NEW b \in Expressions, NEW v \in Int, NEW w \in Int,
           Converts(a), IsComparison(a) \/ HeldAs(a) \notin {"i1", "i64"},
           Converts(b), IsComparison(b) \/ HeldAs(b) \notin {"i1", "i64"},
           HeldAs(a) # "none" => left.ret <= left.temp,
           HeldAs(b) # "none" => right.ret <= right.temp,
           After(right).skip = 0 => Yields(left, a, v) /\ Yields(right, b, w),
           NEW first, first = Promoted(get_next_temp(right), a, left.ret),
           NEW second, second = Promoted(first, b, right.ret)
    PROVE  /\ Goes(right, second) /\ Fresh(right) <= second.temp
           /\ LiteralOr(a, first.ret) \in IROperands /\ LiteralOr(b, second.ret) \in IROperands
           /\ After(right).skip = 0 =>
                /\ Quiet(After(right), After(second))
                /\ ValueOf(After(second), "i32", LiteralOr(a, first.ret)) = v
                /\ ValueOf(After(second), "i32", LiteralOr(b, second.ret)) = w
<1> DEFINE next == get_next_temp(right)
<1>1. /\ right \in Contexts /\ left.temp <= right.temp /\ left.ret \in Int /\ right.ret \in Int
      /\ right.temp \in Int /\ left.temp \in Int
  BY ContextFields DEF Goes
<1>2. /\ next \in Contexts /\ next.temp = right.temp + 1 /\ next.code = right.code
      /\ next.label = right.label
  BY <1>1, CountContext
<1> HIDE DEF next
<1>3. Goes(right, next) /\ After(next) = After(right)
  <2>1. right.temp <= next.temp /\ right.label <= next.label
    BY <1>1, <1>2, ContextFields
  <2> QED
    BY <1>1, <1>2, <2>1, CountingGoes
<1>4. Goes(left, next)
  BY <1>3, GoesTransitive
<1>5. HeldAs(a) # "none" => left.ret <= next.temp
  BY <1>1, <1>2
<1>6. After(next).skip = 0 =>
        /\ IsLiteral(a) => left.ret = v /\ OfWidth(v, "i32")
        /\ HeldAs(a) # "none" => Bears(After(next), left.ret, v, HeldAs(a))
  <2>1. SUFFICES ASSUME After(next).skip = 0
                 PROVE  /\ IsLiteral(a) => left.ret = v /\ OfWidth(v, "i32")
                        /\ HeldAs(a) # "none" => Bears(After(next), left.ret, v, HeldAs(a))
    OBVIOUS
  <2>2. Yields(left, a, v)
    BY <1>3, <2>1
  <2> QED
    BY <1>1, <1>4, <2>2, StillBears DEF Yields
<1>7. first = Promoted(next, a, left.ret)
  BY DEF next
<1>8. /\ Goes(next, first) /\ (~IsLiteral(a) => first.ret <= first.temp)
      /\ After(next).skip = 0 =>
           /\ Quiet(After(next), After(first))
           /\ ValueOf(After(first), "i32", LiteralOr(a, first.ret)) = v
  <2> DEFINE r == left.ret
  <2>1. /\ r \in Int /\ (HeldAs(a) # "none" => r <= next.temp) /\ first = Promoted(next, a, r)
        /\ After(next).skip = 0 =>
             /\ IsLiteral(a) => r = v /\ OfWidth(v, "i32")
             /\ HeldAs(a) # "none" => Bears(After(next), r, v, HeldAs(a))
    BY <1>1, <1>5, <1>6, <1>7
  <2> HIDE DEF r
  <2> QED
    BY <1>2, <2>1, PromotedGets
<1>9. Goes(right, first) /\ first \in Contexts /\ first.ret \in Int
  BY <1>3, <1>8, GoesTransitive, ContextFields DEF Goes
<1>10. /\ HeldAs(b) # "none" => right.ret <= first.temp
       /\ After(first).skip = 0 =>
            /\ IsLiteral(b) => right.ret = w /\ OfWidth(w, "i32")
            /\ HeldAs(b) # "none" => Bears(After(first), right.ret, w, HeldAs(b))
  <2>1. HeldAs(b) # "none" => right.ret <= first.temp
    BY <1>1, <1>9, ContextFields DEF Goes
  <2>2. ASSUME After(first).skip = 0
        PROVE  /\ IsLiteral(b) => right.ret = w /\ OfWidth(w, "i32")
               /\ HeldAs(b) # "none" => Bears(After(first), right.ret, w, HeldAs(b))
    <3>1. After(right).skip = 0 => Yields(right, b, w)
      OBVIOUS
    <3>2. HeldAs(b) # "none" /\ After(right).skip = 0 => Bears(After(first), right.ret, w, HeldAs(b))
      BY <1>1, <1>9, StillBears DEF Yields
    <3>3. After(right).skip = 0
      BY <2>2, <1>3, <1>8, <1>9, GoesResuming
    <3> QED
      BY <3>1, <3>2, <3>3 DEF Yields
  <2> QED
    BY <2>1, <2>2
<1>11. /\ Goes(first, second) /\ (~IsLiteral(b) => second.ret <= second.temp)
       /\ After(first).skip = 0 =>
            /\ Quiet(After(first), After(second))
            /\ ValueOf(After(second), "i32", LiteralOr(b, second.ret)) = w
  BY <1>1, <1>9, <1>10, PromotedGets
<1>12. Goes(right, second) /\ Fresh(right) <= second.temp /\ second.ret \in Int
  <2>1. Goes(right, second)
    BY <1>9, <1>11, GoesTransitive
  <2>2. second \in Contexts /\ next.temp <= first.temp /\ first.temp <= second.temp
    BY <1>8, <1>11 DEF Goes
  <2> QED
    BY <1>1, <1>2, <1>9, <2>1, <2>2, ContextFields DEF Fresh
<1>13. /\ LiteralOr(a, first.ret) \in IROperands /\ LiteralOr(b, second.ret) \in IROperands
       /\ IsLiteral(a) => LiteralOr(a, first.ret) = Const(first.ret)
       /\ ~IsLiteral(a) => LiteralOr(a, first.ret) = Register(first.ret)
  BY <1>9, <1>12, OperandsAreIROperands DEF LiteralOr
<1>14. ASSUME After(right).skip = 0
       PROVE  /\ Quiet(After(right), After(second))
              /\ ValueOf(After(second), "i32", LiteralOr(a, first.ret)) = v
              /\ ValueOf(After(second), "i32", LiteralOr(b, second.ret)) = w
  <2>1. /\ Quiet(After(right), After(first))
        /\ ValueOf(After(first), "i32", LiteralOr(a, first.ret)) = v
    BY <1>3, <1>8, <1>14
  <2>2. /\ Quiet(After(first), After(second))
        /\ ValueOf(After(second), "i32", LiteralOr(b, second.ret)) = w
    BY <1>11, <1>14, <2>1 DEF Quiet
  <2>3. ValueOf(After(second), "i32", LiteralOr(a, first.ret)) =
        ValueOf(After(first), "i32", LiteralOr(a, first.ret))
    <3>1. CASE IsLiteral(a)
      BY <1>13, <3>1, OperandsGive
    <3>2. CASE ~IsLiteral(a)
      <4>1. RegisterOf(After(second), first.ret) = RegisterOf(After(first), first.ret)
        BY <1>8, <1>9, <1>11, <3>2 DEF Goes, Spares
      <4> QED
        BY <1>13, <3>2, <4>1, OperandsGive
    <3> QED
      BY <3>1, <3>2
  <2> QED
    BY <2>1, <2>2, <2>3, QuietTransitive
<1> QED
  BY <1>12, <1>13, <1>14

\* An operation into a register that was reserved before its operands.
LEMMA ReservedSets ==
    ASSUME NEW s, NEW u, Goes(s, u), Fresh(s) <= u.temp, After(s).skip \in 0 .. s.label,
           After(s).skip = 0 => Quiet(After(s), After(u)),
           NEW op \in Computations \cup Predicates,
           NEW left \in IROperands, NEW right \in IROperands, NEW t,
           t = Returning(Emit(u, Compute(op, Fresh(s), "i32", left, right)), Fresh(s))
    PROVE  /\ Goes(s, t) /\ t.ret = Fresh(s) /\ t.ret <= t.temp
           /\ After(s).skip = 0 =>
                Sets(After(u), After(t), t.ret,
                     Wrapped(Computed(op, ValueOf(After(u), "i32", left),
                                      ValueOf(After(u), "i32", right), "i32"),
                             ComputedType(op, "i32")))
<1> DEFINE i == Compute(op, Fresh(s), "i32", left, right)
           e == Emit(u, i)
           m == After(u)
           v == Computed(op, ValueOf(m, "i32", left), ValueOf(m, "i32", right), "i32")
<1>1. /\ s \in Contexts /\ u \in Contexts /\ s.temp \in Int /\ Fresh(s) \in Int
      /\ Fresh(s) = s.temp + 1 /\ "i32" \in ValueTypes
  BY ContextFields DEF Goes, Fresh, ValueTypes
<1>2. /\ i \in Instructions /\ i.to = Fresh(s) /\ Defines(i) /\ i.op # "alloca"
      /\ Result(i) = ComputedType(op, "i32")
  BY <1>1, ComputeFields
<1>3. /\ i.op = op /\ i.type = "i32" /\ i.left = left /\ i.right = right
  BY DEF Compute
<1>4. i.op \notin {"store", "label"}
  BY <1>3 DEF Computations, Predicates
<1> HIDE DEF i
<1>5. Goes(s, e)
  BY <1>1, <1>2, <1>4, EmittingGoes
<1>6. /\ e \in Contexts /\ e.temp = u.temp /\ After(e) = Step(m, i) /\ Machine(m)
  BY <1>1, <1>2, EmitContext, MachineOfEmitted, MachineOfContext
<1>7. t = Returning(e, Fresh(s))
  BY DEF i
<1> HIDE DEF e
<1>8. /\ Goes(e, t) /\ After(t) = After(e) /\ t.ret = Fresh(s) /\ t.temp = e.temp
  BY <1>1, <1>6, <1>7, ReturningGoes
<1>9. Goes(s, t)
  BY <1>5, <1>8, GoesTransitive
<1>10. ASSUME After(s).skip = 0
       PROVE  Sets(m, After(t), t.ret, Wrapped(v, ComputedType(op, "i32")))
  <2>1. m.skip = 0
    BY <1>10 DEF Quiet
  <2>2. After(t) = Gives(m, i, v)
    BY <1>3, <1>6, <1>8, <2>1, StepExecutes, ExecutedBy
  <2> HIDE DEF m, v
  <2> QED
    BY <1>2, <1>6, <1>8, <2>2, GivesSets
<1> QED
  BY <1>6, <1>8, <1>9, <1>10

LEMMA BinaryHeld ==
    ASSUME NEW e \in Expressions, e.kind = "AST_BINARY_OP", e.op \notin Logical
    PROVE  /\ ~IsLiteral(e) /\ e.op \in Arithmetic \cup Comparisons
           /\ IsComparison(e) <=> e.op \in Comparisons
           /\ HeldAs(e) = IF IsComparison(e) THEN "i1" ELSE "i32"
           /\ IsComparison(e) => Predicate[e.op] \in Predicates
           /\ ~IsComparison(e) => e.op \in Arithmetic /\ Opcode[e.op] \in Computations
<1>1. e.op \in Arithmetic \cup Comparisons /\ ~IsLiteral(e)
  BY BinaryFields DEF IsLiteral
<1>2. IsComparison(e) <=> e.op \in Comparisons
  BY DEF IsComparison
<1>3. \A op \in Comparisons : Predicate[op] \in Predicates
  BY DEF Comparisons, Predicate, Predicates
<1>4. \A op \in Arithmetic : Opcode[op] \in Computations
  BY DEF Arithmetic, Opcode, Computations
<1> QED
  BY <1>1, <1>2, <1>3, <1>4 DEF HeldAs

\* C computes with ints, as the code does.
LEMMA BinaryMeaning ==
    ASSUME NEW c \in Meanings, NEW e \in Expressions, e.kind = "AST_BINARY_OP",
           e.op \notin Logical, GuessedRight(e), ConvertedRight(e),
           NEW g, Speaks(g, e.left), NEW k, Speaks(k, e.right),
           NEW d, d = EvaluateBinary(c, e, g, k)
    PROVE  /\ g[c] \in Meanings /\ k[g[c]] \in Meanings
           /\ Says(c, g[c], e.left) /\ Says(g[c], k[g[c]], e.right)
           /\ d.memory = k[g[c]].memory /\ d.sent = k[g[c]].sent
           /\ d.value = Operation(e.op, g[c].value, k[g[c]].value, "int") /\ d.value \in Int
           /\ d.ok => k[g[c]].ok /\ OfWidth(d.value, "i32")
           /\ Says(c, d, e)
<1> DEFINE x == g[c]
           y == k[x]
           a == e.left
           b == e.right
           apart == Unsequenced(a, b)
           p == Provided(y, apart)
           v == x.value
           w == y.value
           n == Operation(e.op, v, w, "int")
<1>1. /\ a \in Expressions /\ b \in Expressions
  BY BinaryFields
<1>2. /\ Converts(a) /\ (IsComparison(a) \/ HeldAs(a) \notin {"i1", "i64"})
      /\ Converts(b) /\ (IsComparison(b) \/ HeldAs(b) \notin {"i1", "i64"})
  BY DEF GuessedRight, ConvertedRight
<1>3. /\ x \in Meanings /\ Says(c, x, a) /\ y \in Meanings /\ Says(x, y, b)
  <2>1. x \in Meanings /\ Says(c, x, a)
    BY <1>1, SpeaksMeans
  <2> QED
    BY <2>1, SpeaksMeans
<1>4. x.type # "long" /\ y.type # "long"
  BY <1>1, <1>2, <1>3, OperandIsInt
<1>5. d = Having(p, n, "int")
  <2>1. Common(x.type, y.type) = "int"
    BY <1>4 DEF Common
  <2> QED
    BY <2>1 DEF EvaluateBinary
<1>6. /\ v \in Int /\ w \in Int /\ n \in Int /\ "int" \in VariableTypes /\ LLVM["int"] = "i32"
  <2>1. v \in Int /\ w \in Int
    BY <1>3, MeaningFields
  <2>2. e.op \in Arithmetic \cup Comparisons
    BY BinaryHeld
  <2> QED
    BY <2>1, <2>2, OperationIsNumber DEF VariableTypes, LLVM
<1>7. /\ apart \in BOOLEAN
      /\ p \in Meanings /\ p.memory = y.memory /\ p.sent = y.sent /\ (p.ok => y.ok)
  <2>1. apart \in BOOLEAN
    BY DEF Unsequenced
  <2> HIDE DEF apart
  <2> QED
    BY <1>3, <2>1, ProvidedFields
<1> HIDE DEF p, n
<1>8. /\ d.memory = y.memory /\ d.sent = y.sent /\ d.value = n /\ d.type = "int"
      /\ d.ok => y.ok /\ OfWidth(n, "i32")
  BY <1>5, <1>6, <1>7, HavingFields
<1>9. ~IsLiteral(e) /\ HeldAs(e) = IF IsComparison(e) THEN "i1" ELSE "i32"
  BY BinaryHeld
<1>10. Says(c, d, e)
  BY <1>3, <1>8, <1>9 DEF Says
<1> QED
  BY <1>3, <1>6, <1>8, <1>10 DEF n

LEMMA BinaryBecomes ==
    ASSUME NEW s, NEW c, Runs(s, c), NEW e \in Expressions, e.kind = "AST_BINARY_OP",
           e.op \notin Logical, GuessedRight(e), ConvertedRight(e),
           NEW f, NEW g, Answers(f, g, e.left), NEW h, NEW k, Answers(h, k, e.right),
           NEW d, d = EvaluateBinary(c, e, g, k), After(s).skip = 0 => d.ok
    PROVE  Becomes(s, GenerateBinary(s, e, f, h), d, e)
<1> DEFINE a == e.left
           b == e.right
           left == f[s]
           right == h[left]
           x == g[c]
           y == k[x]
           v == x.value
           w == y.value
           n == Operation(e.op, v, w, "int")
           first == Promoted(get_next_temp(right), a, left.ret)
           second == Promoted(first, b, right.ret)
           op == IF IsComparison(e) THEN Predicate[e.op] ELSE Opcode[e.op]
           t == GenerateBinary(s, e, f, h)
<1>1. a \in Expressions /\ b \in Expressions /\ s \in Contexts /\ c \in Meanings
  BY BinaryFields DEF Runs
<1>2. /\ Converts(a) /\ (IsComparison(a) \/ HeldAs(a) \notin {"i1", "i64"})
      /\ Converts(b) /\ (IsComparison(b) \/ HeldAs(b) \notin {"i1", "i64"})
  BY DEF GuessedRight, ConvertedRight
<1>3. /\ x \in Meanings /\ Says(c, x, a) /\ y \in Meanings /\ Says(x, y, b)
      /\ d.memory = y.memory /\ d.sent = y.sent /\ d.value = n /\ n \in Int
      /\ d.ok => y.ok /\ OfWidth(n, "i32")
  <2>1. Speaks(g, a) /\ Speaks(k, b)
    BY DEF Answers
  <2> QED
    BY <1>1, <2>1, BinaryMeaning
<1>4. v \in Int /\ w \in Int
  BY <1>3, MeaningFields
<1> HIDE DEF n
<1>5. /\ ~IsLiteral(e) /\ HeldAs(e) = IF IsComparison(e) THEN "i1" ELSE "i32"
      /\ op \in Computations \cup Predicates
  BY BinaryHeld
<1>6. /\ Comes(s, left, x) /\ Runs(left, x) /\ left \in Contexts
      /\ After(left).skip = 0 <=> After(s).skip = 0
      /\ HeldAs(a) # "none" => left.ret <= left.temp
      /\ After(left).skip = 0 => Yields(left, a, v)
  <2>1. After(s).skip = 0 => x.ok
    BY <1>3 DEF Says
  <2> QED
    BY <2>1, AnswersBecome DEF Becomes
<1> HIDE DEF left, x
<1>7. /\ Comes(left, right, y) /\ Runs(right, y) /\ Goes(left, right)
      /\ After(right).skip = 0 <=> After(left).skip = 0
      /\ HeldAs(b) # "none" => right.ret <= right.temp
      /\ After(right).skip = 0 => Yields(right, b, w)
  <2>1. After(left).skip = 0 => y.ok
    BY <1>3, <1>6
  <2> QED
    BY <1>6, <2>1, AnswersBecome DEF Becomes
<1> HIDE DEF right, y, v, w
<1>8. /\ Goes(right, second) /\ Fresh(right) <= second.temp
      /\ LiteralOr(a, first.ret) \in IROperands /\ LiteralOr(b, second.ret) \in IROperands
      /\ After(right).skip = 0 =>
           /\ Quiet(After(right), After(second))
           /\ ValueOf(After(second), "i32", LiteralOr(a, first.ret)) = v
           /\ ValueOf(After(second), "i32", LiteralOr(b, second.ret)) = w
  <2>1. After(right).skip = 0 => Yields(left, a, v) /\ Yields(right, b, w)
    BY <1>6, <1>7
  <2>2. After(right).skip \in 0 .. right.label
    BY <1>7 DEF Runs
  <2> QED
    BY <1>1, <1>2, <1>4, <1>6, <1>7, <2>1, <2>2, OperandsPromoted
<1>9. t = Returning(Emit(second, Compute(op, Fresh(right), "i32", LiteralOr(a, first.ret),
                                          LiteralOr(b, second.ret))), Fresh(right))
  BY DEF GenerateBinary, left, right
<1> DEFINE l == LiteralOr(a, first.ret)
           r == LiteralOr(b, second.ret)
<1> HIDE DEF first, second, op, t, l, r
<1>10. /\ Goes(right, t) /\ t.ret <= t.temp
       /\ After(right).skip = 0 =>
            Sets(After(second), After(t), t.ret,
                 Wrapped(Computed(op, v, w, "i32"), ComputedType(op, "i32")))
  <2>1. After(right).skip \in 0 .. right.label
    BY <1>7 DEF Runs
  <2>2. l \in IROperands /\ r \in IROperands
    BY <1>8 DEF l, r
  <2>3. t = Returning(Emit(second, Compute(op, Fresh(right), "i32", l, r)), Fresh(right))
    BY <1>9 DEF l, r
  <2>4. After(right).skip = 0 =>
          Quiet(After(right), After(second)) /\ ValueOf(After(second), "i32", l) = v
          /\ ValueOf(After(second), "i32", r) = w
    BY <1>8 DEF l, r
  <2>5. /\ Goes(right, t) /\ t.ret <= t.temp
        /\ After(right).skip = 0 =>
             Sets(After(second), After(t), t.ret,
                  Wrapped(Computed(op, ValueOf(After(second), "i32", l),
                                   ValueOf(After(second), "i32", r), "i32"),
                          ComputedType(op, "i32")))
    BY <1>5, <1>8, <2>1, <2>2, <2>3, <2>4, ReservedSets
  <2> QED
    BY <2>4, <2>5
<1>11. ASSUME After(right).skip = 0
       PROVE  Quiet(After(second), After(t)) /\ Bears(After(t), t.ret, n, HeldAs(e))
  <2>1. Sets(After(second), After(t), t.ret,
             Wrapped(Computed(op, v, w, "i32"), ComputedType(op, "i32")))
    BY <1>10, <1>11
  <2>2. OfWidth(n, "i32")
    BY <1>3, <1>6, <1>7, <1>11
  <2>3. CASE IsComparison(e)
    <3>1. e.op \in Comparisons /\ op = Predicate[e.op] /\ op \in Predicates
      BY <2>3, BinaryHeld DEF op
    <3>2. Computed(op, v, w, "i32") = n /\ n \in {0, 1}
      BY <1>4, <3>1, ComputedIsComparison DEF n
    <3>3. ComputedType(op, "i32") = "i1" /\ HeldAs(e) = "i1"
      BY <1>5, <2>3, <3>1 DEF ComputedType
    <3>4. Wrapped(n, "i1") = -n
      BY <3>2, OneBit
    <3>5. Sets(After(second), After(t), t.ret, -n)
      BY <2>1, <3>2, <3>3, <3>4
    <3> QED
      BY <3>2, <3>3, <3>5 DEF Sets, Quiet, Bears
  <2>4. CASE ~IsComparison(e)
    <3>1. e.op \in Arithmetic /\ op = Opcode[e.op] /\ op \in Computations
      BY <2>4, BinaryHeld DEF op
    <3>2. op \notin Predicates
      BY <3>1 DEF Computations, Predicates
    <3>3. Wrapped(Computed(op, v, w, "i32"), "i32") = n
      BY <1>4, <2>2, <3>1, ComputedIsOperation DEF n
    <3>4. ComputedType(op, "i32") = "i32" /\ HeldAs(e) = "i32" /\ "i32" \in Wide
      BY <1>5, <2>4, <3>2 DEF ComputedType, Wide
    <3>5. Sets(After(second), After(t), t.ret, n)
      BY <2>1, <3>3, <3>4
    <3> QED
      BY <2>2, <3>4, <3>5, SetsBears
  <2> QED
    BY <2>3, <2>4
<1>12. Gets(right, t, n, HeldAs(e))
  <2>1. After(right).skip = 0 => Quiet(After(right), After(t))
    BY <1>8, <1>11, QuietTransitive
  <2> QED
    BY <1>10, <1>11, <2>1 DEF Gets
<1>13. Comes(s, right, y)
  BY <1>3, <1>6, <1>7, ComesTransitive
<1>14. Becomes(s, t, d, e)
  BY <1>3, <1>5, <1>12, <1>13, GetsBecomes
<1> QED
  BY <1>14 DEF t

-------------------------------------------------------------------------------
\* ++ and --.

LEMMA ReservedGives ==
    ASSUME NEW s, NEW u, Goes(s, u), NEW i \in Instructions, Defines(i), i.op # "store",
           s.temp < i.to, NEW v,
           After(u).skip = 0 => Executed(After(u), i) = Gives(After(u), i, v)
    PROVE  /\ Goes(s, Emit(u, i)) /\ Emit(u, i).temp = u.temp
           /\ After(u).skip = 0 =>
                Sets(After(u), After(Emit(u, i)), i.to, Wrapped(v, Result(i)))
<1> DEFINE t == Emit(u, i)
           m == After(u)
<1>1. /\ s \in Contexts /\ u \in Contexts /\ s.temp \in Int
  BY ContextFields DEF Goes
<1>2. i.op # "label" /\ i.to > s.temp
  BY <1>1 DEF Defines, Computations, Predicates
<1>3. Goes(s, t)
  BY <1>1, <1>2, EmittingGoes
<1>4. t.temp = u.temp /\ After(t) = Step(m, i) /\ Machine(m)
  BY <1>1, EmitContext, MachineOfEmitted, MachineOfContext
<1>5. m.skip = 0 => After(t) = Gives(m, i, v)
  BY <1>4, StepExecutes
<1> HIDE DEF m, t
<1>6. m.skip = 0 => Sets(m, After(t), i.to, Wrapped(v, Result(i)))
  BY <1>4, <1>5, GivesSets
<1> QED
  BY <1>3, <1>4, <1>6 DEF t, m

\* A variable gets a value in both.
LEMMA PutsReads ==
    ASSUME NEW m, NEW o, NEW c \in Meanings, NEW d, NEW k \in Names, NEW w, Reads(m, c),
           Puts(m, o, Variable(k), w), IsMemory(d.memory), d.sent = c.sent,
           d.memory = [c.memory EXCEPT ![k] = w]
    PROVE  Reads(o, d)
<1>1. c.memory \in [Names -> Int]
  BY MeaningFields
<1>2. ASSUME NEW n \in Names PROVE HeldIn(o, Variable(n)) = d.memory[n]
  <2>1. CASE n = k
    BY <1>1, <2>1 DEF Puts
  <2>2. CASE n # k
    <3>1. Variable(n) # Variable(k)
      BY <2>2 DEF Variable
    <3>2. HeldIn(o, Variable(n)) = HeldIn(m, Variable(n))
      BY <3>1 DEF Puts
    <3> QED
      BY <1>1, <2>2, <3>2 DEF Reads
  <2> QED
    BY <2>1, <2>2
<1> QED
  BY <1>2 DEF Puts, Reads

LEMMA IncrementMeaning ==
    ASSUME NEW c \in Meanings, NEW e \in Expressions, e.kind = "AST_UNARY_OP",
           e.op \in Increments, NEW n, n = e.operand.name, NEW d, d = EvaluateIncrement(c, e),
           NEW by, by = IF e.op \in {"OP_PREINC", "OP_POSTINC"} THEN 1 ELSE -1,
           NEW w, w = Wrapped(c.memory[n] + by, LLVM[Type[n]])
    PROVE  /\ n \in Names /\ c.memory[n] \in Int /\ by \in {1, -1} /\ w \in Int
           /\ d.memory = [c.memory EXCEPT ![n] = w] /\ d.sent = c.sent
           /\ d.value = IF e.op \in {"OP_PREINC", "OP_PREDEC"} THEN w ELSE c.memory[n]
           /\ IsMemory(c.memory) => IsMemory(d.memory)
           /\ Says(c, d, e)
<1> DEFINE new == c.memory[n] + by
           fits == Fits(new, Promotion(Type[n]))
           given == Provided(c, fits)
           after == Holding(given, n, new)
<1>1. /\ n \in Names /\ Type[n] \in VariableTypes /\ c.memory[n] \in Int
      /\ by \in {1, -1} /\ by \in Int /\ new \in Int
  <2>1. n \in Names
    BY UnaryFields, LeafFields
  <2> QED
    BY <2>1, MeaningFields, DeclaredTypes
<1>2. d = IF e.op \in {"OP_PREINC", "OP_PREDEC"} THEN after
          ELSE Having(after, c.memory[n], Type[n])
  BY DEF EvaluateIncrement
<1>3. fits \in BOOLEAN
  BY DEF Fits
<1> HIDE DEF fits
<1>4. /\ given \in Meanings /\ given.memory = c.memory /\ given.sent = c.sent
      /\ given.ok => c.ok
  BY <1>3, ProvidedFields
<1> HIDE DEF given
<1>5. /\ after \in Meanings /\ after.type = Type[n] /\ after.value = w /\ w \in Int
      /\ after.memory = [c.memory EXCEPT ![n] = w] /\ after.sent = c.sent
      /\ (after.ok => c.ok) /\ (IsMemory(c.memory) => IsMemory(after.memory))
  <2>1. w = Wrapped(new, LLVM[Type[n]])
    OBVIOUS
  <2> HIDE DEF new
  <2>2. /\ after \in Meanings /\ after.type = Type[n]
        /\ after.value = Wrapped(new, LLVM[Type[n]]) /\ after.value \in Int
        /\ after.memory = [given.memory EXCEPT ![n] = after.value] /\ after.sent = given.sent
        /\ after.ok = given.ok /\ (IsMemory(given.memory) => IsMemory(after.memory))
    BY <1>1, <1>4, HoldingFields
  <2> HIDE DEF after
  <2> QED
    BY <1>4, <2>1, <2>2
<1> HIDE DEF after
<1>6. /\ d.memory = [c.memory EXCEPT ![n] = w] /\ d.sent = c.sent /\ d.type = Type[n]
      /\ d.value = IF e.op \in {"OP_PREINC", "OP_PREDEC"} THEN w ELSE c.memory[n]
      /\ (d.ok => c.ok) /\ (IsMemory(c.memory) => IsMemory(d.memory))
  <2>1. CASE e.op \in {"OP_PREINC", "OP_PREDEC"}
    BY <1>2, <1>5, <2>1
  <2>2. CASE e.op \notin {"OP_PREINC", "OP_PREDEC"}
    <3>1. d = Having(after, c.memory[n], Type[n])
      BY <1>2, <2>2
    <3> QED
      <4>1. /\ after \in Meanings /\ c.memory[n] \in Int /\ Type[n] \in VariableTypes
            /\ after.memory = [c.memory EXCEPT ![n] = w] /\ after.sent = c.sent
            /\ (after.ok => c.ok) /\ (IsMemory(c.memory) => IsMemory(after.memory))
        BY <1>1, <1>5, Zenon
      <4>2. /\ d.value = c.memory[n] /\ d.type = Type[n]
            /\ d.memory = after.memory /\ d.sent = after.sent /\ (d.ok => after.ok)
        BY <3>1, <4>1, HavingFields
      <4> QED
        BY <2>2, <4>1, <4>2, Zenon
  <2> QED
    BY <2>1, <2>2
<1>7. ~IsLiteral(e) /\ HeldAs(e) = LLVM[Type[n]]
  BY DEF IsLiteral, HeldAs
<1>8. LLVM[Type[n]] = "i64" <=> Type[n] = "long"
  BY <1>1 DEF VariableTypes, LLVM
<1> QED
  BY <1>1, <1>5, <1>6, <1>7, <1>8 DEF Says

LEMMA IncrementBecomes ==
    ASSUME NEW s, NEW c, Runs(s, c), NEW e \in Expressions, e.kind = "AST_UNARY_OP",
           e.op \in Increments, NEW d, d = EvaluateIncrement(c, e),
           NEW t, t = GenerateIncrement(s, e)
    PROVE  Becomes(s, t, d, e)
<1> DEFINE n == e.operand.name
           type == LLVM[Type[n]]
           by == IF e.op \in {"OP_PREINC", "OP_POSTINC"} THEN 1 ELSE -1
           v == c.memory[n]
           w == Wrapped(v + by, type)
           old == s.temp + 1
           new == s.temp + 2
           op == IF e.op \in {"OP_PREINC", "OP_POSTINC"} THEN "add" ELSE "sub"
           u == get_next_temp(get_next_temp(s))
           place == Variable(n)
           one == Const(1)
           i == Load(old, type, place)
           loaded == Emit(u, i)
           j == Compute(op, new, type, Register(old), one)
           added == Emit(loaded, j)
           stored == Emit(added, Store(type, Register(new), place))
           ret == IF e.op \in {"OP_PREINC", "OP_PREDEC"} THEN new ELSE old
<1>1. s \in Contexts /\ c \in Meanings /\ s.temp \in Int /\ s.label \in Int
      /\ old \in Int /\ new \in Int /\ ret \in Int
  BY ContextFields DEF Runs
<1>2. /\ n \in Names /\ v \in Int /\ by \in {1, -1} /\ by \in Int /\ w \in Int
      /\ d.memory = [c.memory EXCEPT ![n] = w] /\ d.sent = c.sent
      /\ d.value = IF e.op \in {"OP_PREINC", "OP_PREDEC"} THEN w ELSE v
      /\ IsMemory(c.memory) => IsMemory(d.memory)
  BY <1>1, IncrementMeaning
<1>3. /\ Type[n] \in VariableTypes /\ type \in Wide /\ type \in ValueTypes
      /\ type \in {"i8", "i32", "i64"} /\ type # "i1" /\ place \in Places
      /\ OfWidth(w, type) /\ HeldAs(e) = type /\ ~IsLiteral(e)
  <2>1. Type[n] \in VariableTypes /\ place \in Places
    BY <1>2, DeclaredTypes, PlacesArePlaces
  <2>2. HeldAs(e) = type /\ ~IsLiteral(e)
    BY DEF HeldAs, IsLiteral
  <2>3. type \in Wide /\ type \in ValueTypes
    BY <2>1, WideTypes
  <2>4. v + by \in Int
    BY <1>2
  <2> QED
    BY <2>1, <2>2, <2>3, <2>4, WrappedIsOfWidth DEF Wide
<1>4. /\ u \in Contexts /\ u.temp = s.temp + 2 /\ u.label = s.label /\ u.code = s.code
  <2>1. get_next_temp(s) \in Contexts
    BY <1>1, CountContext
  <2> QED
    BY <1>1, <2>1, CountContext
<1>5. t = Returning(stored, ret)
  BY DEF GenerateIncrement
<1> HIDE DEF u
<1>6. Goes(s, u) /\ After(u) = After(s)
  <2>1. s.temp <= u.temp /\ s.label <= u.label
    BY <1>1, <1>4
  <2> QED
    BY <1>1, <1>4, <2>1, CountingGoes
<1>7. /\ i \in Instructions /\ i.to = old /\ Defines(i) /\ i.op = "load" /\ i.place = place
      /\ Result(i) = type
  <2>1. i.op = "load" /\ i.place = place
    BY DEF Load
  <2> HIDE DEF old, type, place
  <2> QED
    BY <1>1, <1>3, <2>1, LoadFields
<1>8. /\ j \in Instructions /\ j.to = new /\ Defines(j) /\ j.op = op /\ j.type = type
      /\ j.left = Register(old) /\ j.right = one /\ Result(j) = type /\ j.op # "store"
      /\ op \in Computations
  <2>1. /\ j.op = op /\ j.type = type /\ j.left = Register(old) /\ j.right = one
    BY DEF Compute
  <2>2. op \in Computations /\ op \notin Predicates /\ op # "store"
    BY DEF Computations, Predicates
  <2>3. Register(old) \in IROperands /\ one \in IROperands
    BY <1>1, OperandsAreIROperands
  <2> HIDE DEF new, type, op, one
  <2>4. j \in Instructions /\ j.to = new /\ Defines(j) /\ Result(j) = ComputedType(op, type)
    BY <1>1, <1>3, <2>2, <2>3, ComputeFields
  <2> QED
    BY <2>1, <2>2, <2>4 DEF ComputedType
<1> HIDE DEF i, j
<1> DEFINE x == HeldIn(After(u), place)
           y == Computed(op, ValueOf(After(loaded), type, Register(old)),
                         ValueOf(After(loaded), type, one), type)
<1>9. /\ Goes(s, loaded) /\ loaded.temp = u.temp
      /\ After(u).skip = 0 => Sets(After(u), After(loaded), old, Wrapped(x, type))
  <2>1. s.temp < i.to
    BY <1>1, <1>7
  <2>2. Executed(After(u), i) = Gives(After(u), i, x)
    BY <1>7, ExecutedBy
  <2> HIDE DEF x, old, type
  <2> QED
    BY <1>6, <1>7, <2>1, <2>2, ReservedGives
<1> HIDE DEF loaded, x
<1>10. /\ Goes(s, added) /\ added.temp = u.temp
       /\ After(loaded).skip = 0 => Sets(After(loaded), After(added), new, Wrapped(y, type))
  <2>1. s.temp < j.to
    BY <1>1, <1>8
  <2>2. Executed(After(loaded), j) = Gives(After(loaded), j, y)
    BY <1>8, ExecutedBy
  <2> HIDE DEF y, new, type, op
  <2> QED
    BY <1>8, <1>9, <2>1, <2>2, ReservedGives
<1> HIDE DEF added
<1>11. /\ stored \in Contexts /\ stored.temp = added.temp /\ Goes(s, stored)
       /\ After(added).skip = 0 =>
            Puts(After(added), After(stored), place, RegisterOf(After(added), new))
  <2>1. added \in Contexts /\ Register(new) \in IROperands
    BY <1>1, <1>10, OperandsAreIROperands DEF Goes
  <2>2. \A r \in Int : place # Slot(r)
    BY DEF Variable, Slot
  <2>3. ValueOf(After(added), type, Register(new)) = RegisterOf(After(added), new)
    BY OperandsGive
  <2> HIDE DEF place, new, type
  <2>4. /\ stored \in Contexts /\ stored.temp = added.temp
        /\ \A b : Goes(b, added) /\ (\A r \in Int : r <= b.temp => place # Slot(r)) => Goes(b, stored)
        /\ After(added).skip = 0 =>
             Puts(After(added), After(stored), place, ValueOf(After(added), type, Register(new)))
    BY <1>3, <2>1, StoringPuts
  <2> QED
    BY <1>10, <2>2, <2>3, <2>4
<1> HIDE DEF stored
<1>12. Goes(s, t) /\ After(t) = After(stored) /\ t.ret = ret /\ t.temp = u.temp
  <2>1. Goes(stored, t) /\ After(t) = After(stored) /\ t.ret = ret /\ t.temp = stored.temp
    BY <1>1, <1>5, <1>11, ReturningGoes
  <2> QED
    BY <1>9, <1>10, <1>11, <2>1, GoesTransitive
<1>13. t.ret <= t.temp
  BY <1>1, <1>4, <1>12
<1>14. ASSUME After(s).skip = 0
       PROVE  /\ Reads(After(t), d)
              /\ RegisterOf(After(t), old) = v /\ RegisterOf(After(t), new) = w /\ OfWidth(v, type)
  <2>1. Reads(After(s), c)
    BY <1>14 DEF Runs
  <2>2. Wrapped(x, type) = v /\ OfWidth(v, type)
    BY <1>2, <1>6, <2>1 DEF x, Reads, IsMemory, Fits, OfWidth
  <2>3. /\ Quiet(After(s), After(loaded)) /\ RegisterOf(After(loaded), old) = v
        /\ After(loaded).skip = 0
    BY <1>6, <1>9, <1>14, <2>2 DEF Sets, Quiet
  <2>4. Wrapped(y, type) = w
    <3>1. ValueOf(After(loaded), type, Register(old)) = v
      BY <2>3, OperandsGive
    <3>2. ValueOf(After(loaded), type, one) = 1
      <4>1. OfWidth(1, type)
        BY <1>3, SmallNumbers
      <4> QED
        BY <4>1, OperandsGive DEF OfWidth
    <3>3. y = Computed(op, v, 1, type)
      BY <3>1, <3>2
    <3>4. Computed(op, v, 1, type) = v + by
      <4> HIDE DEF v
      <4> QED
        BY <1>2 DEF Computed
    <3> QED
      BY <3>3, <3>4
  <2>5. /\ Quiet(After(loaded), After(added)) /\ RegisterOf(After(added), new) = w
        /\ RegisterOf(After(added), old) = v /\ After(added).skip = 0
    <3>1. Sets(After(loaded), After(added), new, w)
      BY <1>10, <2>3, <2>4
    <3>2. old # new
      BY <1>1
    <3> QED
      BY <2>3, <3>1, <3>2 DEF Sets, Quiet
  <2>6. Puts(After(added), After(stored), place, w)
    BY <1>11, <2>5
  <2>7. Reads(After(added), c)
    BY <2>1, <2>3, <2>5, QuietTransitive, QuietReads
  <2>8. Reads(After(stored), d)
    <3>1. IsMemory(d.memory)
      BY <1>2, <2>1 DEF Reads
    <3> HIDE DEF v, w, by, n
    <3> QED
      BY <1>1, <1>2, <2>6, <2>7, <3>1, PutsReads
  <2>9. \A r : RegisterOf(After(stored), r) = RegisterOf(After(added), r)
    BY <2>6 DEF Puts, RegisterOf
  <2> QED
    BY <1>12, <2>2, <2>5, <2>8, <2>9
<1>15. Comes(s, t, d)
  <2>1. After(s).skip = 0 => Reads(After(t), d)
    BY <1>14
  <2>2. Goes(s, t)
    BY <1>12
  <2> QED
    BY <2>1, <2>2, Zenon DEF Comes
<1>16. After(s).skip = 0 => Bears(After(t), t.ret, d.value, type)
  BY <1>2, <1>3, <1>12, <1>14 DEF Bears
<1> QED
  BY <1>3, <1>13, <1>15, <1>16 DEF Becomes, Yields

-------------------------------------------------------------------------------
\* && || and ?: go one of two ways, and leave a value in a slot on either.

\* The labels and the slot, and nothing run.
LEMMA OpenedGoes ==
    ASSUME NEW s \in Contexts, NEW type \in ValueTypes, NEW t,
           t = Emit(get_next_temp(generate_label(generate_label(generate_label(s)))),
                    Alloca(type, Slot(Fresh(s))))
    PROVE  /\ Goes(s, t) /\ t.temp = s.temp + 1 /\ t.label = s.label + 3
           /\ After(t) = After(s)
<1> DEFINE l1 == generate_label(s)
           l2 == generate_label(l1)
           l3 == generate_label(l2)
           u == get_next_temp(l3)
           i == Alloca(type, Slot(Fresh(s)))
           m == After(s)
<1>1. s.temp \in Int /\ s.label \in Int
  BY ContextFields
<1>2. l1 \in Contexts /\ l1.temp = s.temp /\ l1.label = s.label + 1 /\ l1.code = s.code
  BY <1>1, CountContext
<1>3. l2 \in Contexts /\ l2.temp = s.temp /\ l2.label = s.label + 2 /\ l2.code = s.code
  <2> HIDE DEF l1
  <2> QED
    BY <1>1, <1>2, CountContext
<1>4. l3 \in Contexts /\ l3.temp = s.temp /\ l3.label = s.label + 3 /\ l3.code = s.code
  <2> HIDE DEF l2
  <2> QED
    BY <1>1, <1>3, CountContext
<1>5. u \in Contexts /\ u.temp = s.temp + 1 /\ u.label = s.label + 3 /\ u.code = s.code
  <2> HIDE DEF l3
  <2> QED
    BY <1>1, <1>4, CountContext
<1>6. t = Emit(u, i)
  OBVIOUS
<1>7. i \in Instructions /\ i.op = "alloca"
  <2>1. i.op = "alloca"
    BY DEF Alloca
  <2> QED
    BY <1>1, <2>1, PlacesArePlaces, AllocaIsInstruction DEF Fresh
<1> HIDE DEF u, i
<1>8. Goes(s, u) /\ After(u) = m
  <2>1. s.temp <= u.temp /\ s.label <= u.label
    BY <1>1, <1>5
  <2> QED
    BY <1>5, <2>1, CountingGoes
<1>9. ~Defines(i)
  BY <1>7 DEF Defines, Computations, Predicates
<1>10. Goes(s, t)
  BY <1>6, <1>7, <1>8, <1>9, EmittingGoes
<1>11. t.temp = u.temp /\ t.label = u.label /\ After(t) = Step(m, i) /\ Machine(m)
  BY <1>5, <1>6, <1>7, <1>8, EmitContext, MachineOfEmitted, MachineOfContext
<1>12. Step(m, i) = m
  <2>1. CASE m.skip = 0
    BY <1>7, <1>11, <2>1, StepExecutes, ExecutedBy
  <2>2. CASE m.skip # 0
    BY <1>7, <2>2, StepSkips
  <2> QED
    BY <2>1, <2>2
<1> QED
  BY <1>5, <1>10, <1>11, <1>12

\* A slot is no variable.
LEMMA SlotReads ==
    ASSUME NEW m, NEW o, NEW c, Reads(m, c), NEW r, NEW w, Puts(m, o, Slot(r), w)
    PROVE  Reads(o, c)
<1>1. \A n \in Names : Variable(n) # Slot(r)
  BY DEF Variable, Slot
<1> QED
  BY <1>1 DEF Reads, Puts

LEMMA GoesRuns ==
    ASSUME NEW s, NEW c, Runs(s, c), NEW t, Goes(s, t), NEW d \in Meanings,
           After(s).skip = 0 => After(t).skip \in 0 .. t.label,
           After(t).skip = 0 => Reads(After(t), d)
    PROVE  Runs(t, d) /\ (After(t).skip = 0 => After(s).skip = 0)
<1>1. /\ s \in Contexts /\ t \in Contexts /\ s.label \in Nat /\ s.label <= t.label
      /\ After(s).skip \in 0 .. s.label /\ t.label \in Int
      /\ After(s).skip \in 1 .. s.label => After(t) = After(s)
  BY ContextFields DEF Runs, Goes, Spares
<1>2. After(s).skip # 0 => After(t).skip \in 0 .. t.label /\ After(t).skip # 0
  BY <1>1
<1> QED
  BY <1>1, <1>2 DEF Runs

\* The branch, and the label of the part that is printed first.
LEMMA ForkMoves ==
    ASSUME NEW s, NEW z, Goes(s, z), NEW first \in Nat \ {0}, NEW second \in Nat \ {0},
           first # second, first > s.label,
           NEW b, After(z).skip = 0 => Bears(After(z), z.ret, Bool(b), "i1"),
           NEW yes \in {first, second}, NEW no \in {first, second}, NEW u,
           u = Emit(BranchOn(z, yes, no), Label(first))
    PROVE  /\ Goes(s, u) /\ u.temp = z.temp /\ u.label = z.label
           /\ After(z).skip = 0 => After(u) = IF (IF b THEN yes ELSE no) = first THEN After(z)
                                              ELSE Bound(After(z), second)
<1> DEFINE t == BranchOn(z, yes, no)
           l == IF b THEN yes ELSE no
           m == After(z)
<1>1. z \in Contexts /\ yes \in Int /\ no \in Int /\ l \in {first, second}
  BY DEF Goes
<1>2. /\ Goes(z, t) /\ t.temp = z.temp /\ t.label = z.label
      /\ m.skip = 0 => After(t) = Bound(m, l)
  BY <1>1, BranchingGoes
<1>3. t \in Contexts /\ u = Emit(t, Label(first)) /\ first \in Int /\ Goes(s, t) /\ Machine(m)
  BY <1>1, <1>2, GoesTransitive, MachineOfContext DEF Goes
<1> HIDE DEF t, l, m
<1>4. /\ u.temp = t.temp /\ u.label = t.label /\ Goes(s, u)
      /\ After(t).skip \notin {0, first} => After(u) = After(t)
      /\ After(t).skip \in {0, first} => After(u) = Bound(After(t), 0)
  BY <1>3, LabelMoves
<1>5. ASSUME m.skip = 0 PROVE After(u) = IF l = first THEN m ELSE Bound(m, second)
  <2>1. After(t).skip = l /\ Bound(After(t), 0) = m
    BY <1>2, <1>3, <1>5, BoundFields
  <2> QED
    BY <1>1, <1>2, <1>4, <1>5, <2>1
<1> QED
  BY <1>2, <1>4, <1>5 DEF l, m

\* The end of one part, and the label that comes next.
LEMMA CloseMoves ==
    ASSUME NEW s, NEW t, Goes(s, t), NEW end \in Nat \ {0}, NEW next \in Nat \ {0},
           next > s.label, NEW u, u = Emit(Emit(t, Jump(end)), Label(next))
    PROVE  /\ Goes(s, u) /\ u.temp = t.temp /\ u.label = t.label
           /\ After(t).skip = 0 => After(u) = IF end = next THEN After(t)
                                              ELSE Bound(After(t), end)
           /\ After(t).skip = next => After(u) = Bound(After(t), 0)
           /\ After(t).skip \notin {0, next} => After(u) = After(t)
<1> DEFINE j == Emit(t, Jump(end))
           m == After(t)
<1>1. t \in Contexts /\ end \in Int /\ next \in Int /\ Machine(m)
  BY MachineOfContext DEF Goes
<1>2. /\ Goes(t, j) /\ j.temp = t.temp /\ j.label = t.label
      /\ m.skip # 0 => After(j) = m
      /\ m.skip = 0 => After(j) = Bound(m, end)
  BY <1>1, JumpingGoes
<1>3. j \in Contexts /\ u = Emit(j, Label(next)) /\ Goes(s, j)
  BY <1>2, GoesTransitive DEF Goes
<1> HIDE DEF j, m
<1>4. /\ u.temp = j.temp /\ u.label = j.label /\ Goes(s, u)
      /\ After(j).skip \notin {0, next} => After(u) = After(j)
      /\ After(j).skip \in {0, next} => After(u) = Bound(After(j), 0)
  BY <1>1, <1>3, LabelMoves
<1>5. ASSUME m.skip = 0 PROVE After(u) = IF end = next THEN m ELSE Bound(m, end)
  <2>1. After(j).skip = end /\ Bound(After(j), 0) = m
    BY <1>1, <1>2, <1>5, BoundFields
  <2> QED
    BY <1>2, <1>4, <1>5, <2>1
<1>6. m.skip = next => After(u) = Bound(m, 0)
  BY <1>2, <1>4
<1>7. m.skip \notin {0, next} => After(u) = m
  BY <1>2, <1>4
<1> QED
  BY <1>2, <1>4, <1>5, <1>6, <1>7 DEF m

LEMMA SlotPuts ==
    ASSUME NEW s, NEW t, Goes(s, t), NEW type \in ValueTypes, NEW operand \in IROperands,
           NEW u, u = Emit(t, Store(type, operand, Slot(Fresh(s))))
    PROVE  /\ Goes(s, u) /\ u.temp = t.temp /\ u.label = t.label
           /\ After(t).skip # 0 => After(u) = After(t)
           /\ After(t).skip = 0 =>
                Puts(After(t), After(u), Slot(Fresh(s)), ValueOf(After(t), type, operand))
<1> DEFINE place == Slot(Fresh(s))
<1>1. /\ t \in Contexts /\ s.temp \in Int /\ place \in Places
      /\ \A r \in Int : r <= s.temp => place # Slot(r)
  <2>1. t \in Contexts /\ s.temp \in Int /\ Fresh(s) = s.temp + 1
    BY ContextFields DEF Goes, Fresh
  <2>2. \A r \in Int : r <= s.temp => place # Slot(r)
    BY <2>1 DEF Slot
  <2> QED
    BY <2>1, <2>2, PlacesArePlaces
<1> HIDE DEF place
<1>2. u = Emit(t, Store(type, operand, place))
  BY DEF place
<1>3. /\ u.temp = t.temp /\ u.label = t.label /\ Goes(s, u)
      /\ After(t).skip # 0 => After(u) = After(t)
      /\ After(t).skip = 0 => Puts(After(t), After(u), place, ValueOf(After(t), type, operand))
  BY <1>1, <1>2, StoringPuts
<1> QED
  BY <1>3 DEF place

\* The machine is in the part printed first, on the way to the other, or elsewhere.
LEMMA ForkRuns ==
    ASSUME NEW s, NEW c, Runs(s, c), NEW z, NEW x \in Meanings, Comes(s, z, x),
           NEW first \in Nat \ {0}, NEW second \in Nat \ {0}, first # second,
           first > s.label, second <= z.label,
           NEW b, After(z).skip = 0 => Bears(After(z), z.ret, Bool(b), "i1"),
           NEW yes \in {first, second}, NEW no \in {first, second}, NEW u,
           u = Emit(BranchOn(z, yes, no), Label(first)),
           NEW on, on <=> (IF b THEN yes ELSE no) = first
    PROVE  /\ Goes(s, u) /\ u.temp = z.temp /\ u.label = z.label /\ Runs(u, x)
           /\ After(u).skip = 0 <=> After(s).skip = 0 /\ on
           /\ After(s).skip = 0 /\ ~on => After(u) = Bound(After(z), second)
<1>1. /\ Goes(s, z) /\ z \in Contexts /\ z.label \in Int /\ Machine(After(z))
      /\ After(z).skip = 0 <=> After(s).skip = 0
      /\ After(s).skip = 0 => Reads(After(z), x)
  BY ComesRuns, ContextFields, MachineOfContext DEF Comes, Goes
<1>2. /\ Goes(s, u) /\ u.temp = z.temp /\ u.label = z.label
      /\ After(z).skip = 0 => After(u) = IF (IF b THEN yes ELSE no) = first THEN After(z)
                                         ELSE Bound(After(z), second)
  BY <1>1, ForkMoves
<1>3. After(s).skip = 0 /\ on => After(u) = After(z)
  BY <1>1, <1>2
<1>4. After(s).skip = 0 /\ ~on => After(u) = Bound(After(z), second) /\ After(u).skip = second
  BY <1>1, <1>2, BoundFields
<1>5. After(s).skip = 0 => After(u).skip \in 0 .. u.label
  BY <1>1, <1>2, <1>3, <1>4
<1>6. After(s).skip # 0 => After(u).skip # 0
  <2>1. s.label \in Nat /\ After(s).skip \in 0 .. s.label
    BY DEF Runs
  <2>2. After(s).skip # 0 => After(s).skip \in 1 .. s.label
    BY <2>1
  <2> QED
    BY <1>2, <2>2 DEF Goes, Spares
<1>7. After(u).skip = 0 => Reads(After(u), x)
  BY <1>1, <1>3, <1>4, <1>6
<1>8. Runs(u, x)
  BY <1>2, <1>5, <1>7, GoesRuns
<1> QED
  BY <1>1, <1>2, <1>3, <1>4, <1>6, <1>8

\* The first part is over, or was skipped.
LEMMA NextRuns ==
    ASSUME NEW s, NEW c, Runs(s, c), NEW z, NEW x \in Meanings, Comes(s, z, x),
           NEW end \in Nat \ {0}, NEW second \in Nat \ {0}, end # second,
           NEW u, NEW on, After(u).skip = 0 <=> After(s).skip = 0 /\ on,
           After(s).skip = 0 /\ ~on => After(u) = Bound(After(z), second),
           NEW one, Goes(s, one), second > s.label, end <= one.label,
           After(u).skip # 0 => After(one) = After(u),
           After(u).skip = 0 => After(one).skip = 0,
           NEW w, w = Emit(Emit(one, Jump(end)), Label(second))
    PROVE  /\ Goes(s, w) /\ w.temp = one.temp /\ w.label = one.label /\ Runs(w, x)
           /\ After(w).skip = 0 <=> After(s).skip = 0 /\ ~on
           /\ After(s).skip = 0 /\ on => After(w) = Bound(After(one), end)
<1>1. /\ Machine(After(z)) /\ (After(z).skip = 0 <=> After(s).skip = 0)
      /\ After(s).skip = 0 => Reads(After(z), x)
      /\ Machine(After(one)) /\ one.label \in Int
  BY ComesRuns, ContextFields, MachineOfContext DEF Comes, Goes
<1>2. /\ Goes(s, w) /\ w.temp = one.temp /\ w.label = one.label
      /\ After(one).skip = 0 => After(w) = Bound(After(one), end)
      /\ After(one).skip = second => After(w) = Bound(After(one), 0)
  BY CloseMoves
<1>3. After(s).skip = 0 /\ on => After(w) = Bound(After(one), end) /\ After(w).skip = end
  BY <1>1, <1>2, BoundFields
<1>4. ASSUME After(s).skip = 0, ~on PROVE After(w) = After(z) /\ After(w).skip = 0
  <2>1. After(one) = Bound(After(z), second)
    BY <1>4
  <2>2. Bound(After(z), second).skip = second /\ Bound(Bound(After(z), second), 0) = After(z)
    BY <1>1, <1>4, BoundFields
  <2> QED
    BY <1>1, <1>2, <1>4, <2>1, <2>2
<1>5. After(s).skip = 0 => After(w).skip \in 0 .. w.label
  BY <1>1, <1>2, <1>3, <1>4
<1>6. After(s).skip # 0 => After(w).skip # 0
  <2>1. s.label \in Nat /\ After(s).skip \in 0 .. s.label
    BY DEF Runs
  <2>2. After(s).skip # 0 => After(s).skip \in 1 .. s.label
    BY <2>1
  <2> QED
    BY <1>2, <2>2 DEF Goes, Spares
<1>7. After(w).skip = 0 => Reads(After(w), x)
  BY <1>1, <1>3, <1>4, <1>6
<1>8. Runs(w, x)
  BY <1>2, <1>5, <1>7, GoesRuns
<1> QED
  BY <1>2, <1>3, <1>4, <1>6, <1>8

\* Both parts end at the same label.
LEMMA ArmsMeet ==
    ASSUME NEW s, NEW end \in Nat \ {0}, NEW one, NEW w, NEW on,
           one \in Contexts,
           After(w).skip = 0 <=> After(s).skip = 0 /\ ~on,
           After(s).skip = 0 /\ on => After(one).skip = 0 /\ After(w) = Bound(After(one), end),
           NEW two, Goes(s, two), end > s.label,
           After(w).skip # 0 => After(two) = After(w),
           After(w).skip = 0 => After(two).skip = 0,
           NEW t, t = Emit(Emit(two, Jump(end)), Label(end))
    PROVE  /\ Goes(s, t) /\ t.temp = two.temp
           /\ After(s).skip = 0 /\ on => After(t) = After(one)
           /\ After(s).skip = 0 /\ ~on => After(t) = After(two)
<1>1. /\ Goes(s, t) /\ t.temp = two.temp
      /\ After(two).skip = 0 => After(t) = After(two)
      /\ After(two).skip = end => After(t) = Bound(After(two), 0)
  BY CloseMoves
<1>2. Machine(After(one))
  BY MachineOfContext
<1>3. ASSUME After(s).skip = 0, on PROVE After(t) = After(one)
  <2>1. After(two) = Bound(After(one), end)
    BY <1>3
  <2>2. Bound(After(one), end).skip = end /\ Bound(Bound(After(one), end), 0) = After(one)
    BY <1>2, <1>3, BoundFields
  <2> QED
    BY <1>1, <2>1, <2>2
<1> QED
  BY <1>1, <1>3

LEMMA LogicalMeaning ==
    ASSUME NEW c \in Meanings, NEW e \in Expressions, e.kind = "AST_BINARY_OP",
           e.op \in Logical, NEW g, Speaks(g, e.left), NEW k, Speaks(k, e.right),
           NEW d, d = EvaluateLogical(c, e, g, k),
           NEW on, on <=> ((g[c].value # 0) = (e.op = "OP_LAND"))
    PROVE  /\ g[c] \in Meanings /\ k[g[c]] \in Meanings /\ d \in Meanings
           /\ d.ok => g[c].ok /\ (on => k[g[c]].ok)
           /\ on => /\ d.memory = k[g[c]].memory /\ d.sent = k[g[c]].sent
                    /\ d.value = Bool(k[g[c]].value # 0)
           /\ ~on => /\ d.memory = g[c].memory /\ d.sent = g[c].sent
                     /\ d.value = Bool(g[c].value # 0)
           /\ Says(c, d, e)
<1> DEFINE x == g[c]
           y == k[x]
           p == Bool(x.value # 0)
           q == Bool(y.value # 0)
<1>1. x \in Meanings /\ Says(c, x, e.left) /\ y \in Meanings /\ Says(x, y, e.right)
  <2>1. x \in Meanings /\ Says(c, x, e.left)
    BY SpeaksMeans
  <2> QED
    BY <2>1, SpeaksMeans
<1>2. d = IF on THEN Having(y, q, "int") ELSE Having(x, p, "int")
  BY DEF EvaluateLogical
<1>3. p \in Int /\ q \in Int /\ "int" \in VariableTypes
  BY DEF Bool, VariableTypes
<1>4. ~IsLiteral(e) /\ HeldAs(e) = "i32"
  BY DEF IsLiteral, HeldAs, IsComparison, Logical, Comparisons
<1> HIDE DEF x, y, p, q
<1>5. on => /\ d \in Meanings /\ d.memory = y.memory /\ d.sent = y.sent /\ d.value = q
            /\ d.type = "int" /\ (d.ok => y.ok)
  BY <1>1, <1>2, <1>3, HavingFields
<1>6. ~on => /\ d \in Meanings /\ d.memory = x.memory /\ d.sent = x.sent /\ d.value = p
             /\ d.type = "int" /\ (d.ok => x.ok)
  BY <1>1, <1>2, <1>3, HavingFields
<1>7. d.ok => x.ok /\ (on => y.ok)
  BY <1>1, <1>5, <1>6 DEF Says
<1>8. Says(c, d, e)
  BY <1>1, <1>4, <1>5, <1>6, <1>7 DEF Says
<1> QED
  BY <1>1, <1>5, <1>6, <1>7, <1>8 DEF x, y, p, q

LEMMA LogicalBecomes ==
    ASSUME NEW s, NEW c, Runs(s, c), NEW e \in Expressions, e.kind = "AST_BINARY_OP",
           e.op \in Logical, GuessedRight(e),
           NEW f, NEW g, Answers(f, g, e.left), NEW h, NEW k, Answers(h, k, e.right),
           NEW d, d = EvaluateLogical(c, e, g, k), After(s).skip = 0 => d.ok
    PROVE  Becomes(s, GenerateLogical(s, e, f, h), d, e)
<1> DEFINE first == s.label + 1
           second == s.label + 2
           end == s.label + 3
           result == Slot(Fresh(s))
           and == e.op = "OP_LAND"
           told == Const(IF and THEN 0 ELSE 1)
           opened == Emit(get_next_temp(generate_label(generate_label(generate_label(s)))),
                          Alloca("i1", result))
           left == f[opened]
           z == LogicalOperand(left, e.left)
           yes == IF and THEN second ELSE first
           no == IF and THEN first ELSE second
           split == BranchOn(z, yes, no)
           u == Emit(split, Label(first))
           one == Emit(u, Store("i1", told, result))
           w == Emit(Emit(one, Jump(end)), Label(second))
           right == h[w]
           bool == LogicalOperand(right, e.right)
           two == Emit(bool, Store("i1", Register(bool.ret), result))
           both == Emit(Emit(two, Jump(end)), Label(end))
           loaded == Defining(both, Load(Fresh(both), "i1", result))
           t == Widened(loaded)
           x == g[c]
           y == k[x]
           b == x.value # 0
           v == Bool(b)
           q == Bool(y.value # 0)
           on == b = and
           off == ~on
<1>0. GenerateLogical(s, e, f, h) = t
  BY DEF GenerateLogical
<1>1. /\ s \in Contexts /\ c \in Meanings /\ s.label \in Nat /\ s.temp \in Int
      /\ first \in Nat \ {0} /\ second \in Nat \ {0} /\ end \in Nat \ {0}
      /\ first # second /\ end # second /\ first > s.label /\ second > s.label /\ end > s.label
      /\ "i1" \in ValueTypes /\ told \in IROperands /\ result \in Places
      /\ yes \in {first, second} /\ no \in {first, second}
      /\ e.left \in Expressions /\ e.right \in Expressions
  <2>1. s \in Contexts /\ c \in Meanings /\ s.label \in Nat /\ s.temp \in Int
    BY ContextFields DEF Runs
  <2>2. (IF and THEN 0 ELSE 1) \in Int /\ Fresh(s) \in Int
    BY <2>1 DEF Fresh
  <2> QED
    BY <2>1, <2>2, OperandsAreIROperands, PlacesArePlaces, BinaryFields DEF ValueTypes
<1>2. Connects(e.left) /\ Connects(e.right)
  BY DEF GuessedRight
<1>3. ~IsLiteral(e) /\ HeldAs(e) = "i32"
  BY DEF IsLiteral, HeldAs, IsComparison, Logical, Comparisons
<1>4. /\ x \in Meanings /\ y \in Meanings /\ d \in Meanings
      /\ d.ok => x.ok /\ (on => y.ok)
      /\ on => d.memory = y.memory /\ d.sent = y.sent /\ d.value = q
      /\ off => d.memory = x.memory /\ d.sent = x.sent /\ d.value = v
  <2>1. Speaks(g, e.left) /\ Speaks(k, e.right)
    BY DEF Answers
  <2>2. on <=> ((g[c].value # 0) = (e.op = "OP_LAND"))
    OBVIOUS
  <2> HIDE DEF on
  <2> QED
    BY <1>1, <2>1, <2>2, LogicalMeaning
<1>5. /\ x.value \in Int /\ y.value \in Int
      /\ v \in {0, 1} /\ q \in {0, 1} /\ Wrapped(v, "i1") = -v
  BY <1>4, MeaningFields, BoolValues
<1>6. /\ Goes(s, opened) /\ opened.temp = s.temp + 1 /\ opened.label = end
      /\ After(opened) = After(s)
  BY <1>1, OpenedGoes
<1>7. Runs(opened, c) /\ Comes(s, opened, c)
  <2>1. Comes(s, opened, c)
    BY <1>6 DEF Comes, Runs
  <2> QED
    BY <1>1, <2>1, ComesRuns
<1> HIDE DEF opened
<1>8. /\ Comes(opened, left, x) /\ Runs(left, x) /\ left \in Contexts
      /\ After(left).skip = 0 <=> After(opened).skip = 0
      /\ HeldAs(e.left) # "none" => left.ret <= left.temp
      /\ After(left).skip = 0 => Yields(left, e.left, x.value)
  <2>1. After(opened).skip = 0 => x.ok
    BY <1>4, <1>6
  <2> QED
    BY <1>7, <2>1, AnswersBecome DEF Becomes
<1> HIDE DEF left
<1>9. Gets(left, z, v, "i1")
  BY <1>1, <1>2, <1>5, <1>8, LogicalGets
<1> HIDE DEF z
<1>10. /\ Comes(s, z, x) /\ end <= z.label /\ second <= z.label /\ z \in Contexts
       /\ After(z).skip = 0 => Bears(After(z), z.ret, v, "i1")
  <2>1. Comes(left, z, x)
    BY <1>8, <1>9, QuietComes DEF Gets
  <2>2. Comes(s, left, x)
    BY <1>1, <1>7, <1>8, ComesTransitive
  <2>3. Comes(s, z, x)
    BY <1>4, <2>1, <2>2, ComesTransitive
  <2>4. /\ left.label \in Int /\ z.label \in Int /\ z \in Contexts
        /\ end <= left.label /\ left.label <= z.label
    BY <1>6, <1>8, <2>1, ContextFields DEF Comes, Goes
  <2>5. After(z).skip = 0 <=> After(left).skip = 0
    BY <1>4, <1>8, <2>1, ComesRuns
  <2> QED
    BY <1>1, <1>9, <2>3, <2>4, <2>5 DEF Gets
<1>11. u = Emit(BranchOn(z, yes, no), Label(first)) /\ (off <=> (IF b THEN yes ELSE no) = first)
  <2>1. and \in BOOLEAN /\ b \in BOOLEAN
    OBVIOUS
  <2> HIDE DEF and, b
  <2> QED
    BY <1>1, <2>1
<1>12. t = Widened(loaded)
  BY DEF t
<1> HIDE DEF b, off, on, u, yes, no, first, second, end
<1>13. /\ Goes(s, u) /\ u.label = z.label /\ Runs(u, x)
       /\ After(u).skip = 0 <=> After(s).skip = 0 /\ off
       /\ After(s).skip = 0 /\ ~off => After(u) = Bound(After(z), second)
  BY <1>1, <1>4, <1>10, <1>11, ForkRuns DEF v
<1>14. /\ Goes(s, one) /\ one.label = u.label
       /\ After(u).skip # 0 => After(one) = After(u)
       /\ After(u).skip = 0 => Puts(After(u), After(one), result, ValueOf(After(u), "i1", told))
  BY <1>1, <1>13, SlotPuts
<1> HIDE DEF one
<1>15. After(u).skip = 0 => After(one).skip = 0 /\ Reads(After(one), x) /\ HeldIn(After(one), result) = -v
  <2>1. SUFFICES ASSUME After(u).skip = 0
                 PROVE  After(one).skip = 0 /\ Reads(After(one), x) /\ HeldIn(After(one), result) = -v
    OBVIOUS
  <2>2. Puts(After(u), After(one), result, ValueOf(After(u), "i1", told)) /\ Reads(After(u), x)
    BY <1>13, <1>14, <2>1 DEF Runs
  <2>3. Reads(After(one), x)
    BY <2>2, SlotReads
  <2>4. off
    BY <1>13, <2>1
  <2>5. (IF and THEN 0 ELSE 1) = v
    BY <2>4 DEF off, on, b, v, Bool
  <2>6. ValueOf(After(u), "i1", told) = -v
    BY <1>5, <2>5, OperandsGive
  <2> QED
    BY <2>2, <2>3, <2>6 DEF Puts, Reads
<1>16. /\ Goes(s, w) /\ Runs(w, x)
       /\ After(w).skip = 0 <=> After(s).skip = 0 /\ on
       /\ After(s).skip = 0 /\ off => After(w) = Bound(After(one), end)
  <2>1. /\ Goes(s, w) /\ Runs(w, x)
        /\ After(w).skip = 0 <=> After(s).skip = 0 /\ ~off
        /\ After(s).skip = 0 /\ off => After(w) = Bound(After(one), end)
    BY <1>1, <1>4, <1>10, <1>13, <1>14, <1>15, NextRuns
  <2> QED
    BY <2>1 DEF off
<1> HIDE DEF w
<1>17. /\ Comes(w, right, y) /\ Runs(right, y) /\ right \in Contexts /\ Goes(w, right)
       /\ After(right).skip = 0 <=> After(w).skip = 0
       /\ HeldAs(e.right) # "none" => right.ret <= right.temp
       /\ After(right).skip = 0 => Yields(right, e.right, y.value)
  <2>1. After(w).skip = 0 => y.ok
    BY <1>4, <1>16
  <2> QED
    BY <1>16, <2>1, AnswersBecome DEF Becomes
<1> HIDE DEF right
<1>18. Gets(right, bool, q, "i1")
  BY <1>1, <1>2, <1>5, <1>17, LogicalGets
<1> HIDE DEF bool
<1>19. /\ Goes(s, bool) /\ bool \in Contexts /\ (After(bool).skip = 0 <=> After(w).skip = 0)
       /\ After(w).skip = 0 =>
            Reads(After(bool), y) /\ RegisterOf(After(bool), bool.ret) = -q
       /\ After(w).skip # 0 => After(bool) = After(w)
       /\ Register(bool.ret) \in IROperands
  <2>1. Comes(right, bool, y)
    BY <1>17, <1>18, QuietComes DEF Gets
  <2>2. Comes(w, bool, y)
    BY <1>4, <1>16, <1>17, <2>1, ComesTransitive
  <2>3. Goes(w, bool) /\ Goes(s, bool) /\ bool \in Contexts
    BY <1>16, <2>2, GoesTransitive DEF Comes, Goes
  <2>4. After(w).skip # 0 => After(bool) = After(w)
    <3>1. w.label \in Nat /\ After(w).skip \in 0 .. w.label
      BY <1>16 DEF Runs
    <3>2. After(w).skip # 0 => After(w).skip \in 1 .. w.label
      BY <3>1
    <3> QED
      BY <2>3, <3>2 DEF Goes, Spares
  <2>5. After(bool).skip = 0 <=> After(w).skip = 0
    BY <1>4, <1>16, <2>2, ComesRuns
  <2>6. After(w).skip = 0 => RegisterOf(After(bool), bool.ret) = -q
    BY <1>17, <1>18 DEF Gets, Bears
  <2> QED
    BY <2>2, <2>3, <2>4, <2>5, <2>6, ContextFields, OperandsAreIROperands DEF Comes
<1>20. /\ Goes(s, two) /\ two.temp = bool.temp
       /\ After(bool).skip # 0 => After(two) = After(bool)
       /\ After(bool).skip = 0 => Puts(After(bool), After(two), result,
                                       ValueOf(After(bool), "i1", Register(bool.ret)))
  BY <1>1, <1>19, SlotPuts
<1> HIDE DEF two
<1>21. /\ After(w).skip # 0 => After(two) = After(w)
       /\ After(w).skip = 0 => After(two).skip = 0 /\ Reads(After(two), y)
                               /\ HeldIn(After(two), result) = -q
  <2>1. ASSUME After(w).skip = 0
        PROVE  After(two).skip = 0 /\ Reads(After(two), y) /\ HeldIn(After(two), result) = -q
    <3>1. /\ Reads(After(bool), y)
          /\ Puts(After(bool), After(two), result, ValueOf(After(bool), "i1", Register(bool.ret)))
          /\ ValueOf(After(bool), "i1", Register(bool.ret)) = -q
      BY <1>19, <1>20, <2>1, OperandsGive
    <3>2. Reads(After(two), y)
      BY <3>1, SlotReads
    <3> QED
      BY <3>1, <3>2 DEF Puts, Reads
  <2> QED
    BY <1>19, <1>20, <2>1
<1>22. /\ Goes(s, both) /\ both \in Contexts
       /\ After(s).skip = 0 /\ off => After(both) = After(one)
       /\ After(s).skip = 0 /\ ~off => After(both) = After(two)
  <2>1. After(w).skip = 0 <=> After(s).skip = 0 /\ ~off
    BY <1>16 DEF off
  <2>2. After(s).skip = 0 /\ off => After(one).skip = 0 /\ After(w) = Bound(After(one), end)
    BY <1>13, <1>15, <1>16
  <2>3. one \in Contexts
    BY <1>14 DEF Goes
  <2> QED
    <3>1. /\ Goes(s, both)
          /\ After(s).skip = 0 /\ off => After(both) = After(one)
          /\ After(s).skip = 0 /\ ~off => After(both) = After(two)
      BY <1>1, <1>20, <1>21, <2>1, <2>2, <2>3, ArmsMeet
    <3> QED
      BY <3>1 DEF Goes
<1> HIDE DEF both
<1>23. After(s).skip = 0 => Reads(After(both), d) /\ HeldIn(After(both), result) = -d.value
  <2>1. CASE off
    <3>1. After(s).skip = 0 => Reads(After(both), x) /\ HeldIn(After(both), result) = -v
      BY <1>13, <1>15, <1>22, <2>1
    <3> QED
      BY <1>4, <2>1, <3>1 DEF Reads
  <2>2. CASE ~off
    <3>1. on
      BY <2>2 DEF off
    <3>2. After(s).skip = 0 => Reads(After(both), y) /\ HeldIn(After(both), result) = -q
      BY <1>16, <1>21, <1>22, <2>2, <3>1
    <3> QED
      BY <1>4, <3>1, <3>2 DEF Reads
  <2> QED
    BY <2>1, <2>2
<1>24. Comes(s, both, d)
  BY <1>22, <1>23 DEF Comes
<1>25. Runs(both, d) /\ (After(both).skip = 0 <=> After(s).skip = 0)
  BY <1>4, <1>24, ComesRuns
<1>26. d.value \in {0, 1}
  <2>1. on \/ off
    BY DEF off
  <2> QED
    BY <1>4, <1>5, <2>1
<1>27. Gets(both, loaded, d.value, "i1")
  <2>1. /\ Goes(both, loaded) /\ loaded.ret <= loaded.temp
        /\ After(both).skip = 0 =>
             Sets(After(both), After(loaded), loaded.ret, Wrapped(HeldIn(After(both), result), "i1"))
    BY <1>1, <1>22, LoadingSets
  <2>2. After(both).skip = 0 => Wrapped(HeldIn(After(both), result), "i1") = -d.value
    <3>1. \A n \in {0, 1} : Wrapped(-n, "i1") = -n
      BY OneBit
    <3> QED
      BY <1>23, <1>25, <1>26, <3>1
  <2>3. After(both).skip = 0 => Sets(After(both), After(loaded), loaded.ret, -d.value)
    BY <2>1, <2>2
  <2> QED
    BY <1>26, <2>1, <2>3 DEF Sets, Gets, Quiet, Bears
<1> HIDE DEF loaded, t
<1>28. /\ Comes(both, loaded, d) /\ loaded \in Contexts
       /\ After(loaded).skip = 0 <=> After(both).skip = 0
  <2>1. Comes(both, loaded, d)
    BY <1>25, <1>27, QuietComes DEF Gets
  <2> QED
    BY <1>4, <1>25, <2>1, ComesRuns DEF Comes, Goes
<1>29. Gets(loaded, t, d.value, "i32")
  <2>1. loaded.ret <= loaded.temp /\ (After(loaded).skip = 0 => Bears(After(loaded), loaded.ret, d.value, "i1"))
    BY <1>27, <1>28 DEF Gets
  <2> QED
    BY <1>12, <1>26, <1>28, <2>1, WidenedGets
<1>30. Comes(s, loaded, d)
  BY <1>4, <1>24, <1>28, ComesTransitive
<1>31. Becomes(s, t, d, e)
  BY <1>3, <1>4, <1>29, <1>30, GetsBecomes
<1> QED
  BY <1>0, <1>31 DEF t

-------------------------------------------------------------------------------
\* Conditionals and assignments.

\* A value is converted and stored.
LEMMA StoredPuts ==
    ASSUME NEW s, NEW t, Goes(s, t), After(t).skip \in 0 .. t.label,
           NEW a \in Expressions, NEW v \in Int, NEW type \in VariableTypes,
           Converts(a), HeldAs(a) # "i1", HeldAs(a) # "none" => t.ret <= t.temp,
           After(t).skip = 0 => Yields(t, a, v),
           NEW place \in Places, \A r \in Int : r <= s.temp => place # Slot(r),
           NEW u, u = Stored(t, a, type, place)
    PROVE  /\ Goes(s, u) /\ t.label <= u.label /\ (~IsLiteral(a) => u.ret <= u.temp)
           /\ After(t).skip # 0 => After(u) = After(t)
           /\ After(t).skip = 0 =>
                /\ \E m : Quiet(After(t), m) /\ Puts(m, After(u), place, Wrapped(v, LLVM[type]))
                /\ ~IsLiteral(a) => RegisterOf(After(u), u.ret) = Wrapped(v, LLVM[type])
<1> DEFINE c == Converted(t, a, type)
           operand == LiteralOr(a, c.ret)
           ir == LLVM[type]
           w == Wrapped(v, ir)
<1>1. t \in Contexts /\ t.label \in Int /\ ir \in ValueTypes
  BY ContextFields, VariablesAreValues DEF Goes
<1>2. u = Emit(c, Store(ir, operand, place))
  BY DEF Stored
<1>3. /\ Goes(t, c) /\ (~IsLiteral(a) => c.ret <= c.temp)
      /\ After(t).skip = 0 => /\ Quiet(After(t), After(c))
                              /\ ValueOf(After(c), ir, operand) = w
  BY <1>1, ConvertedGets
<1> HIDE DEF c, ir, w
<1>4. /\ c \in Contexts /\ t.label <= c.label /\ Goes(s, c) /\ c.ret \in Int /\ operand \in IROperands
  <2>1. c \in Contexts /\ t.label <= c.label /\ Goes(s, c)
    BY <1>3, GoesTransitive DEF Goes
  <2> QED
    BY <2>1, ContextFields, OperandsAreIROperands DEF LiteralOr
<1>5. ~IsLiteral(a) => ValueOf(After(c), ir, operand) = RegisterOf(After(c), c.ret)
  BY OperandsGive DEF LiteralOr
<1> HIDE DEF operand
<1>6. /\ u.temp = c.temp /\ u.label = c.label /\ u.ret = c.ret /\ Goes(s, u)
      /\ After(c).skip # 0 => After(u) = After(c)
      /\ After(c).skip = 0 => Puts(After(c), After(u), place, ValueOf(After(c), ir, operand))
  BY <1>1, <1>2, <1>4, StoringPuts
<1>7. ASSUME After(t).skip # 0 PROVE After(u) = After(t)
  <2>1. After(t).skip \in 1 .. t.label
    BY <1>1, <1>7
  <2>2. After(c) = After(t)
    BY <1>3, <2>1 DEF Goes, Spares
  <2> QED
    BY <1>6, <1>7, <2>2
<1>8. ASSUME After(t).skip = 0
      PROVE  /\ \E m : Quiet(After(t), m) /\ Puts(m, After(u), place, w)
             /\ ~IsLiteral(a) => RegisterOf(After(u), u.ret) = w
  <2>1. Quiet(After(t), After(c)) /\ Puts(After(c), After(u), place, w)
    BY <1>3, <1>6, <1>8 DEF Quiet
  <2>2. ~IsLiteral(a) => RegisterOf(After(u), u.ret) = w
    BY <1>3, <1>5, <1>6, <1>8, <2>1 DEF Puts, RegisterOf
  <2> QED
    BY <2>1, <2>2
<1> QED
  BY <1>3, <1>4, <1>6, <1>7, <1>8 DEF ir, w

LEMMA SlotStored ==
    ASSUME NEW s, NEW t, Goes(s, t), NEW x, Runs(t, x),
           NEW a \in Expressions, NEW v \in Int, NEW type \in VariableTypes,
           Converts(a), HeldAs(a) # "i1", HeldAs(a) # "none" => t.ret <= t.temp,
           After(t).skip = 0 => Yields(t, a, v),
           NEW u, u = Stored(t, a, type, Slot(Fresh(s)))
    PROVE  /\ Goes(s, u) /\ t.label <= u.label
           /\ After(t).skip # 0 => After(u) = After(t)
           /\ After(t).skip = 0 =>
                Reads(After(u), x) /\ HeldIn(After(u), Slot(Fresh(s))) = Wrapped(v, LLVM[type])
<1> DEFINE place == Slot(Fresh(s))
           w == Wrapped(v, LLVM[type])
<1>1. /\ place \in Places /\ After(t).skip \in 0 .. t.label
      /\ \A r \in Int : r <= s.temp => place # Slot(r)
  <2>1. s.temp \in Int /\ Fresh(s) = s.temp + 1
    BY ContextFields DEF Goes, Fresh
  <2>2. \A r \in Int : r <= s.temp => place # Slot(r)
    BY <2>1 DEF Slot
  <2> QED
    BY <2>1, <2>2, PlacesArePlaces DEF Runs
<1>2. u = Stored(t, a, type, place)
  OBVIOUS
<1> HIDE DEF place
<1>3. /\ Goes(s, u) /\ t.label <= u.label
      /\ After(t).skip # 0 => After(u) = After(t)
      /\ After(t).skip = 0 => \E m : Quiet(After(t), m) /\ Puts(m, After(u), place, w)
  BY <1>1, <1>2, StoredPuts
<1>4. ASSUME After(t).skip = 0 PROVE Reads(After(u), x) /\ HeldIn(After(u), place) = w
  <2>1. PICK m : Quiet(After(t), m) /\ Puts(m, After(u), place, w)
    BY <1>3, <1>4
  <2>2. Reads(m, x)
    BY <1>4, <2>1, QuietReads DEF Runs
  <2>3. Reads(After(u), x)
    BY <2>1, <2>2, SlotReads DEF place
  <2> QED
    BY <2>1, <2>3 DEF Puts
<1> QED
  BY <1>3, <1>4 DEF place

\* What is converted is long to C if it is to get_expression_type.
LEMMA ConvertedIsLong ==
    ASSUME NEW a \in Expressions, Converts(a), NEW c, NEW x, Says(c, x, a)
    PROVE  /\ x.type = "long" <=> get_expression_type[a] = "long"
           /\ x.type = "long" => HeldAs(a) = "i64"
<1> DEFINE type == get_expression_type[a]
<1>1. CASE IsLiteral(a)
  <2>1. type \in {"char", "int"}
    BY <1>1, ExpressionTypeUnfolds DEF TypeGiven, IsLiteral, IsComparison
  <2> QED
    BY <1>1, <2>1 DEF Says
<1>2. CASE ~IsLiteral(a)
  <2>1. HeldAs(a) # "none" /\ HeldAs(a) = LLVM[type] /\ type \in CTypes
    BY <1>2, ConvertsHeld, ExpressionTypes
  <2>2. LLVM[type] = "i64" <=> type = "long"
    BY <2>1 DEF CTypes, VariableTypes, LLVM
  <2> QED
    BY <2>1, <2>2 DEF Says
<1> QED
  BY <1>1, <1>2

LEMMA ConditionalMeaning ==
    ASSUME NEW c \in Meanings, NEW e \in Expressions, e.kind = "AST_CONDITIONAL",
           GuessedRight(e), ConvertedRight(e),
           NEW g, Speaks(g, e.condition), NEW k1, Speaks(k1, e.true_expr),
           NEW k2, Speaks(k2, e.false_expr),
           NEW d, d = EvaluateConditional(c, g, k1, k2),
           NEW x, x = g[c],
           NEW y, y = IF x.value # 0 THEN k1[x] ELSE k2[x],
           NEW type, type = usual_arithmetic_conversions(get_expression_type[e.true_expr],
                                                         get_expression_type[e.false_expr])
    PROVE  /\ x \in Meanings /\ k1[x] \in Meanings /\ k2[x] \in Meanings /\ y \in Meanings
           /\ d \in Meanings /\ d.memory = y.memory /\ d.sent = y.sent /\ d.value = y.value
           /\ d.ok => x.ok /\ y.ok /\ OfWidth(y.value, LLVM[type])
           /\ type \in {"int", "long"} /\ HeldAs(e) = LLVM[type]
           /\ Says(c, d, e)
<1> DEFINE a == e.true_expr
           b == e.false_expr
           yes == k1[x]
           no == k2[x]
           common == Common(yes.type, no.type)
           ta == get_expression_type[a]
           tb == get_expression_type[b]
<1>1. a \in Expressions /\ b \in Expressions
  BY OtherFields
<1>2. x \in Meanings /\ Says(c, x, e.condition)
  BY SpeaksMeans
<1>3. yes \in Meanings /\ Says(x, yes, a) /\ no \in Meanings /\ Says(x, no, b)
  BY <1>2, SpeaksMeans
<1>4. Converts(a) /\ Converts(b)
  BY DEF GuessedRight
<1>5. /\ type \in {"int", "long"} /\ HeldAs(e) = LLVM[type] /\ ~IsLiteral(e)
      /\ type = "long" <=> "long" \in {ta, tb} /\ {ta, tb} \cap {"void", "size_t"} = {}
  BY DEF usual_arithmetic_conversions, HeldAs, IsLiteral
<1>6. /\ yes.type = "long" <=> ta = "long"
      /\ yes.type = "long" => HeldAs(a) = "i64"
  BY <1>1, <1>3, <1>4, ConvertedIsLong
<1>7. /\ no.type = "long" <=> tb = "long"
      /\ no.type = "long" => HeldAs(b) = "i64"
  BY <1>1, <1>3, <1>4, ConvertedIsLong
<1>8. HeldAs(e) = "i64" <=> type = "long"
  BY <1>5 DEF LLVM
<1>9. (HeldAs(a) = "i64" => HeldAs(e) = "i64") /\ (HeldAs(b) = "i64" => HeldAs(e) = "i64")
  BY DEF ConvertedRight
<1>10. common = type
  <2>1. common \in {"int", "long"} /\ (common = "long" <=> yes.type = "long" \/ no.type = "long")
    BY DEF Common
  <2> HIDE DEF common, yes, no, ta, tb, a, b
  <2>2. type = "long" => common = "long"
    BY <1>5, <1>6, <1>7, <2>1
  <2>3. common = "long" => type = "long"
    BY <1>6, <1>7, <1>8, <1>9, <2>1
  <2> QED
    BY <1>5, <2>1, <2>2, <2>3
<1>11. d = Having(y, y.value, common) /\ y \in {yes, no}
  BY DEF EvaluateConditional
<1> HIDE DEF yes, no, common, a, b, ta, tb
<1>12. y \in Meanings /\ (y.ok => x.ok) /\ y.value \in Int /\ type \in VariableTypes
  <2>1. y \in Meanings /\ (y.ok => x.ok)
    BY <1>3, <1>11 DEF Says
  <2>2. type \in VariableTypes
    BY <1>5 DEF VariableTypes
  <2> QED
    BY <2>1, <2>2, MeaningFields, Zenon
<1>13. /\ d \in Meanings /\ d.memory = y.memory /\ d.sent = y.sent /\ d.value = y.value
       /\ d.type = type /\ (d.ok => y.ok /\ OfWidth(y.value, LLVM[type]))
  <2>1. d = Having(y, y.value, type)
    BY <1>10, <1>11
  <2> QED
    <3>1. y \in Meanings /\ y.value \in Int /\ type \in VariableTypes
      BY <1>12
    <3> QED
      BY <2>1, <3>1, HavingFields
<1>14. Says(c, d, e)
  BY <1>2, <1>5, <1>8, <1>12, <1>13 DEF Says
<1> QED
  BY <1>2, <1>3, <1>5, <1>12, <1>13, <1>14 DEF yes, no

LEMMA ConditionalBecomes ==
    ASSUME NEW s, NEW c, Runs(s, c), NEW e \in Expressions, e.kind = "AST_CONDITIONAL",
           GuessedRight(e), ConvertedRight(e),
           NEW f, NEW g, Answers(f, g, e.condition),
           NEW h1, NEW k1, Answers(h1, k1, e.true_expr),
           NEW h2, NEW k2, Answers(h2, k2, e.false_expr),
           NEW d, d = EvaluateConditional(c, g, k1, k2), After(s).skip = 0 => d.ok
    PROVE  Becomes(s, GenerateConditional(s, e, f, h1, h2), d, e)
<1> DEFINE first == s.label + 1
           second == s.label + 2
           end == s.label + 3
           result == Slot(Fresh(s))
           type == usual_arithmetic_conversions(get_expression_type[e.true_expr],
                                                get_expression_type[e.false_expr])
           ir == LLVM[type]
           opened == Emit(get_next_temp(generate_label(generate_label(generate_label(s)))),
                          Alloca(ir, result))
           tested == f[opened]
           z == convert_to_boolean(tested, e.condition)
           u == Emit(BranchOn(z, first, second), Label(first))
           yes == h1[u]
           one == Stored(yes, e.true_expr, type, result)
           w == Emit(Emit(one, Jump(end)), Label(second))
           no == h2[w]
           two == Stored(no, e.false_expr, type, result)
           both == Emit(Emit(two, Jump(end)), Label(end))
           t == Defining(both, Load(Fresh(both), ir, result))
           x == g[c]
           on == x.value # 0
           y1 == k1[x]
           y2 == k2[x]
           y == IF on THEN y1 ELSE y2
           v == Bool(on)
<1>0. GenerateConditional(s, e, f, h1, h2) = t
  BY DEF GenerateConditional
<1>1. /\ s \in Contexts /\ c \in Meanings /\ s.label \in Nat /\ s.temp \in Int
      /\ first \in Nat \ {0} /\ second \in Nat \ {0} /\ end \in Nat \ {0}
      /\ first # second /\ end # second /\ first > s.label /\ second > s.label /\ end > s.label
      /\ second < end /\ result \in Places
      /\ e.condition \in Expressions /\ e.true_expr \in Expressions /\ e.false_expr \in Expressions
  <2>1. s \in Contexts /\ c \in Meanings /\ s.label \in Nat /\ s.temp \in Int
    BY ContextFields DEF Runs
  <2>2. Fresh(s) \in Int
    BY <2>1 DEF Fresh
  <2> QED
    BY <2>1, <2>2, PlacesArePlaces, OtherFields
<1>2. /\ Tests0(e.condition) /\ Converts(e.true_expr) /\ Converts(e.false_expr)
      /\ HeldAs(e.true_expr) # "i1" /\ HeldAs(e.false_expr) # "i1" /\ ~IsLiteral(e)
  BY DEF GuessedRight, ConvertedRight, IsLiteral
<1>3. /\ x \in Meanings /\ y1 \in Meanings /\ y2 \in Meanings /\ y \in Meanings
      /\ d \in Meanings /\ d.memory = y.memory /\ d.sent = y.sent /\ d.value = y.value
      /\ d.ok => x.ok /\ y.ok /\ OfWidth(y.value, ir)
      /\ type \in {"int", "long"} /\ HeldAs(e) = ir
  <2>1. Speaks(g, e.condition) /\ Speaks(k1, e.true_expr) /\ Speaks(k2, e.false_expr)
    BY DEF Answers
  <2> QED
    BY <1>1, <2>1, ConditionalMeaning
<1>4. /\ x.value \in Int /\ y1.value \in Int /\ y2.value \in Int
      /\ type \in VariableTypes /\ ir \in Wide /\ ir \in ValueTypes
  BY <1>3, MeaningFields, WideTypes DEF VariableTypes
<1> HIDE DEF type
<1>5. /\ Goes(s, opened) /\ opened.label = end /\ After(opened) = After(s)
  BY <1>1, <1>4, OpenedGoes
<1>6. Runs(opened, c) /\ Comes(s, opened, c)
  <2>1. Comes(s, opened, c)
    BY <1>5 DEF Comes, Runs
  <2> QED
    BY <1>1, <2>1, ComesRuns
<1> HIDE DEF opened
<1>7. /\ Comes(opened, tested, x) /\ Runs(tested, x) /\ tested \in Contexts
      /\ After(tested).skip = 0 <=> After(opened).skip = 0
      /\ HeldAs(e.condition) # "none" => tested.ret <= tested.temp
      /\ After(tested).skip = 0 => Yields(tested, e.condition, x.value)
  <2>1. After(opened).skip = 0 => x.ok
    BY <1>3, <1>5
  <2> QED
    BY <1>6, <2>1, AnswersBecome DEF Becomes
<1> HIDE DEF tested
<1>8. Gets(tested, z, v, "i1")
  BY <1>1, <1>2, <1>4, <1>7, BooleanGets
<1> HIDE DEF z
<1>9. /\ Comes(s, z, x) /\ end <= z.label /\ second <= z.label /\ z.label \in Int
      /\ After(z).skip = 0 => Bears(After(z), z.ret, v, "i1")
  <2>1. Comes(tested, z, x)
    BY <1>7, <1>8, QuietComes DEF Gets
  <2>2. Comes(s, tested, x)
    BY <1>1, <1>6, <1>7, ComesTransitive
  <2>3. Comes(s, z, x)
    BY <1>3, <2>1, <2>2, ComesTransitive
  <2>4. /\ tested.label \in Int /\ z.label \in Int
        /\ end <= tested.label /\ tested.label <= z.label
    BY <1>5, <1>7, <2>1, ContextFields DEF Comes, Goes
  <2>5. After(z).skip = 0 <=> After(tested).skip = 0
    BY <1>3, <1>7, <2>1, ComesRuns
  <2> QED
    BY <1>1, <1>8, <2>3, <2>4, <2>5 DEF Gets
<1>10. /\ u = Emit(BranchOn(z, first, second), Label(first))
       /\ on <=> (IF on THEN first ELSE second) = first
       /\ y = IF on THEN y1 ELSE y2
  BY <1>1
<1> HIDE DEF on, u, y, first, second, end
<1>11. /\ Goes(s, u) /\ u.label = z.label /\ Runs(u, x)
       /\ After(u).skip = 0 <=> After(s).skip = 0 /\ on
       /\ After(s).skip = 0 /\ ~on => After(u) = Bound(After(z), second)
  <2>1. first \in {first, second} /\ second \in {first, second}
    OBVIOUS
  <2> QED
    BY <1>1, <1>3, <1>9, <1>10, <2>1, ForkRuns DEF v
<1>12. /\ Comes(u, yes, y1) /\ Runs(yes, y1) /\ Goes(u, yes)
       /\ After(yes).skip = 0 <=> After(u).skip = 0
       /\ HeldAs(e.true_expr) # "none" => yes.ret <= yes.temp
       /\ After(yes).skip = 0 => Yields(yes, e.true_expr, y1.value)
  <2>1. After(u).skip = 0 => y1.ok
    BY <1>3, <1>10, <1>11
  <2> QED
    BY <1>11, <2>1, AnswersBecome DEF Becomes
<1> HIDE DEF yes
<1>13. /\ Goes(s, one) /\ end <= one.label
       /\ After(u).skip # 0 => After(one) = After(u)
       /\ After(u).skip = 0 => After(one).skip = 0 /\ Reads(After(one), y1)
                               /\ HeldIn(After(one), result) = Wrapped(y1.value, ir)
  <2>1. Goes(s, yes)
    BY <1>11, <1>12, GoesTransitive
  <2>2. /\ Goes(s, one) /\ yes.label <= one.label
        /\ After(yes).skip # 0 => After(one) = After(yes)
        /\ After(yes).skip = 0 =>
             Reads(After(one), y1) /\ HeldIn(After(one), result) = Wrapped(y1.value, ir)
    BY <1>1, <1>2, <1>4, <1>12, <2>1, SlotStored
  <2>3. After(u).skip # 0 => After(yes) = After(u)
    <3>1. u.label \in Nat /\ After(u).skip \in 0 .. u.label
      BY <1>11 DEF Runs
    <3>2. After(u).skip # 0 => After(u).skip \in 1 .. u.label
      BY <3>1
    <3> QED
      BY <1>12, <3>2 DEF Goes, Spares
  <2>4. /\ u.label <= yes.label /\ yes.label \in Int /\ one.label \in Int
    BY <1>12, <2>2, ContextFields DEF Goes
  <2> QED
    BY <1>1, <1>9, <1>11, <1>12, <2>2, <2>3, <2>4 DEF Reads
<1> HIDE DEF one
<1>14. /\ Goes(s, w) /\ Runs(w, x) /\ w.label = one.label
       /\ After(w).skip = 0 <=> After(s).skip = 0 /\ ~on
       /\ After(s).skip = 0 /\ on => After(w) = Bound(After(one), end)
  BY <1>1, <1>3, <1>9, <1>11, <1>13, NextRuns
<1> HIDE DEF w
<1>15. /\ Comes(w, no, y2) /\ Runs(no, y2) /\ Goes(w, no)
       /\ After(no).skip = 0 <=> After(w).skip = 0
       /\ HeldAs(e.false_expr) # "none" => no.ret <= no.temp
       /\ After(no).skip = 0 => Yields(no, e.false_expr, y2.value)
  <2>1. After(w).skip = 0 => y2.ok
    BY <1>3, <1>10, <1>14
  <2> QED
    BY <1>14, <2>1, AnswersBecome DEF Becomes
<1> HIDE DEF no
<1>16. /\ Goes(s, two)
       /\ After(w).skip # 0 => After(two) = After(w)
       /\ After(w).skip = 0 => After(two).skip = 0 /\ Reads(After(two), y2)
                               /\ HeldIn(After(two), result) = Wrapped(y2.value, ir)
  <2>1. Goes(s, no)
    BY <1>14, <1>15, GoesTransitive
  <2>2. /\ Goes(s, two)
        /\ After(no).skip # 0 => After(two) = After(no)
        /\ After(no).skip = 0 =>
             Reads(After(two), y2) /\ HeldIn(After(two), result) = Wrapped(y2.value, ir)
    BY <1>1, <1>2, <1>4, <1>15, <2>1, SlotStored
  <2>3. After(w).skip # 0 => After(no) = After(w)
    <3>1. w.label \in Nat /\ After(w).skip \in 0 .. w.label
      BY <1>14 DEF Runs
    <3>2. After(w).skip # 0 => After(w).skip \in 1 .. w.label
      BY <3>1
    <3> QED
      BY <1>15, <3>2 DEF Goes, Spares
  <2> QED
    BY <1>15, <2>2, <2>3 DEF Reads
<1> HIDE DEF two
<1>17. /\ Goes(s, both) /\ both \in Contexts
       /\ After(s).skip = 0 /\ on => After(both) = After(one)
       /\ After(s).skip = 0 /\ ~on => After(both) = After(two)
  <2>1. After(s).skip = 0 /\ on => After(one).skip = 0 /\ After(w) = Bound(After(one), end)
    BY <1>11, <1>13, <1>14
  <2>2. one \in Contexts
    BY <1>13 DEF Goes
  <2>3. /\ Goes(s, both)
        /\ After(s).skip = 0 /\ on => After(both) = After(one)
        /\ After(s).skip = 0 /\ ~on => After(both) = After(two)
    BY <1>1, <1>14, <1>16, <2>1, <2>2, ArmsMeet
  <2> QED
    BY <2>3 DEF Goes
<1> HIDE DEF both
<1>18. After(s).skip = 0 =>
         Reads(After(both), d) /\ HeldIn(After(both), result) = Wrapped(d.value, ir)
  <2>1. CASE on
    <3>1. y = y1
      BY <1>10, <2>1
    <3>2. After(s).skip = 0 =>
            Reads(After(both), y1) /\ HeldIn(After(both), result) = Wrapped(y1.value, ir)
      BY <1>11, <1>13, <1>17, <2>1
    <3> QED
      BY <1>3, <3>1, <3>2 DEF Reads
  <2>2. CASE ~on
    <3>1. y = y2
      BY <1>10, <2>2
    <3>2. After(s).skip = 0 =>
            Reads(After(both), y2) /\ HeldIn(After(both), result) = Wrapped(y2.value, ir)
      BY <1>14, <1>16, <1>17, <2>2
    <3> QED
      BY <1>3, <3>1, <3>2 DEF Reads
  <2> QED
    BY <2>1, <2>2
<1>19. Comes(s, both, d)
  BY <1>17, <1>18 DEF Comes
<1>20. Runs(both, d) /\ (After(both).skip = 0 <=> After(s).skip = 0)
  BY <1>3, <1>19, ComesRuns
<1>21. Gets(both, t, d.value, ir)
  <2>1. /\ Goes(both, t) /\ t.ret <= t.temp
        /\ After(both).skip = 0 =>
             Sets(After(both), After(t), t.ret, Wrapped(HeldIn(After(both), result), ir))
    BY <1>1, <1>4, <1>17, LoadingSets
  <2>2. After(both).skip = 0 =>
          OfWidth(d.value, ir) /\ Wrapped(HeldIn(After(both), result), ir) = d.value
    BY <1>3, <1>18, <1>20 DEF OfWidth
  <2> HIDE DEF t, ir
  <2>3. After(both).skip = 0 => Quiet(After(both), After(t)) /\ Bears(After(t), t.ret, d.value, ir)
    BY <1>4, <2>1, <2>2, SetsBears
  <2> QED
    BY <2>1, <2>3 DEF Gets
<1> HIDE DEF t
<1>22. Becomes(s, t, d, e)
  BY <1>2, <1>3, <1>19, <1>21, GetsBecomes
<1> QED
  BY <1>0, <1>22 DEF t

LEMMA AssignmentMeaning ==
    ASSUME NEW c \in Meanings, NEW e \in Expressions, e.kind = "AST_ASSIGNMENT",
           e.op = "OP_ASSIGN", NEW g, Speaks(g, e.value),
           NEW d, d = EvaluateAssignment(c, e, g),
           NEW w, w = Wrapped(g[c].value, LLVM[Type[e.name]])
    PROVE  /\ g[c] \in Meanings /\ d \in Meanings /\ w \in Int
           /\ d.memory = [g[c].memory EXCEPT ![e.name] = w] /\ d.sent = g[c].sent
           /\ d.value = w /\ (d.ok => g[c].ok)
           /\ IsMemory(g[c].memory) => IsMemory(d.memory)
           /\ Says(c, d, e)
<1> DEFINE x == g[c]
           n == e.name
           apart == n \notin Writes[e.value]
           p == Provided(x, apart)
<1>1. /\ n \in Names /\ Type[n] \in VariableTypes /\ ~IsLiteral(e)
      /\ HeldAs(e) \in {"none", LLVM[Type[n]]}
  BY OtherFields, DeclaredTypes DEF IsLiteral, HeldAs
<1>2. x \in Meanings /\ Says(c, x, e.value)
  BY SpeaksMeans
<1>3. d = Holding(p, n, p.value)
  BY DEF EvaluateAssignment
<1>4. apart \in BOOLEAN
  OBVIOUS
<1> HIDE DEF apart
<1>5. /\ p \in Meanings /\ p.value = x.value /\ p.memory = x.memory /\ p.sent = x.sent
      /\ (p.ok => x.ok) /\ p.value \in Int
  <2> HIDE DEF x
  <2>1. /\ p \in Meanings /\ p.value = x.value /\ p.memory = x.memory /\ p.sent = x.sent
        /\ (p.ok => x.ok)
    BY <1>2, <1>4, ProvidedFields
  <2> HIDE DEF p
  <2> QED
    BY <2>1, MeaningFields
<1> HIDE DEF p
<1>6. /\ d \in Meanings /\ d.type = Type[n]
      /\ d.value = Wrapped(p.value, LLVM[Type[n]]) /\ d.value \in Int
      /\ d.memory = [p.memory EXCEPT ![n] = d.value] /\ d.sent = p.sent
      /\ d.ok = p.ok /\ (IsMemory(p.memory) => IsMemory(d.memory))
  BY <1>1, <1>3, <1>5, HoldingFields
<1> HIDE DEF n, x
<1>7. d.value = w /\ (d.ok => x.ok)
  BY <1>5, <1>6 DEF x, n
<1>8. LLVM[Type[n]] = "i64" <=> Type[n] = "long"
  BY <1>1 DEF VariableTypes, LLVM
<1>9. Says(c, d, e)
  BY <1>1, <1>2, <1>6, <1>7, <1>8 DEF Says
<1> QED
  BY <1>2, <1>5, <1>6, <1>7, <1>9 DEF x, n

\* A value is stored in a variable, as C stores it.
LEMMA VariableStored ==
    ASSUME NEW s, NEW t, Goes(s, t), NEW x, Runs(t, x),
           NEW a \in Expressions, NEW n \in Names,
           Converts(a), HeldAs(a) # "i1", HeldAs(a) # "none" => t.ret <= t.temp,
           After(t).skip = 0 => Yields(t, a, x.value),
           NEW u, u = Stored(t, a, Type[n], Variable(n)),
           NEW w, w = Wrapped(x.value, LLVM[Type[n]]),
           NEW d, d.memory = [x.memory EXCEPT ![n] = w], d.sent = x.sent,
           IsMemory(x.memory) => IsMemory(d.memory)
    PROVE  /\ Goes(s, u) /\ (~IsLiteral(a) => u.ret <= u.temp)
           /\ After(t).skip = 0 =>
                /\ Reads(After(u), d)
                /\ ~IsLiteral(a) => RegisterOf(After(u), u.ret) = w
<1> DEFINE place == Variable(n)
<1>1. /\ place \in Places /\ After(t).skip \in 0 .. t.label /\ Type[n] \in VariableTypes
      /\ \A r \in Int : r <= s.temp => place # Slot(r)
      /\ x \in Meanings /\ x.value \in Int
  <2>1. \A r \in Int : place # Slot(r)
    BY DEF Variable, Slot
  <2> QED
    BY <2>1, PlacesArePlaces, DeclaredTypes, MeaningFields DEF Runs
<1>2. u = Stored(t, a, Type[n], place)
  OBVIOUS
<1> HIDE DEF place
<1>3. /\ Goes(s, u) /\ (~IsLiteral(a) => u.ret <= u.temp)
      /\ After(t).skip = 0 =>
           /\ \E m : Quiet(After(t), m) /\ Puts(m, After(u), place, w)
           /\ ~IsLiteral(a) => RegisterOf(After(u), u.ret) = w
  BY <1>1, <1>2, StoredPuts
<1>4. ASSUME After(t).skip = 0 PROVE Reads(After(u), d)
  <2>1. PICK m : Quiet(After(t), m) /\ Puts(m, After(u), place, w)
    BY <1>3, <1>4
  <2>2. Reads(m, x) /\ IsMemory(d.memory)
    BY <1>4, <2>1, QuietReads DEF Runs, Reads
  <2> QED
    BY <1>1, <2>1, <2>2, PutsReads DEF place
<1> QED
  BY <1>3, <1>4

LEMMA AssignmentBecomes ==
    ASSUME NEW s, NEW c, Runs(s, c), NEW e \in Expressions, e.kind = "AST_ASSIGNMENT",
           GuessedRight(e), ConvertedRight(e), NEW f, NEW g, Answers(f, g, e.value),
           NEW d, d = EvaluateAssignment(c, e, g), After(s).skip = 0 => d.ok
    PROVE  Becomes(s, GenerateAssignment(s, e, f), d, e)
<1> DEFINE t == f[s]
           x == g[c]
           n == e.name
           a == e.value
           ir == LLVM[Type[n]]
           w == Wrapped(x.value, ir)
           u == GenerateAssignment(s, e, f)
<1>1. /\ e.op = "OP_ASSIGN" /\ Converts(a) /\ HeldAs(a) # "i1" /\ a \in Expressions
      /\ n \in Names /\ Type[n] \in VariableTypes /\ c \in Meanings
  BY OtherFields, DeclaredTypes DEF GuessedRight, ConvertedRight, Runs
<1>2. /\ x \in Meanings /\ d \in Meanings /\ w \in Int
      /\ d.memory = [x.memory EXCEPT ![n] = w] /\ d.sent = x.sent
      /\ d.value = w /\ (d.ok => x.ok)
      /\ IsMemory(x.memory) => IsMemory(d.memory)
  <2>1. Speaks(g, a)
    BY DEF Answers
  <2> QED
    BY <1>1, <2>1, AssignmentMeaning
<1>3. u = Stored(t, a, Type[n], Variable(n))
  BY <1>1 DEF GenerateAssignment
<1>4. HeldAs(e) = (IF ~IsLiteral(a) THEN ir ELSE "none") /\ ~IsLiteral(e)
  BY <1>1 DEF HeldAs, IsLiteral
<1>5. ir # "i1" /\ OfWidth(w, ir)
  BY <1>1, <1>2, WideTypes, VariablesAreValues, MeaningFields, WrappedIsOfWidth
<1>6. /\ Comes(s, t, x) /\ Runs(t, x) /\ Goes(s, t)
      /\ After(t).skip = 0 <=> After(s).skip = 0
      /\ HeldAs(a) # "none" => t.ret <= t.temp
      /\ After(t).skip = 0 => Yields(t, a, x.value)
  BY <1>2, AnswersBecome DEF Becomes
<1> HIDE DEF t, u, x
<1>7. /\ Goes(s, u) /\ (~IsLiteral(a) => u.ret <= u.temp)
      /\ After(t).skip = 0 => /\ Reads(After(u), d)
                              /\ ~IsLiteral(a) => RegisterOf(After(u), u.ret) = w
  <2> HIDE DEF n, a
  <2>1. w = Wrapped(x.value, LLVM[Type[n]])
    OBVIOUS
  <2> HIDE DEF w
  <2> QED
    BY <1>1, <1>2, <1>3, <1>6, <2>1, VariableStored
<1>8. Comes(s, u, d)
  BY <1>6, <1>7 DEF Comes
<1>9. Becomes(s, u, d, e)
  <2> HIDE DEF w, ir, a
  <2>1. HeldAs(e) # "none" => ~IsLiteral(a) /\ HeldAs(e) = ir
    BY <1>4
  <2> QED
    BY <1>2, <1>4, <1>5, <1>6, <1>7, <1>8, <2>1 DEF Becomes, Yields, Bears
<1> QED
  BY <1>9 DEF u

-------------------------------------------------------------------------------
\* Calls.

\* Where the last argument has a meaning, all have one.
LEMMA ArgumentsMean ==
    ASSUME NEW c, NEW n, NEW args, NEW of, NEW b, Meaning(c, n, args, of, b)
    PROVE  /\ \A i \in 0 .. n : b[n].ok => b[i].ok
           /\ IsMemory(c.memory) => IsMemory(b[n].memory)
<1>0. /\ n \in Nat /\ c \in Meanings
      /\ \A i \in 1 .. n : args[i] \in Expressions /\ Speaks(of[i], args[i])
      /\ b \in [0 .. n -> Meanings] /\ b[0] = c
      /\ \A i \in 1 .. n : b[i] = of[i][b[i - 1]]
  BY DEF Meaning
<1> DEFINE Ok(i) == \A j \in 0 .. i : b[i].ok => b[j].ok
           T == {i \in 0 .. n : Ok(i) /\ (IsMemory(c.memory) => IsMemory(b[i].memory))}
<1>1. 0 \in T
  BY <1>0
<1>2. ASSUME NEW i \in 0 + 1 .. n, i - 1 \in T PROVE i \in T
  <2>1. i \in 1 .. n /\ i - 1 \in 0 .. n /\ i \in 0 .. n /\ b[i - 1] \in Meanings
    BY <1>0
  <2>2. Ok(i - 1) /\ (IsMemory(c.memory) => IsMemory(b[i - 1].memory))
    BY <1>2
  <2>3. /\ Says(b[i - 1], b[i], args[i])
        /\ IsMemory(b[i - 1].memory) => IsMemory(b[i].memory)
    BY <1>0, <2>1, SpeaksMeans
  <2>4. b[i].ok => b[i - 1].ok
    BY <2>3 DEF Says
  <2>5. ASSUME NEW j \in 0 .. i, b[i].ok PROVE b[j].ok
    <3>1. CASE j = i
      BY <2>5, <3>1
    <3>2. CASE j # i
      <4>1. j \in 0 .. i - 1
        BY <2>1, <3>2
      <4> QED
        BY <2>2, <2>4, <2>5, <4>1
    <3> QED
      BY <3>1, <3>2
  <2> HIDE DEF Ok
  <2> QED
    BY <2>1, <2>2, <2>3, <2>5 DEF Ok
<1>3. T \in SUBSET (0 .. n)
  OBVIOUS
<1> HIDE DEF T
<1>4. T = 0 .. n
  <2>1. 0 \in Nat /\ 0 <= n
    BY <1>0
  <2> QED
    BY <1>0, <1>1, <1>2, <1>3, <2>1, Stretch
<1>5. n \in T
  BY <1>0, <1>4
<1> QED
  BY <1>5 DEF T

\* The values of all arguments last until the call.
LEMMA ArgumentsRun ==
    ASSUME NEW s, NEW c, Runs(s, c), NEW n, NEW args, NEW f, NEW g, NEW a, NEW b,
           Meaning(c, n, args, g, b), Calling(s, n, f, a),
           \A i \in 1 .. n : Answers(f[i], g[i], args[i]),
           After(s).skip = 0 => b[n].ok
    PROVE  /\ Comes(s, a[n], b[n]) /\ Runs(a[n], b[n])
           /\ After(a[n]).skip = 0 <=> After(s).skip = 0
           /\ \A j \in 1 .. n :
                /\ HeldAs(args[j]) # "none" => a[j].ret <= a[n].temp
                /\ After(s).skip = 0 => Carries(a[n], a[j].ret, args[j], b[j].value)
<1>0. /\ n \in Nat /\ c \in Meanings
      /\ \A i \in 1 .. n : args[i] \in Expressions
      /\ b \in [0 .. n -> Meanings] /\ b[0] = c
      /\ \A i \in 1 .. n : b[i] = g[i][b[i - 1]]
      /\ a \in [0 .. n -> Contexts] /\ a[0] = s
      /\ \A i \in 1 .. n : a[i] = f[i][a[i - 1]]
  BY DEF Meaning, Calling
<1> DEFINE Lasts(i, j) ==
              /\ HeldAs(args[j]) # "none" => a[j].ret <= a[i].temp
              /\ After(s).skip = 0 => Carries(a[i], a[j].ret, args[j], b[j].value)
           Fits0(i) == /\ Comes(s, a[i], b[i]) /\ Runs(a[i], b[i])
                       /\ After(a[i]).skip = 0 <=> After(s).skip = 0
           T == {i \in 0 .. n : Fits0(i) /\ \A j \in 1 .. i : Lasts(i, j)}
<1>1. 0 \in T
  <2>1. Comes(s, s, c)
    BY GoesItself DEF Comes, Runs
  <2>2. Fits0(0)
    BY <1>0, <2>1
  <2>3. \A j \in 1 .. 0 : Lasts(0, j)
    OBVIOUS
  <2> HIDE DEF Fits0, Lasts
  <2> QED
    BY <1>0, <2>2, <2>3
<1>2. ASSUME NEW i \in 0 + 1 .. n, i - 1 \in T PROVE i \in T
  <2> DEFINE t == a[i - 1]
             x == b[i - 1]
             u == a[i]
             y == b[i]
  <2>1. /\ i \in 1 .. n /\ i - 1 \in 0 .. n /\ i \in 0 .. n
        /\ x \in Meanings /\ y \in Meanings /\ t \in Contexts /\ u \in Contexts
    BY <1>0
  <2>2. /\ Comes(s, t, x) /\ Runs(t, x) /\ (After(t).skip = 0 <=> After(s).skip = 0)
        /\ \A j \in 1 .. i - 1 : Lasts(i - 1, j)
    BY <1>2
  <2>3. u = f[i][t] /\ y = g[i][x] /\ Answers(f[i], g[i], args[i])
    BY <1>0, <2>1
  <2>4. After(t).skip = 0 => y.ok
    BY <2>1, <2>2, ArgumentsMean
  <2> HIDE DEF t, x, u, y, Lasts
  <2>5. /\ Becomes(t, u, y, args[i]) /\ Runs(u, y) /\ Goes(t, u)
        /\ After(u).skip = 0 <=> After(t).skip = 0
        /\ HeldAs(args[i]) # "none" => u.ret <= u.temp
        /\ After(u).skip = 0 => Yields(u, args[i], y.value)
    BY <2>2, <2>3, <2>4, AnswersBecome
  <2>6. Comes(s, u, y)
    BY <2>1, <2>2, <2>5, ComesTransitive DEF Becomes
  <2>7. Fits0(i)
    BY <2>2, <2>5, <2>6 DEF u, y
  <2>8. ASSUME NEW j \in 1 .. i PROVE Lasts(i, j)
    <3>1. CASE j = i
      BY <2>2, <2>5, <3>1 DEF Lasts, Carries, Yields, u, y
    <3>2. CASE j # i
      <4> DEFINE r == a[j].ret
                 type == HeldAs(args[j])
                 v == b[j].value
      <4>1. j \in 1 .. i - 1 /\ j \in 0 .. n
        <5> HIDE DEF r, type, v
        <5>1. n \in Nat /\ i \in 1 .. n /\ j \in 1 .. i
          BY <1>0, <2>1
        <5> QED
          BY <3>2, <5>1
      <4>2. r \in Int
        BY <1>0, <4>1, ContextFields
      <4>3. /\ type # "none" => r <= t.temp
            /\ After(s).skip = 0 => /\ IsLiteral(args[j]) => r = v
                                    /\ type # "none" => Bears(After(t), r, v, type)
        <5>1. Lasts(i - 1, j)
          BY <2>2, <4>1
        <5> QED
          BY <5>1 DEF Lasts, Carries, t
      <4> HIDE DEF r, type, v
      <4>4. type # "none" => r <= u.temp
        BY <2>1, <2>5, <4>2, <4>3, ContextFields DEF Goes
      <4>5. After(s).skip = 0 /\ type # "none" => Bears(After(u), r, v, type)
        BY <2>5, <4>2, <4>3, StillBears
      <4> QED
        BY <4>3, <4>4, <4>5 DEF Lasts, Carries, r, type, v, u
    <3> QED
      BY <3>1, <3>2
  <2> HIDE DEF Fits0
  <2> QED
    BY <2>1, <2>7, <2>8
<1>3. T \in SUBSET (0 .. n)
  OBVIOUS
<1> HIDE DEF T
<1>4. T = 0 .. n
  <2>1. 0 \in Nat /\ 0 <= n
    BY <1>0
  <2> QED
    BY <1>0, <1>1, <1>2, <1>3, <2>1, Stretch
<1>5. n \in T
  BY <1>0, <1>4
<1> QED
  BY <1>5 DEF T

\* Arguments that are not widened are passed as they are.
LEMMA PassedKeeps ==
    ASSUME NEW n \in Nat, NEW a \in [0 .. n -> Contexts], NEW args, NEW params, NEW p,
           p = ArgumentsPassed(a, n, args, params),
           \A i \in 1 .. n : /\ args[i] \in Expressions
                             /\ Widens(args[i], params[i]) => IsLiteral(args[i])
    PROVE  /\ p[n] \in Contexts /\ p[n].temp = a[n].temp /\ p[n].label = a[n].label
           /\ p[n].code = a[n].code
           /\ \A i \in 1 .. n : p[i].ret = a[i].ret
<1>1. /\ p \in [0 .. n -> Contexts] /\ p[0] = a[n]
      /\ \A i \in 1 .. n : p[i] = Passing(p[i - 1], args[i], params[i], a[i].ret)
  BY ArgumentsPassedUnfolds
<1>2. \A i \in 1 .. n : p[i] = Returning(p[i - 1], a[i].ret)
  BY <1>1 DEF Passing
<1>3. ASSUME NEW i \in 1 .. n
      PROVE  /\ p[i] \in Contexts /\ p[i].ret = a[i].ret
             /\ p[i].temp = p[i - 1].temp /\ p[i].label = p[i - 1].label
             /\ p[i].code = p[i - 1].code
  <2>1. i \in 0 .. n /\ i - 1 \in 0 .. n
    OBVIOUS
  <2>2. p[i - 1] \in Contexts /\ a[i].ret \in Int
    BY <1>1, <2>1, ContextFields
  <2> DEFINE q == Returning(p[i - 1], a[i].ret)
  <2>3. /\ q \in Contexts /\ q.ret = a[i].ret
        /\ q.temp = p[i - 1].temp /\ q.label = p[i - 1].label /\ q.code = p[i - 1].code
    BY <2>2, ReturningContext
  <2>4. p[i] = q
    BY <1>2
  <2> HIDE DEF q
  <2> QED
    BY <2>3, <2>4
<1> DEFINE T == {i \in 0 .. n : /\ p[i].temp = a[n].temp /\ p[i].label = a[n].label
                                /\ p[i].code = a[n].code}
<1>4. 0 \in T
  BY <1>1
<1>5. ASSUME NEW i \in 0 + 1 .. n, i - 1 \in T PROVE i \in T
  <2>1. i \in 1 .. n /\ i \in 0 .. n
    OBVIOUS
  <2> QED
    BY <1>3, <1>5, <2>1
<1>6. T \in SUBSET (0 .. n)
  OBVIOUS
<1> HIDE DEF T
<1>7. T = 0 .. n
  <2>1. 0 \in Nat /\ 0 <= n
    OBVIOUS
  <2> QED
    BY <1>4, <1>5, <1>6, <2>1, Stretch
<1>8. n \in T
  BY <1>7
<1> QED
  BY <1>1, <1>3, <1>8 DEF T

LEMMA CallTypes ==
    ASSUME NEW e \in Expressions, e.kind = "AST_CALL", NEW n, n = Len(e.args),
           NEW f, f = Function[e.name]
    PROVE  /\ n \in Nat /\ DOMAIN e.args = 1 .. n /\ e.args \in Seq(Expressions)
           /\ \A i \in 1 .. n : e.args[i] \in Expressions
           /\ e.name \in FunctionNames /\ f.params \in Seq(VariableTypes)
           /\ Len(f.params) = n /\ DOMAIN f.params = 1 .. n
           /\ \A i \in 1 .. n : f.params[i] \in VariableTypes
           /\ f.result \in VariableTypes \cup {"void"}
           /\ ~IsLiteral(e)
           /\ HeldAs(e) = IF f.result = "void" THEN "none" ELSE LLVM[f.result]
<1>1. /\ e.name \in FunctionNames /\ e.args \in Seq(Expressions)
      /\ n = Len(Function[e.name].params)
  BY CallFields
<1>2. f.params \in Seq(VariableTypes) /\ f.result \in VariableTypes \cup {"void"}
  BY <1>1, DeclaredTypes
<1>3. ~IsLiteral(e) /\ HeldAs(e) = IF f.result = "void" THEN "none" ELSE LLVM[f.result]
  BY DEF HeldAs, IsLiteral, IsComparison
<1>4. Len(f.params) = n
  BY <1>1
<1> DEFINE args == e.args
           params == f.params
<1>5. args \in Seq(Expressions) /\ params \in Seq(VariableTypes) /\ Len(args) = n /\ Len(params) = n
  BY <1>1, <1>2, <1>4
<1> HIDE DEF args, params
<1>6. /\ n \in Nat /\ DOMAIN args = 1 .. n /\ DOMAIN params = 1 .. n
      /\ \A i \in 1 .. n : args[i] \in Expressions
      /\ \A i \in 1 .. n : params[i] \in VariableTypes
  <2>1. n \in Nat /\ DOMAIN args = 1 .. n /\ \A i \in 1 .. n : args[i] \in Expressions
    BY <1>5
  <2>2. DOMAIN params = 1 .. n /\ \A i \in 1 .. n : params[i] \in VariableTypes
    BY <1>5
  <2> QED
    BY <2>1, <2>2
<1> QED
  BY <1>1, <1>2, <1>3, <1>5, <1>6 DEF args, params

LEMMA CallMeaning ==
    ASSUME NEW c \in Meanings, NEW e \in Expressions, e.kind = "AST_CALL",
           NEW g, \A i \in DOMAIN e.args : Speaks(g[i], e.args[i]),
           NEW d, d = EvaluateCall(c, e, g),
           NEW n, n = Len(e.args), NEW b, b = InTurn(c, n, g),
           NEW f, f = Function[e.name],
           NEW passed, passed = PassedInC(n, f.params, b)
    PROVE  CallMeans(c, e, n, f, g, b, passed, d)
<1> DEFINE args == e.args
           result == f.result
           apart == \A i, j \in 1 .. n : i # j => Unsequenced(e.args[i], e.args[j])
           given == Provided(b[n], apart)
           sent == Append(given.sent, <<e.name, passed>>)
           called == [given EXCEPT !.sent = sent]
           v == Wrapped(Answered(e.name, passed), LLVM[result])
<1>0. d = IF result = "void" THEN called ELSE Having(called, v, result)
  BY DEF EvaluateCall, PassedInC
<1>1. /\ n \in Nat /\ DOMAIN args = 1 .. n
      /\ \A i \in 1 .. n : args[i] \in Expressions
      /\ e.name \in FunctionNames
      /\ \A i \in 1 .. n : f.params[i] \in VariableTypes
      /\ result \in VariableTypes \cup {"void"}
      /\ ~IsLiteral(e)
      /\ HeldAs(e) = IF result = "void" THEN "none" ELSE LLVM[result]
  BY CallTypes
<1>2. apart \in BOOLEAN
  OBVIOUS
<1>3. \A i \in 1 .. n : Speaks(g[i], args[i]) /\ g[i] \in [Meanings -> Meanings]
  BY <1>1 DEF Speaks, Evaluators
<1> HIDE DEF apart, result, args
<1>4. /\ b \in [0 .. n -> Meanings] /\ b[0] = c
      /\ \A i \in 1 .. n : b[i] = g[i][b[i - 1]]
  BY <1>1, <1>3, InTurnUnfolds
<1>5. Meaning(c, n, args, g, b)
  BY <1>1, <1>3, <1>4 DEF Meaning
<1>6. b[n] \in Meanings /\ (b[n].ok => c.ok)
  <2>1. b[n].ok => b[0].ok
    BY <1>1, <1>5, ArgumentsMean
  <2> QED
    BY <1>1, <1>4, <2>1
<1>7. /\ given \in Meanings /\ given.memory = b[n].memory /\ given.sent = b[n].sent
      /\ given.ok => b[n].ok
  <2> DEFINE x == b[n]
  <2> HIDE DEF x
  <2>1. x \in Meanings
    BY <1>6 DEF x
  <2> DEFINE y == Provided(x, apart)
  <2>2. y \in Meanings /\ y.memory = x.memory /\ y.sent = x.sent /\ (y.ok => x.ok)
    BY <1>2, <2>1, ProvidedFields
  <2> QED
    BY <2>2 DEF x
<1> HIDE DEF given
<1>8. passed \in Seq(Int)
  <2>1. ASSUME NEW i \in 1 .. n PROVE Wrapped(b[i].value, LLVM[f.params[i]]) \in Int
    <3>1. i \in 0 .. n
      BY <1>1
    <3>2. b[i].value \in Int
      BY <3>1, <1>4, MeaningFields
    <3>3. LLVM[f.params[i]] \in ValueTypes
      BY <1>1, VariablesAreValues
    <3> QED
      BY <3>2, <3>3, WrappedIsOfWidth DEF OfWidth
  <2>2. passed \in [1 .. n -> Int]
    BY <2>1 DEF PassedInC
  <2> QED
    BY <1>1, <2>2
<1>9. /\ called \in Meanings /\ called.memory = given.memory /\ called.sent = sent
      /\ called.ok = given.ok
  <2> DEFINE call == <<e.name, passed>>
  <2>1. call \in FunctionNames \X Seq(Int)
    BY <1>1, <1>8
  <2>2. sent = Append(given.sent, call)
    OBVIOUS
  <2> HIDE DEF call, sent
  <2>3. sent \in Seq(FunctionNames \X Seq(Int))
    BY <1>7, <2>1, <2>2, MeaningFields
  <2> QED
    BY <1>7, <2>3 DEF Meanings
<1> HIDE DEF sent, called
<1>10. Answered(e.name, passed) \in Int
  BY <1>8 DEF Answered
<1>11. /\ d \in Meanings /\ d.memory = called.memory /\ d.sent = called.sent
       /\ d.ok => called.ok
       /\ result # "void" => d.value = v /\ d.type = result
  <2>1. CASE result = "void"
    BY <1>0, <1>9, <2>1
  <2>2. CASE result # "void"
    <3>1. result \in VariableTypes
      BY <1>1, <2>2
    <3>2. v \in Int
      BY <1>10, <3>1, VariablesAreValues, WrappedIsOfWidth DEF OfWidth
    <3> HIDE DEF v
    <3> QED
      BY <1>0, <1>9, <2>2, <3>1, <3>2, HavingFields
  <2> QED
    BY <2>1, <2>2
<1>12. Says(c, d, e)
  <2>1. result \in VariableTypes => (LLVM[result] = "i64" <=> result = "long")
    BY DEF VariableTypes, LLVM
  <2> QED
    BY <1>1, <1>6, <1>7, <1>9, <1>11, <2>1 DEF Says
<1> QED
  <2>1. /\ Meaning(c, n, e.args, g, b) /\ d.sent = Append(b[n].sent, <<e.name, passed>>)
        /\ f.result # "void" => /\ Answered(e.name, passed) \in Int
                               /\ d.value = Wrapped(Answered(e.name, passed), LLVM[f.result])
    BY <1>5, <1>7, <1>9, <1>10, <1>11 DEF args, result, sent
  <2>2. /\ b[n] \in Meanings /\ d \in Meanings /\ d.memory = b[n].memory /\ (d.ok => b[n].ok)
    BY <1>6, <1>7, <1>9, <1>11, Zenon
  <2> QED
    BY <1>12, <2>1, <2>2, ZenonT(30) DEF CallMeans

\* An argument is passed as C passes it.
LEMMA ArgumentGives ==
    ASSUME NEW t, NEW a \in Expressions, NEW param \in VariableTypes, Passes(a, param),
           Widens(a, param) => IsLiteral(a), NEW r \in Int, NEW v \in Int,
           NEW type, type = IF Widens(a, param) THEN "i64" ELSE LLVM[get_expression_type[a]]
    PROVE  /\ type = LLVM[param] /\ type \in ValueTypes
           /\ Carries(t, r, a, v) =>
                ValueOf(After(t), type, LiteralOr(a, r)) = Wrapped(v, LLVM[param])
<1>1. type = LLVM[param] /\ LLVM[param] \in ValueTypes /\ LLVM[param] \in Wide
  BY WideTypes DEF Passes, Widens
<1>2. ASSUME Carries(t, r, a, v)
      PROVE  ValueOf(After(t), type, LiteralOr(a, r)) = Wrapped(v, LLVM[param])
  <2>1. CASE IsLiteral(a)
    BY <1>1, <1>2, <2>1, LiteralFields, OperandsGive DEF Carries
  <2>2. CASE ~IsLiteral(a)
    <3>1. HeldAs(a) # "none" /\ HeldAs(a) = LLVM[param]
      BY <1>1, <2>2, ConvertsHeld DEF Passes
    <3>2. OfWidth(v, LLVM[param]) /\ RegisterOf(After(t), r) = v
      BY <1>1, <1>2, <3>1, WideTypes DEF Carries, Bears
    <3> QED
      BY <2>2, <3>2, LiteralFields, OperandsGive DEF OfWidth
  <2> QED
    BY <2>1, <2>2
<1> QED
  BY <1>1, <1>2

\* Sending what the arguments are calls the function as C does.
LEMMA SendingCalls ==
    ASSUME NEW s, NEW t, NEW x, Goes(s, t), Runs(t, x), NEW i \in Instructions,
           Defines(i) => i.to > s.temp, NEW values, Sends(t, i, values),
           NEW d, d.memory = x.memory, d.sent = Append(x.sent, <<i.name, values>>)
    PROVE  /\ Goes(s, Emit(t, i))
           /\ After(t).skip = 0 =>
                /\ Reads(After(Emit(t, i)), d)
                /\ i.type # "void" =>
                     RegisterOf(After(Emit(t, i)), i.to)
                       = Wrapped(Answered(i.name, values), Result(i))
<1> DEFINE m == After(t)
           o == After(Emit(t, i))
<1>0. /\ i.op = "call" /\ DOMAIN i.args = DOMAIN values
      /\ values = [k \in DOMAIN values |-> values[k]]
      /\ m.skip = 0 =>
           \A k \in DOMAIN values : ValueOf(m, i.args[k][1], i.args[k][2]) = values[k]
  BY DEF Sends
<1>1. Goes(s, Emit(t, i))
  BY <1>0, EmittingGoes
<1>2. o = Step(m, i) /\ Machine(m)
  BY MachineOfEmitted, MachineOfContext DEF Runs
<1> HIDE DEF m, o
<1>3. ASSUME m.skip = 0
      PROVE  /\ Reads(o, d)
             /\ i.type # "void" =>
                  RegisterOf(o, i.to) = Wrapped(Answered(i.name, values), Result(i))
  <2>1. o = Called(m, i)
    BY <1>0, <1>2, <1>3, StepExecutes, ExecutedBy
  <2>2. Sent(m, i) = values
    <3>1. \A k \in DOMAIN values : ValueOf(m, i.args[k][1], i.args[k][2]) = values[k]
      BY <1>0, <1>3
    <3>2. Sent(m, i) = [k \in DOMAIN values |-> ValueOf(m, i.args[k][1], i.args[k][2])]
      BY <1>0 DEF Sent
    <3> QED
      BY <1>0, <3>1, <3>2
  <2>3. /\ o.values = IF i.type = "void" THEN m.values
                      ELSE Given(m.values, i.to, Wrapped(Answered(i.name, values), Result(i)))
        /\ o.memory = m.memory /\ o.skip = m.skip
        /\ o.sent = Append(m.sent, <<i.name, values>>)
    <3> DEFINE q == Called(m, i)
               sent == Sent(m, i)
    <3>1. /\ q.values = IF i.type = "void" THEN m.values
                        ELSE Given(m.values, i.to, Wrapped(Answered(i.name, sent), Result(i)))
          /\ q.memory = m.memory /\ q.skip = m.skip
          /\ q.sent = Append(m.sent, <<i.name, sent>>)
      BY <1>2, CalledFields
    <3>2. q = o /\ sent = values
      BY <2>1, <2>2
    <3> HIDE DEF q, sent
    <3> QED
      BY <3>1, <3>2
  <2>4. Reads(m, x)
    BY <1>3 DEF Runs, m
  <2>5. Reads(o, d)
    BY <2>3, <2>4 DEF Reads, HeldIn
  <2>6. i.type # "void" =>
          RegisterOf(o, i.to) = Wrapped(Answered(i.name, values), Result(i))
    BY <2>3, GivenThere DEF RegisterOf
  <2> QED
    BY <2>5, <2>6
<1> QED
  BY <1>1, <1>3 DEF m, o

LEMMA CallingUnfolds ==
    ASSUME NEW s \in Contexts, NEW n \in Nat, NEW h,
           \A i \in 1 .. n : h[i] \in [Contexts -> Contexts]
    PROVE  InTurn(s, n, h) \in [0 .. n -> Contexts] /\ Calling(s, n, h, InTurn(s, n, h))
BY InTurnUnfolds DEF Calling

LEMMA CallBecomes ==
    ASSUME NEW s, NEW c, Runs(s, c), NEW e \in Expressions, e.kind = "AST_CALL",
           GuessedRight(e), ConvertedRight(e), NEW h, NEW g,
           \A i \in DOMAIN e.args : Answers(h[i], g[i], e.args[i]),
           NEW d, d = EvaluateCall(c, e, g), After(s).skip = 0 => d.ok
    PROVE  Becomes(s, GenerateCall(s, e, h), d, e)
<1> DEFINE n == Len(e.args)
           f == Function[e.name]
           args == e.args
           params == f.params
           result == f.result
           a == InTurn(s, n, h)
           b == InTurn(c, n, g)
           p == ArgumentsPassed(a, n, args, params)
           t == p[n]
           x == b[n]
           type(i) == IF Widens(args[i], params[i]) THEN "i64"
                      ELSE LLVM[get_expression_type[args[i]]]
           sending == [i \in 1 .. n |-> <<type(i), LiteralOr(args[i], p[i].ret)>>]
           none == Returning(Emit(t, Send(0, "void", e.name, sending)), -1)
           some == Defining(t, Send(Fresh(t), LLVM[result], e.name, sending))
           u == GenerateCall(s, e, h)
           values == PassedInC(n, params, b)
<1>0. u = IF result = "void" THEN none ELSE some
  BY DEF GenerateCall
<1>1. /\ n \in Nat /\ DOMAIN args = 1 .. n
      /\ \A i \in 1 .. n : args[i] \in Expressions
      /\ e.name \in FunctionNames
      /\ \A i \in 1 .. n : params[i] \in VariableTypes
      /\ result \in VariableTypes \cup {"void"}
      /\ ~IsLiteral(e)
      /\ HeldAs(e) = IF result = "void" THEN "none" ELSE LLVM[result]
  BY CallTypes
<1>2. \A i \in 1 .. n : /\ Answers(h[i], g[i], args[i]) /\ Passes(args[i], params[i])
                        /\ Widens(args[i], params[i]) => IsLiteral(args[i])
  BY <1>1 DEF GuessedRight, ConvertedRight
<1>3. /\ Meaning(c, n, args, g, b) /\ x \in Meanings
      /\ d \in Meanings /\ d.memory = x.memory
      /\ d.sent = Append(x.sent, <<e.name, values>>)
      /\ d.ok => x.ok
      /\ result # "void" => /\ Answered(e.name, values) \in Int
                            /\ d.value = Wrapped(Answered(e.name, values), LLVM[result])
  <2>1. \A i \in DOMAIN e.args : Speaks(g[i], e.args[i])
    BY DEF Answers
  <2>2. c \in Meanings
    BY DEF Runs
  <2> HIDE DEF n, f, b, values
  <2>3. n = Len(e.args) /\ f = Function[e.name] /\ b = InTurn(c, n, g)
        /\ values = PassedInC(n, f.params, b)
    BY DEF n, f, b, values
  <2>4. /\ Meaning(c, n, e.args, g, b) /\ b[n] \in Meanings
        /\ d \in Meanings /\ d.memory = b[n].memory
        /\ d.sent = Append(b[n].sent, <<e.name, values>>)
        /\ d.ok => b[n].ok
        /\ f.result # "void" => /\ Answered(e.name, values) \in Int
                                /\ d.value = Wrapped(Answered(e.name, values), LLVM[f.result])
        /\ Says(c, d, e)
    <3> HIDE DEF x, args, params, result, a, p, t, type, sending, none, some, u
    <3>1. CallMeans(c, e, n, f, g, b, values, d)
      BY <2>1, <2>2, <2>3, CallMeaning
    <3> QED
      BY <3>1 DEF CallMeans
  <2> QED
    BY <2>4
<1> HIDE DEF n, f, args, params, result, b, values, u
<1>4. a \in [0 .. n -> Contexts] /\ Calling(s, n, h, a)
  <2>1. \A i \in 1 .. n : h[i] \in [Contexts -> Contexts]
    BY <1>2 DEF Answers
  <2>2. s \in Contexts
    BY DEF Runs
  <2>3. n \in Nat /\ \A i \in 1 .. n : h[i] \in [Contexts -> Contexts]
    BY <1>1, <2>1
  <2> QED
    BY <2>2, <2>3, CallingUnfolds
<1> HIDE DEF a
<1>5. /\ Comes(s, a[n], x) /\ Runs(a[n], x)
      /\ After(a[n]).skip = 0 <=> After(s).skip = 0
      /\ \A j \in 1 .. n :
           After(s).skip = 0 => Carries(a[n], a[j].ret, args[j], b[j].value)
  <2>1. Meaning(c, n, args, g, b) /\ Calling(s, n, h, a)
    BY <1>3, <1>4
  <2>2. \A i \in 1 .. n : Answers(h[i], g[i], args[i])
    BY <1>2
  <2>3. After(s).skip = 0 => b[n].ok
    BY <1>3
  <2> HIDE DEF x
  <2>4. /\ Comes(s, a[n], b[n]) /\ Runs(a[n], b[n])
        /\ After(a[n]).skip = 0 <=> After(s).skip = 0
        /\ \A j \in 1 .. n :
             /\ HeldAs(args[j]) # "none" => a[j].ret <= a[n].temp
             /\ After(s).skip = 0 => Carries(a[n], a[j].ret, args[j], b[j].value)
    BY <2>1, <2>2, <2>3, ArgumentsRun
  <2> QED
    BY <2>4 DEF x
<1>6. /\ t \in Contexts /\ t.temp = a[n].temp /\ t.label = a[n].label /\ t.code = a[n].code
      /\ \A i \in 1 .. n : p[i].ret = a[i].ret
  BY <1>1, <1>2, <1>4, PassedKeeps
<1> HIDE DEF p
<1>7. /\ After(t) = After(a[n]) /\ Goes(s, t) /\ Runs(t, x) /\ s.temp <= t.temp
      /\ a[n] \in Contexts
  <2> HIDE DEF t, x
  <2>1. a[n] \in Contexts /\ Goes(s, a[n])
    BY <1>5 DEF Comes, Goes
  <2>2. After(t) = After(a[n])
    BY <1>6, MachineOfCode
  <2>3. Goes(s, t)
    BY <1>6, <2>1, <2>2 DEF Goes
  <2>4. Runs(t, x)
    BY <1>5, <1>6, <2>2 DEF Runs
  <2> QED
    BY <2>1, <2>2, <2>3, <2>4 DEF Goes
<1>8. ASSUME NEW i \in 1 .. n
      PROVE  /\ p[i].ret \in Int /\ LiteralOr(args[i], p[i].ret) \in IROperands
             /\ type(i) \in IRTypes
             /\ After(t).skip = 0 =>
                  ValueOf(After(t), type(i), LiteralOr(args[i], p[i].ret)) = values[i]
  <2> DEFINE r == p[i].ret
             v == b[i].value
             k == type(i)
             param == params[i]
             arg == args[i]
  <2>1. i \in 0 .. n /\ arg \in Expressions /\ param \in VariableTypes
    BY <1>1
  <2>2. r \in Int /\ v \in Int /\ r = a[i].ret
    BY <1>3, <1>4, <1>6, <2>1, ContextFields, MeaningFields DEF Meaning
  <2>3. After(t).skip = 0 => Carries(a[n], r, arg, v)
    BY <1>5, <1>7, <2>2
  <2>4. Passes(arg, param) /\ (Widens(arg, param) => IsLiteral(arg))
    BY <1>2
  <2>5. k = IF Widens(arg, param) THEN "i64" ELSE LLVM[get_expression_type[arg]]
    OBVIOUS
  <2>6. values[i] = Wrapped(v, LLVM[param])
    BY DEF values, PassedInC
  <2> HIDE DEF r, v, k, param, arg, t
  <2>7. /\ k \in ValueTypes /\ LiteralOr(arg, r) \in IROperands
        /\ Carries(a[n], r, arg, v) =>
             ValueOf(After(a[n]), k, LiteralOr(arg, r)) = Wrapped(v, LLVM[param])
    BY <2>1, <2>2, <2>4, <2>5, ArgumentGives, LiteralFields
  <2>8. k \in IRTypes
    BY <2>7 DEF IRTypes
  <2> QED
    BY <1>7, <2>2, <2>3, <2>6, <2>7, <2>8 DEF r, v, k, param, arg
<1> HIDE DEF type
<1>9. /\ sending \in Seq(IRTypes \X IROperands) /\ DOMAIN sending = 1 .. n
      /\ After(t).skip = 0 =>
           \A k \in 1 .. n : ValueOf(After(t), sending[k][1], sending[k][2]) = values[k]
  <2>1. sending \in [1 .. n -> IRTypes \X IROperands]
    BY <1>8
  <2>2. \A k \in 1 .. n : /\ sending[k][1] = type(k)
                          /\ sending[k][2] = LiteralOr(args[k], p[k].ret)
    OBVIOUS
  <2> HIDE DEF sending, t
  <2>3. sending \in Seq(IRTypes \X IROperands) /\ DOMAIN sending = 1 .. n
    BY <1>1, <2>1
  <2> QED
    BY <1>8, <2>2, <2>3
<1>10. values = [k \in 1 .. n |-> values[k]] /\ DOMAIN values = 1 .. n
  BY DEF values, PassedInC
<1> HIDE DEF sending, t, x
<1>11. CASE result = "void"
  <2> DEFINE to == 0
             kind == "void"
             i == Send(to, kind, e.name, sending)
  <2>1. to \in Int /\ kind \in IRTypes /\ kind = "void"
    BY DEF IRTypes
  <2>2. u = Returning(Emit(t, i), -1)
    BY <1>0, <1>11
  <2> HIDE DEF to, kind
  <2>3. /\ i \in Instructions /\ i.op = "call" /\ i.args = sending /\ i.name = e.name
        /\ ~Defines(i)
    BY <1>1, <1>9, <2>1, SendFields DEF Send
  <2> HIDE DEF i
  <2>4. /\ Goes(s, Emit(t, i))
        /\ After(t).skip = 0 => Reads(After(Emit(t, i)), d)
    <3>1. d.sent = Append(x.sent, <<i.name, values>>)
      BY <1>3, <2>3
    <3>2. Sends(t, i, values)
      BY <1>9, <1>10, <2>3 DEF Sends
    <3> QED
      BY <1>3, <1>7, <2>3, <3>1, <3>2, SendingCalls
  <2> DEFINE w == Emit(t, i)
  <2> HIDE DEF w
  <2>5. /\ Goes(s, w) /\ w \in Contexts /\ -1 \in Int
        /\ After(t).skip = 0 => Reads(After(w), d)
    BY <2>4 DEF w, Goes
  <2>6. Goes(w, Returning(w, -1)) /\ After(Returning(w, -1)) = After(w)
    BY <2>5, ReturningGoes
  <2>7. Goes(s, u) /\ After(u) = After(w)
    BY <2>2, <2>5, <2>6, GoesTransitive DEF w
  <2>8. HeldAs(e) = "none"
    BY <1>1, <1>11
  <2> QED
    BY <1>1, <1>5, <1>7, <2>5, <2>7, <2>8 DEF Becomes, Comes, Yields, u
<1>12. CASE result # "void"
  <2> DEFINE kind == LLVM[result]
             to == Fresh(t)
             i == Send(to, kind, e.name, sending)
             w == Emit(get_next_temp(t), i)
  <2>1. kind \in IRTypes /\ kind # "void" /\ kind \in Wide /\ kind \in ValueTypes /\ kind # "i1"
    BY <1>1, <1>12, WideTypes DEF LLVM, IRTypes, ValueTypes, VariableTypes
  <2>2. u = Returning(w, to)
    BY <1>0, <1>12 DEF Defining
  <2>3. to \in Int /\ to = t.temp + 1 /\ to > s.temp
    BY <1>6, <1>7, ContextFields DEF Fresh, Goes
  <2> HIDE DEF kind, to
  <2>4. /\ i \in Instructions /\ i.op = "call" /\ i.args = sending /\ i.name = e.name
        /\ i.type # "void" /\ Result(i) = kind /\ i.to = to
    BY <1>1, <1>9, <2>1, <2>3, SendFields DEF Send
  <2> HIDE DEF i
  <2> DEFINE y == get_next_temp(t)
  <2>5. /\ y \in Contexts /\ y.code = t.code /\ y.temp = to /\ y.label = t.label
    BY <1>6, <2>3, CountContext
  <2> HIDE DEF y
  <2>6. After(y) = After(t) /\ Goes(s, y) /\ Runs(y, x)
    <3>1. After(y) = After(t) /\ Goes(t, y)
      BY <1>6, <2>3, <2>5, CountingGoes, ContextFields
    <3> QED
      BY <1>7, <2>5, <3>1, GoesTransitive DEF Runs
  <2>7. /\ Goes(s, w) /\ w.temp = to
        /\ After(t).skip = 0 =>
             /\ Reads(After(w), d)
             /\ RegisterOf(After(w), to) = Wrapped(Answered(e.name, values), kind)
    <3>1. /\ Goes(s, Emit(y, i))
          /\ After(y).skip = 0 =>
               /\ Reads(After(Emit(y, i)), d)
               /\ RegisterOf(After(Emit(y, i)), i.to)
                    = Wrapped(Answered(i.name, values), Result(i))
      <4>1. d.sent = Append(x.sent, <<i.name, values>>) /\ i.to > s.temp
        BY <1>3, <2>3, <2>4
      <4>2. Sends(y, i, values)
        BY <1>9, <1>10, <2>4, <2>6 DEF Sends
      <4> QED
        BY <1>3, <2>4, <2>6, <4>1, <4>2, SendingCalls
    <3>2. Emit(y, i).temp = to
      BY <2>4, <2>5, EmitContext
    <3> QED
      BY <2>4, <2>6, <3>1, <3>2 DEF y
  <2> HIDE DEF w
  <2>8. w \in Contexts
    BY <2>7 DEF Goes
  <2>9. Goes(s, u) /\ After(u) = After(w) /\ u.ret = to /\ u.temp = to
    BY <2>2, <2>3, <2>7, <2>8, ReturningGoes, GoesTransitive
  <2>10. HeldAs(e) = kind
    BY <1>1, <1>12 DEF kind
  <2>11. d.value = Wrapped(Answered(e.name, values), kind) /\ OfWidth(d.value, kind)
    BY <1>3, <1>12, <2>1, WrappedIsOfWidth DEF kind
  <2> QED
    BY <1>1, <1>5, <1>7, <2>1, <2>3, <2>7, <2>9, <2>10, <2>11
       DEF Becomes, Comes, Yields, Bears, u
<1> QED
  BY <1>11, <1>12

-------------------------------------------------------------------------------
\* Every expression, by its parts.

LEMMA LeafSays ==
    ASSUME NEW c \in Meanings, NEW e \in Expressions, NEW v \in Int, NEW type \in VariableTypes,
           \/ (IsLiteral(e) \/ e.kind = "AST_SIZEOF") /\ type = "int"
           \/ e.kind = "AST_IDENTIFIER" /\ type = Type[e.name]
    PROVE  Says(c, Having(c, v, type), e)
<1> DEFINE d == Having(c, v, type)
<1>1. d.type = type /\ (d.ok => c.ok)
  BY HavingFields
<1> HIDE DEF d
<1>2. CASE IsLiteral(e) \/ e.kind = "AST_SIZEOF"
  <2>1. HeldAs(e) = "none" /\ type = "int"
    BY <1>2 DEF HeldAs, IsComparison, IsLiteral
  <2> QED
    BY <1>1, <2>1 DEF Says, d
<1>3. CASE e.kind = "AST_IDENTIFIER"
  <2>1. HeldAs(e) = LLVM[type] /\ ~IsLiteral(e)
    BY <1>3 DEF HeldAs, IsComparison, IsLiteral
  <2>2. LLVM[type] = "i64" <=> type = "long"
    BY DEF VariableTypes, LLVM
  <2> QED
    BY <1>1, <2>1, <2>2 DEF Says, d
<1> QED
  BY <1>2, <1>3

LEMMA EvaluateSays ==
    ASSUME NEW c \in Meanings, NEW e \in Expressions, GuessedRight(e), ConvertedRight(e),
           NEW of, \A p \in PartsOf(e) : Speaks(of[p], p)
    PROVE  Says(c, Evaluate(of, c, e), e)
<1> DEFINE d == Evaluate(of, c, e)
<1>1. CASE IsLiteral(e)
  <2>1. d = Having(c, e.value, "int")
    BY <1>1 DEF Evaluate, IsLiteral
  <2>2. e.value \in Int /\ "int" \in VariableTypes
    BY <1>1, LeafFields DEF VariableTypes
  <2> QED
    BY <1>1, <2>1, <2>2, LeafSays
<1>2. CASE e.kind = "AST_IDENTIFIER"
  <2>1. d = Having(c, c.memory[e.name], Type[e.name])
    BY <1>2 DEF Evaluate, IsLiteral
  <2>2. e.name \in Names /\ c.memory \in [Names -> Int]
    BY <1>2, LeafFields, MeaningFields
  <2>3. c.memory[e.name] \in Int /\ Type[e.name] \in VariableTypes
    BY <2>2, DeclarationsAssumption
  <2> QED
    BY <1>2, <2>1, <2>3, LeafSays
<1>3. CASE e.kind = "AST_BINARY_OP"
  <2>1. Speaks(of[e.left], e.left) /\ Speaks(of[e.right], e.right)
    BY <1>3, BinaryParts
  <2>2. CASE e.op \in Logical
    <3>1. d = EvaluateLogical(c, e, of[e.left], of[e.right])
      BY <1>3, <2>2 DEF Evaluate, IsLiteral
    <3> DEFINE g == of[e.left]
               k == of[e.right]
               on == (g[c].value # 0) = (e.op = "OP_LAND")
    <3>2. on <=> ((g[c].value # 0) = (e.op = "OP_LAND"))
      OBVIOUS
    <3>3. d = EvaluateLogical(c, e, g, k) /\ Speaks(g, e.left) /\ Speaks(k, e.right)
      BY <2>1, <3>1
    <3> HIDE DEF d, on, g, k
    <3>4. Says(c, d, e)
      BY <1>3, <2>2, <3>2, <3>3, LogicalMeaning
    <3> QED
      BY <3>4 DEF d
  <2>3. CASE e.op \notin Logical
    <3>1. d = EvaluateBinary(c, e, of[e.left], of[e.right])
      BY <1>3, <2>3 DEF Evaluate, IsLiteral
    <3> HIDE DEF d
    <3> QED
      BY <1>3, <2>1, <2>3, <3>1, BinaryMeaning DEF d
  <2> QED
    BY <2>2, <2>3
<1>4. CASE e.kind = "AST_UNARY_OP"
  <2>1. CASE e.op \in Increments
    <3>1. d = EvaluateIncrement(c, e)
      BY <1>4, <2>1 DEF Evaluate, IsLiteral
    <3> HIDE DEF d
    <3> QED
      BY <1>4, <2>1, <3>1, IncrementMeaning DEF d
  <2>2. CASE e.op \notin Increments
    <3>1. d = EvaluateUnary(c, e, of[e.operand])
      BY <1>4, <2>2 DEF Evaluate, IsLiteral
    <3>2. Speaks(of[e.operand], e.operand) /\ e.op \in Signs /\ Signed0(e.operand)
      BY <1>4, <2>2, UnaryParts, UnaryFields DEF GuessedRight
    <3> QED
      BY <1>4, <3>1, <3>2, UnarySays
  <2> QED
    BY <2>1, <2>2
<1>5. CASE e.kind = "AST_CONDITIONAL"
  <2>1. d = EvaluateConditional(c, of[e.condition], of[e.true_expr], of[e.false_expr])
    BY <1>5 DEF Evaluate, IsLiteral
  <2>2. /\ Speaks(of[e.condition], e.condition)
        /\ Speaks(of[e.true_expr], e.true_expr) /\ Speaks(of[e.false_expr], e.false_expr)
    BY <1>5, ConditionalParts
  <2> DEFINE g == of[e.condition]
             k1 == of[e.true_expr]
             k2 == of[e.false_expr]
             x == g[c]
             y == IF x.value # 0 THEN k1[x] ELSE k2[x]
             type == usual_arithmetic_conversions(get_expression_type[e.true_expr],
                                                  get_expression_type[e.false_expr])
  <2>3. /\ d = EvaluateConditional(c, g, k1, k2)
        /\ Speaks(g, e.condition) /\ Speaks(k1, e.true_expr) /\ Speaks(k2, e.false_expr)
    BY <2>1, <2>2
  <2>4. y = IF x.value # 0 THEN k1[x] ELSE k2[x]
    OBVIOUS
  <2>5. type = usual_arithmetic_conversions(get_expression_type[e.true_expr],
                                            get_expression_type[e.false_expr])
    OBVIOUS
  <2>6. x = g[c]
    OBVIOUS
  <2> HIDE DEF d, g, k1, k2, x, y, type
  <2>7. Says(c, d, e)
    BY <1>5, <2>3, <2>4, <2>5, <2>6, ConditionalMeaning
  <2> QED
    BY <2>7 DEF d
<1>6. CASE e.kind = "AST_ASSIGNMENT"
  <2>1. d = EvaluateAssignment(c, e, of[e.value])
    BY <1>6 DEF Evaluate, IsLiteral
  <2>2. Speaks(of[e.value], e.value) /\ e.op = "OP_ASSIGN"
    BY <1>6, AssignmentParts DEF ConvertedRight
  <2> HIDE DEF d
  <2> QED
    BY <1>6, <2>1, <2>2, AssignmentMeaning DEF d
<1>7. CASE e.kind = "AST_SIZEOF"
  <2> DEFINE v == Size[get_expression_type[e.operand]]
  <2>1. d = Having(c, v, "int")
    BY <1>7 DEF Evaluate, IsLiteral
  <2>2. get_expression_type[e.operand] \in CTypes
    BY <1>7, OtherFields, ExpressionTypes
  <2>3. v \in Int /\ "int" \in VariableTypes
    BY <2>2 DEF CTypes, VariableTypes, Size
  <2> HIDE DEF v
  <2> QED
    BY <1>7, <2>1, <2>3, LeafSays
<1>8. CASE e.kind = "AST_CALL"
  <2> DEFINE of_args == [i \in DOMAIN e.args |-> of[e.args[i]]]
  <2>1. d = EvaluateCall(c, e, of_args)
    BY <1>8 DEF Evaluate, IsLiteral
  <2>2. \A i \in DOMAIN e.args : Speaks(of_args[i], e.args[i])
    BY <1>8, CallParts
  <2> HIDE DEF of_args, d
  <2> DEFINE n == Len(e.args)
             f == Function[e.name]
             b == InTurn(c, n, of_args)
             passed == PassedInC(n, f.params, b)
  <2>3. n = Len(e.args) /\ f = Function[e.name] /\ b = InTurn(c, n, of_args)
        /\ passed = PassedInC(n, f.params, b)
    OBVIOUS
  <2> HIDE DEF n, f, b, passed
  <2>4. CallMeans(c, e, n, f, of_args, b, passed, d)
    BY <1>8, <2>1, <2>2, <2>3, CallMeaning
  <2> QED
    BY <2>4 DEF CallMeans, d
<1> QED
  BY <1>1, <1>2, <1>3, <1>4, <1>5, <1>6, <1>7, <1>8, Kinds DEF IsLiteral

\* The code of an expression does what C makes of it.
LEMMA GenerateBecomes ==
    ASSUME NEW s, NEW c, Runs(s, c), NEW e \in Expressions, GuessedRight(e), ConvertedRight(e),
           NEW f, NEW g, \A p \in PartsOf(e) : Answers(f[p], g[p], p),
           NEW d, d = Evaluate(g, c, e), After(s).skip = 0 => d.ok
    PROVE  Becomes(s, Generate(f, s, e), d, e)
<1> DEFINE t == Generate(f, s, e)
<1>0. s \in Contexts /\ c \in Meanings
  BY DEF Runs
<1>1. CASE IsLiteral(e)
  <2>1. d = Having(c, e.value, "int") /\ t = Returning(s, e.value)
    BY <1>1 DEF Evaluate, Generate, IsLiteral
  <2> HIDE DEF t
  <2> QED
    BY <1>1, <2>1, LiteralBecomes DEF t
<1>2. CASE e.kind = "AST_IDENTIFIER"
  <2>1. /\ d = Having(c, c.memory[e.name], Type[e.name])
        /\ t = Defining(s, Load(Fresh(s), LLVM[Type[e.name]], Variable(e.name)))
    BY <1>2 DEF Evaluate, Generate, IsLiteral
  <2> HIDE DEF t
  <2> QED
    BY <1>2, <2>1, IdentifierBecomes DEF t
<1>3. CASE e.kind = "AST_BINARY_OP"
  <2>1. Answers(f[e.left], g[e.left], e.left) /\ Answers(f[e.right], g[e.right], e.right)
    BY <1>3, BinaryParts
  <2>2. CASE e.op \in Logical
    <3>1. /\ d = EvaluateLogical(c, e, g[e.left], g[e.right])
          /\ t = GenerateLogical(s, e, f[e.left], f[e.right])
      BY <1>3, <2>2 DEF Evaluate, Generate, IsLiteral
    <3> HIDE DEF t
    <3> QED
      BY <1>3, <2>1, <2>2, <3>1, LogicalBecomes DEF t
  <2>3. CASE e.op \notin Logical
    <3>1. /\ d = EvaluateBinary(c, e, g[e.left], g[e.right])
          /\ t = GenerateBinary(s, e, f[e.left], f[e.right])
      BY <1>3, <2>3 DEF Evaluate, Generate, IsLiteral
    <3> HIDE DEF t
    <3> QED
      BY <1>3, <2>1, <2>3, <3>1, BinaryBecomes DEF t
  <2> QED
    BY <2>2, <2>3
<1>4. CASE e.kind = "AST_UNARY_OP"
  <2>1. CASE e.op \in Increments
    <3>1. d = EvaluateIncrement(c, e) /\ t = GenerateIncrement(s, e)
      BY <1>4, <2>1 DEF Evaluate, Generate, IsLiteral
    <3> HIDE DEF t
    <3> QED
      BY <1>4, <2>1, <3>1, IncrementBecomes DEF t
  <2>2. CASE e.op \notin Increments
    <3>1. d = EvaluateUnary(c, e, g[e.operand]) /\ t = GenerateUnary(s, e, f[e.operand])
      BY <1>4, <2>2 DEF Evaluate, Generate, IsLiteral
    <3>2. /\ Answers(f[e.operand], g[e.operand], e.operand)
          /\ e.op \in Signs /\ Signed0(e.operand)
      BY <1>4, <2>2, UnaryParts, UnaryFields DEF GuessedRight
    <3> HIDE DEF t
    <3> QED
      BY <1>4, <3>1, <3>2, UnaryBecomes DEF t
  <2> QED
    BY <2>1, <2>2
<1>5. CASE e.kind = "AST_CONDITIONAL"
  <2>1. /\ d = EvaluateConditional(c, g[e.condition], g[e.true_expr], g[e.false_expr])
        /\ t = GenerateConditional(s, e, f[e.condition], f[e.true_expr], f[e.false_expr])
    BY <1>5 DEF Evaluate, Generate, IsLiteral
  <2>2. /\ Answers(f[e.condition], g[e.condition], e.condition)
        /\ Answers(f[e.true_expr], g[e.true_expr], e.true_expr)
        /\ Answers(f[e.false_expr], g[e.false_expr], e.false_expr)
    BY <1>5, ConditionalParts
  <2> HIDE DEF t
  <2> QED
    BY <1>5, <2>1, <2>2, ConditionalBecomes DEF t
<1>6. CASE e.kind = "AST_ASSIGNMENT"
  <2>1. d = EvaluateAssignment(c, e, g[e.value]) /\ t = GenerateAssignment(s, e, f[e.value])
    BY <1>6 DEF Evaluate, Generate, IsLiteral
  <2>2. Answers(f[e.value], g[e.value], e.value)
    BY <1>6, AssignmentParts
  <2> HIDE DEF t
  <2> QED
    BY <1>6, <2>1, <2>2, AssignmentBecomes DEF t
<1>7. CASE e.kind = "AST_SIZEOF"
  <2> DEFINE v == Size[get_expression_type[e.operand]]
  <2>1. d = Having(c, v, "int") /\ t = Returning(s, v)
    BY <1>7 DEF Evaluate, Generate, IsLiteral
  <2>2. get_expression_type[e.operand] \in CTypes
    BY <1>7, OtherFields, ExpressionTypes
  <2>3. v \in Int
    BY <2>2 DEF CTypes, VariableTypes, Size
  <2> HIDE DEF v, t
  <2> QED
    BY <1>7, <2>1, <2>3, SizeOfBecomes DEF t
<1>8. CASE e.kind = "AST_CALL"
  <2> DEFINE h == [i \in DOMAIN e.args |-> f[e.args[i]]]
             k == [i \in DOMAIN e.args |-> g[e.args[i]]]
  <2>1. d = EvaluateCall(c, e, k) /\ t = GenerateCall(s, e, h)
    BY <1>8 DEF Evaluate, Generate, IsLiteral
  <2>2. \A i \in DOMAIN e.args : Answers(h[i], k[i], e.args[i])
    BY <1>8, CallParts
  <2> HIDE DEF h, k, t
  <2> QED
    BY <1>8, <2>1, <2>2, CallBecomes DEF t
<1> QED
  BY <1>1, <1>2, <1>3, <1>4, <1>5, <1>6, <1>7, <1>8, Kinds DEF IsLiteral

LEMMA ExpressionsAnswer ==
    ASSUME GuessesAreRight, ConversionsAreRight
    PROVE  \A e \in Expressions : Answers(generate_expression[e], Evaluated[e], e)
<1> DEFINE f == generate_expression
           g == Evaluated
           T == {e \in Expressions : Answers(f[e], g[e], e)}
<1>1. /\ \A e \in Expressions : f[e] \in [Contexts -> Contexts]
      /\ \A e \in Expressions : \A s \in Contexts : f[e][s] = Generate(f, s, e)
  BY GenerateExpressionUnfolds DEF Generators
<1>2. /\ \A e \in Expressions : g[e] \in Evaluators
      /\ \A e \in Expressions : \A c \in Meanings : g[e][c] = Evaluate(g, c, e)
  BY EvaluatedUnfolds
<1> HIDE DEF f, g
<1>3. ASSUME NEW e \in Expressions, \A p \in Expressions : Height[p] < Height[e] => p \in T
      PROVE  e \in T
  <2>1. \A p \in PartsOf(e) : Answers(f[p], g[p], p)
    BY <1>3, PartsAreLower
  <2>2. GuessedRight(e) /\ ConvertedRight(e)
    BY DEF GuessesAreRight, ConversionsAreRight
  <2>3. Speaks(g[e], e)
    <3>1. \A p \in PartsOf(e) : Speaks(g[p], p)
      BY <2>1 DEF Answers
    <3>2. ASSUME NEW c \in Meanings PROVE Says(c, g[e][c], e)
      <4>1. Says(c, Evaluate(g, c, e), e)
        BY <2>2, <3>1, EvaluateSays
      <4> QED
        BY <1>2, <4>1
    <3> QED
      BY <1>2, <3>2 DEF Speaks
  <2>4. ASSUME NEW s, NEW c, Runs(s, c), After(s).skip = 0 => g[e][c].ok
        PROVE  Becomes(s, f[e][s], g[e][c], e)
    <3>1. s \in Contexts /\ c \in Meanings
      BY <2>4 DEF Runs
    <3> DEFINE d == g[e][c]
    <3>2. d = Evaluate(g, c, e) /\ f[e][s] = Generate(f, s, e)
      BY <1>1, <1>2, <3>1
    <3>3. After(s).skip = 0 => d.ok
      BY <2>4
    <3> HIDE DEF d
    <3>4. Becomes(s, Generate(f, s, e), d, e)
      BY <2>1, <2>2, <2>4, <3>2, <3>3, GenerateBecomes
    <3> QED
      BY <3>2, <3>4 DEF d
  <2> QED
    BY <1>1, <2>3, <2>4 DEF Answers
<1> HIDE DEF T
<1>4. Expressions \subseteq T
  BY <1>3, HeightAssumption, HeightInduction
<1> QED
  BY <1>4 DEF T, f, g
-------------------------------------------------------------------------------
\* The statements.

LEMMA BeginningRuns ==
    ASSUME IsMemory(c_memory), memory = c_memory,
           NEW s \in Contexts, s.code = <<>>, s.label \in Nat
    PROVE  Runs(s, Begun) /\ After(s).skip = 0
<1>1. Begun \in Meanings /\ Begun.memory = c_memory /\ Begun.sent = <<>>
  <2>1. <<>> \in Seq(FunctionNames \X Seq(Int))
    OBVIOUS
  <2>2. c_memory \in [Names -> Int]
    BY DEF IsMemory
  <2> QED
    BY <2>1, <2>2 DEF Begun, Meanings, VariableTypes
<1>2. After(s) = Start.machine
  BY RanStarts DEF After
<1>3. /\ After(s).skip = 0 /\ After(s).sent = <<>>
      /\ After(s).memory = [p \in Variables |-> memory[p[2]]]
  BY <1>2 DEF Start
<1> HIDE DEF Begun
<1>4. ASSUME NEW n \in Names PROVE HeldIn(After(s), Variable(n)) = c_memory[n]
  <2>1. Variable(n) \in Variables /\ Variable(n)[2] = n
    BY DEF Variables, Variable
  <2> QED
    BY <1>3, <2>1 DEF HeldIn
<1>5. Reads(After(s), Begun)
  BY <1>1, <1>3, <1>4 DEF Reads
<1> QED
  BY <1>1, <1>3, <1>5 DEF Runs

LEMMA BeginningAnswers ==
    ASSUME GuessesAreRight, ConversionsAreRight, IsMemory(c_memory), memory = c_memory,
           NEW s \in Contexts, s.code = <<>>, s.label \in Nat,
           NEW e \in Expressions, NEW c, c = InC(e), c.ok,
           NEW t, t = generate_expression[e][s]
    PROVE  /\ Goes(s, t) /\ Runs(t, c) /\ t \in Contexts /\ c \in Meanings
           /\ After(t).skip = 0 /\ Reads(After(t), c) /\ Yields(t, e, c.value)
           /\ HeldAs(e) # "none" => t.ret <= t.temp
<1>1. Runs(s, Begun) /\ After(s).skip = 0
  BY BeginningRuns
<1>2. c = Evaluated[e][Begun]
  BY DEF InC, Begun
<1>3. Answers(generate_expression[e], Evaluated[e], e)
  BY ExpressionsAnswer
<1> HIDE DEF Begun
<1>4. /\ Becomes(s, t, c, e) /\ c \in Meanings /\ Runs(t, c) /\ t \in Contexts /\ Goes(s, t)
      /\ After(t).skip = 0 <=> After(s).skip = 0
      /\ HeldAs(e) # "none" => t.ret <= t.temp
      /\ After(t).skip = 0 => Yields(t, e, c.value)
  BY <1>1, <1>2, <1>3, AnswersBecome
<1> QED
  BY <1>1, <1>4 DEF Runs

LEMMA ReadsEnds == \A m, c : Reads(m, c) => Ends(m, c)
BY DEF Reads, Ends

LEMMA DeclarationDoes ==
    ASSUME GuessesAreRight, ConversionsAreRight, IsMemory(c_memory), memory = c_memory,
           Context \in Contexts, label_counter \in Nat,
           NEW k \in DOMAIN Sources, NEW st \in Sources[k].declaration,
           NEW c, c = InC(st.value), NEW d, d = Holding(c, st.name, c.value)
    PROVE  d.ok => Ends(After(DeclarationCode(st)), d)
<1> DEFINE t == generate_expression[st.value][Context]
           u == DeclarationCode(st)
           w == Wrapped(c.value, LLVM[Type[st.name]])
<1>1. st.name \in Names /\ st.value \in Expressions
  BY StatementFields
<1>2. Converts(st.value) /\ HeldAs(st.value) # "i1"
  BY DEF GuessesAreRight, ConversionsAreRight
<1>3. Context.code = <<>> /\ Context.label \in Nat
  BY DEF Context
<1>4. c \in Meanings /\ c.value \in Int
  BY <1>1, InCMeans, MeaningFields
<1>5. /\ d.ok = c.ok /\ d.memory = [c.memory EXCEPT ![st.name] = w] /\ d.sent = c.sent
      /\ IsMemory(c.memory) => IsMemory(d.memory)
  <2>1. /\ d \in Meanings /\ d.type = Type[st.name]
        /\ d.value = Wrapped(c.value, LLVM[Type[st.name]]) /\ d.value \in Int
        /\ d.memory = [c.memory EXCEPT ![st.name] = d.value] /\ d.sent = c.sent
        /\ d.ok = c.ok /\ (IsMemory(c.memory) => IsMemory(d.memory))
    BY <1>1, <1>4, HoldingFields
  <2> QED
    BY <2>1
<1> SUFFICES ASSUME d.ok PROVE Ends(After(u), d)
  BY DEF u
<1>6. /\ Goes(Context, t) /\ Runs(t, c) /\ t \in Contexts
      /\ After(t).skip = 0 /\ Yields(t, st.value, c.value)
      /\ HeldAs(st.value) # "none" => t.ret <= t.temp
  BY <1>1, <1>3, <1>5, BeginningAnswers
<1>7. u = Stored(t, st.value, Type[st.name], Variable(st.name))
  BY DEF DeclarationCode
<1> HIDE DEF t, u, w
<1>8. Reads(After(u), d)
  BY <1>1, <1>2, <1>5, <1>6, <1>7, VariableStored DEF w
<1> QED
  BY <1>8, ReadsEnds

LEMMA ConditionDoes ==
    ASSUME GuessesAreRight, ConversionsAreRight, IsMemory(c_memory), memory = c_memory,
           Context \in Contexts, label_counter \in Nat,
           NEW k \in DOMAIN Sources, NEW st \in Sources[k].condition,
           NEW c, c = InC(st.value), c.ok
    PROVE  /\ Ends(After(ConditionCode(st)), c)
           /\ After(ConditionCode(st)).skip
                = IF c.value # 0 THEN label_counter + 1 ELSE label_counter + 2
<1> DEFINE a == generate_label(Context)
           s == generate_label(a)
           t == generate_expression[st.value][s]
           z == convert_to_boolean(t, st.value)
           yes == label_counter + 1
           no == label_counter + 2
           u == BranchOn(z, yes, no)
           on == c.value # 0
<1>1. st.value \in Expressions /\ Tests0(st.value)
  BY StatementFields DEF GuessesAreRight
<1>2. s \in Contexts /\ s.code = <<>> /\ s.label \in Nat
  <2>1. Context.code = <<>> /\ Context.label = label_counter
    BY DEF Context
  <2>2. a \in Contexts /\ a.code = <<>> /\ a.label \in Nat
    BY <2>1, CountContext
  <2> HIDE DEF a
  <2> QED
    BY <2>2, CountContext
<1> HIDE DEF s
<1>3. /\ t \in Contexts /\ c \in Meanings
      /\ After(t).skip = 0 /\ Reads(After(t), c) /\ Yields(t, st.value, c.value)
      /\ HeldAs(st.value) # "none" => t.ret <= t.temp
  BY <1>1, <1>2, BeginningAnswers
<1>4. c.value \in Int
  BY <1>3, MeaningFields
<1> HIDE DEF t
<1>5. Gets(t, z, Bool(on), "i1")
  BY <1>1, <1>3, <1>4, BooleanGets
<1>6. /\ z \in Contexts /\ Quiet(After(t), After(z))
      /\ Bears(After(z), z.ret, Bool(on), "i1")
  BY <1>3, <1>5 DEF Gets, Goes
<1> HIDE DEF z
<1>7. Reads(After(z), c)
  BY <1>3, <1>6, QuietReads
<1>8. After(z).skip = 0
  BY <1>7 DEF Reads
<1>9. yes \in Int /\ no \in Int
  OBVIOUS
<1> HIDE DEF on, yes, no
<1>10. After(u) = Bound(After(z), IF on THEN yes ELSE no)
  BY <1>6, <1>8, <1>9, BranchingGoes
<1>11. Machine(After(z))
  BY <1>6, MachineOfContext
<1>12. /\ After(u).skip = (IF on THEN yes ELSE no)
       /\ After(u).memory = After(z).memory /\ After(u).sent = After(z).sent
  BY <1>10, <1>11, BoundFields
<1>13. Ends(After(u), c)
  BY <1>7, <1>12 DEF Reads, Ends, HeldIn
<1>14. u = ConditionCode(st)
  BY DEF ConditionCode, yes, no, z, t, s
<1> QED
  BY <1>12, <1>13, <1>14 DEF on, yes, no

LEMMA ReturnDoes ==
    ASSUME GuessesAreRight, ConversionsAreRight, IsMemory(c_memory), memory = c_memory,
           Context \in Contexts, label_counter \in Nat,
           NEW k \in DOMAIN Sources, NEW st \in Sources[k].return,
           NEW c, c = InC(st.value), c.ok
    PROVE  /\ Ends(After(ReturnCode(st)), c)
           /\ After(ReturnCode(st)).told = Wrapped(c.value, LLVM[st.type])
<1> DEFINE t == generate_expression[st.value][Context]
           z == Converted(t, st.value, st.type)
           operand == LiteralOr(st.value, z.ret)
           i == Return(LLVM[st.type], operand)
           u == Emit(z, i)
<1>1. st.type \in VariableTypes /\ st.value \in Expressions
  BY StatementFields
<1>2. Converts(st.value) /\ HeldAs(st.value) # "i1"
  BY DEF GuessesAreRight, ConversionsAreRight
<1>3. Context.code = <<>> /\ Context.label \in Nat
  BY DEF Context
<1>4. u = ReturnCode(st)
  BY DEF ReturnCode
<1>5. /\ t \in Contexts /\ c \in Meanings
      /\ After(t).skip = 0 /\ Reads(After(t), c) /\ Yields(t, st.value, c.value)
      /\ HeldAs(st.value) # "none" => t.ret <= t.temp
  BY <1>1, <1>3, BeginningAnswers
<1>6. c.value \in Int
  BY <1>5, MeaningFields
<1> HIDE DEF t
<1>7. /\ Goes(t, z) /\ Quiet(After(t), After(z))
      /\ ValueOf(After(z), LLVM[st.type], operand) = Wrapped(c.value, LLVM[st.type])
  BY <1>1, <1>2, <1>5, <1>6, ConvertedGets
<1> HIDE DEF z
<1>8. z \in Contexts /\ z.ret \in Int /\ Machine(After(z))
  BY <1>7, ContextFields, MachineOfContext DEF Goes
<1>9. operand \in IROperands /\ LLVM[st.type] \in IRTypes
  BY <1>1, <1>8, LiteralFields, VariablesAreValues DEF IRTypes
<1> HIDE DEF operand
<1>10. /\ i \in Instructions /\ i.op = "ret" /\ i.type = LLVM[st.type] /\ i.left = operand
  BY <1>9, ReturnIsInstruction DEF Return
<1> HIDE DEF i
<1>11. Reads(After(z), c)
  BY <1>5, <1>7, QuietReads
<1>12. After(u) = Executed(After(z), i)
  BY <1>8, <1>10, <1>11, MachineOfEmitted, StepExecutes DEF Reads
<1>13. After(u) = [After(z) EXCEPT !.told = ValueOf(After(z), i.type, i.left)]
  BY <1>10, <1>12, ExecutedBy
<1>14. /\ After(u).told = ValueOf(After(z), i.type, i.left)
       /\ After(u).memory = After(z).memory /\ After(u).sent = After(z).sent
  BY <1>8, <1>13 DEF Machine
<1>15. Ends(After(u), c)
  BY <1>11, <1>14 DEF Reads, Ends, HeldIn
<1> QED
  BY <1>4, <1>7, <1>10, <1>14, <1>15

\* Every step does what C makes of a statement.
LEMMA StepsDo ==
    ASSUME GuessesAreRight, ConversionsAreRight, TypeOK, memory = c_memory, Next
    PROVE  \E s, c, told, said :
              Does(s, c, told, said) /\ Generated(s, Execution(s.code), c, told, said)
<1>0. done \in Nat /\ ended \in BOOLEAN /\ defined \in BOOLEAN /\ IsMemory(c_memory)
  BY SourcesFields DEF TypeOK
<1>1. PICK s, c, told, said : Steps(s, c, told, said)
  BY <1>0, StepsGenerate
<1> DEFINE k == done + 1
           x == Execution(s.code)
<1>2. /\ label_counter \in Nat /\ IsMemory(c_memory) /\ IsMemory(memory)
      /\ Context \in Contexts /\ k \in DOMAIN Sources
  BY <1>1, ContextIsContext DEF TypeOK, Steps
<1>4. s \in Contexts
  BY <1>1, <1>2, NothingClaimed, StatementsLead DEF Steps, Leads
<1>5. c \in Meanings
  BY <1>0, <1>1, StepsMean
<1>6. x.check.faults = {} => After(s).skip = x.machine.skip /\ After(s).told = x.machine.told
  BY <1>4, ContextFields, AcceptedCodeRuns DEF After
<1> SUFFICES ASSUME c.ok, x.check.faults = {} PROVE Ends(After(s), c) /\ told = said
  BY <1>1, <1>4, <1>5, Zenon DEF Does, Steps
<1> HIDE DEF k
<1>7. ASSUME NEW st \in Sources[k].expression,
             s = generate_expression[st.value][Context], c = InC(st.value)
      PROVE  Ends(After(s), c)
  <2>1. st.value \in Expressions /\ Context.code = <<>> /\ Context.label \in Nat
    BY <1>2, StatementFields DEF Context
  <2>2. Reads(After(s), c)
    BY <1>2, <1>7, <2>1, BeginningAnswers
  <2> QED
    BY <2>2, ReadsEnds
<1>8. ASSUME NEW st \in Sources[k].declaration,
             s = DeclarationCode(st), c = Holding(InC(st.value), st.name, InC(st.value).value)
      PROVE  Ends(After(s), c)
  BY <1>2, <1>8, DeclarationDoes
<1>9. ASSUME NEW st \in Sources[k].condition, s = ConditionCode(st), c = InC(st.value)
      PROVE  Ends(After(s), c)
             /\ After(s).skip = IF c.value # 0 THEN label_counter + 1 ELSE label_counter + 2
  BY <1>2, <1>9, ConditionDoes
<1>10. ASSUME NEW st \in Sources[k].return, s = ReturnCode(st), c = InC(st.value)
       PROVE  Ends(After(s), c) /\ After(s).told = Wrapped(c.value, LLVM[st.type])
  BY <1>2, <1>10, ReturnDoes
<1> QED
  BY <1>1, <1>6, <1>7, <1>8, <1>9, <1>10 DEF Steps, k

\* What is generated has the effects and the answers of C.
LEMMA StatementAgrees ==
    ASSUME IsMemory(memory), NEW s, NEW c, NEW told, NEW said, Does(s, c, told, said),
           Generated(s, Execution(s.code), c, told, said), defined', faults' = {}
    PROVE  memory' = c_memory' /\ answer'.ir = answer'.c
<1> DEFINE x == Execution(s.code)
<1>1. s.code \in Seq(Instructions) /\ c.memory \in [Names -> Int]
  BY ContextFields, MeaningFields DEF Does
<1>2. c.ok /\ x.check.faults = {}
  BY DEF Generated
<1>3. Ends(After(s), c) /\ told = said
  BY <1>2 DEF Does
<1>4. x.machine = After(s)
  BY <1>1, <1>2, AcceptedCodeRuns DEF After
<1>5. \A n \in Names : Variable(n) \in DOMAIN x.machine.memory
  BY <1>1, <1>2, ExecutionIsSteady DEF Steady, Holds
<1>6. /\ memory' = [n \in Names |-> x.machine.memory[Variable(n)]] /\ c_memory' = c.memory
      /\ answer' = [ir |-> <<x.machine.sent, told>>, c |-> <<c.sent, said>>]
  BY DEF Generated
<1> HIDE DEF x
<1>7. \A n \in Names : x.machine.memory[Variable(n)] = c.memory[n]
  BY <1>3, <1>4, <1>5 DEF Ends, HeldIn
<1>8. x.machine.sent = c.sent
  BY <1>3, <1>4 DEF Ends
<1> QED
  BY <1>1, <1>3, <1>6, <1>7, <1>8

\* The inductive invariant: a statement begins with what the last one left.
Agreed == TypeOK /\ EffectsAgree /\ AnswersAgree

LEMMA AgreedAfterAStep ==
    ASSUME GuessesAreRight, ConversionsAreRight, Agreed, Next
    PROVE  Agreed'
<1>1. TypeOK /\ TypeOK'
  BY TypesAfterAStep DEF Agreed
<1>2. ASSUME defined', faults' = {}
      PROVE  memory' = c_memory' /\ answer'.ir = answer'.c
  <2>1. Context \in Contexts
    BY <1>1, ContextIsContext DEF TypeOK
  <2>2. done \in Nat /\ label_counter \in Int
    BY <1>1, SourcesFields DEF TypeOK
  <2>3. \E s : Produced(s)
    BY <2>1, <2>2, NothingClaimed, StepsProduce
  <2>4. faults = {}
    BY <1>2, <2>3 DEF Produced
  <2>5. memory = c_memory
    BY <2>4 DEF Next, Agreed, EffectsAgree
  <2>6. PICK s, c, told, said :
           Does(s, c, told, said) /\ Generated(s, Execution(s.code), c, told, said)
    BY <1>1, <2>5, StepsDo
  <2> QED
    BY <1>1, <1>2, <2>6, StatementAgrees DEF TypeOK
<1> QED
  BY <1>1, <1>2 DEF Agreed, EffectsAgree, AnswersAgree

LEMMA AgreedAlways ==
    ASSUME GuessesAreRight, ConversionsAreRight
    PROVE  Spec => []Agreed
<1>1. Init => Agreed
  <2>1. Init => memory = c_memory /\ answer.ir = answer.c
    BY DEF Init
  <2> QED
    BY <2>1, TypesToBeginWith DEF Agreed, EffectsAgree, AnswersAgree
<1>2. Agreed /\ [Next]_vars => Agreed'
  BY AgreedAfterAStep DEF vars, Agreed, TypeOK, EffectsAgree, AnswersAgree
<1> QED
  BY <1>1, <1>2, PTL DEF Spec

\* Where the guesses of the callers and the conversions printed are right, the
\* code of every program leaves every variable as C does.
THEOREM EffectsAgreeAlways ==
    ASSUME GuessesAreRight, ConversionsAreRight
    PROVE  Spec => []EffectsAgree
<1>1. Spec => []Agreed
  BY AgreedAlways
<1>2. Agreed => EffectsAgree
  BY DEF Agreed
<1> QED
  BY <1>1, <1>2, PTL

\* And its conditions go, its returns give and its calls pass what they do in C.
THEOREM AnswersAgreeAlways ==
    ASSUME GuessesAreRight, ConversionsAreRight
    PROVE  Spec => []AnswersAgree
<1>1. Spec => []Agreed
  BY AgreedAlways
<1>2. Agreed => AnswersAgree
  BY DEF Agreed
<1> QED
  BY <1>1, <1>2, PTL
===============================================================================
