-------------------------- MODULE ExprGenRelations --------------------------
(***************************************************************************)
(* What the proofs about ExprGen relate: contexts that follow each other,  *)
(* what LLVM and the machine know of their code, and what C makes of the   *)
(* same expression.  A proof claims of every clause of generate_expression *)
(* that it Delivers a value LLVM accepts, and that it Answers as C does.   *)
(***************************************************************************)
EXTENDS ExprGen

-------------------------------------------------------------------------------
\* The types C gives an expression, and the programs there are.

CTypes == VariableTypes \cup {"void", "_Bool", "size_t"}

\* A program, statement by statement.
Programs == [expression : SUBSET [value : Expressions],
             declaration : SUBSET [name : Names, value : Expressions],
             condition : SUBSET [value : Expressions],
             return : SUBSET [type : VariableTypes, value : Expressions]]

-------------------------------------------------------------------------------
\* What LLVM has accepted of the code in s, and of what comes after it in t.

\* x[k] is what the first k instructions do.
Traces(x, code) ==
    x = [k \in 0 .. Len(code) |-> IF k = 0 THEN Start ELSE Run(x[k - 1], code[k])]
TypesIn(s) == Execution(s.code).check.types
PlacesIn(s) == Execution(s.code).check.places
FaultsIn(s) == Execution(s.code).check.faults
ClashesIn(s) == Execution(s.code).check.clashes

\* Register r, place p and the operand of an instruction are of a type.
Has(s, r, type) == r \in DOMAIN TypesIn(s) /\ TypesIn(s)[r] = type
Declared(s, p, type) == p \in DOMAIN PlacesIn(s) /\ PlacesIn(s)[p] = type
Typed(s, operand, type) == operand[1] = "%t" => Has(s, operand[2], type)

\* Nothing clashes, and the counter is past every register and slot there is.
Tidy(s) ==
    /\ temp_counter \in Int /\ temp_counter <= s.temp
    /\ ClashesIn(s) = {}
    /\ DOMAIN TypesIn(s) \subseteq temp_counter + 1 .. s.temp
    /\ DOMAIN PlacesIn(s) \subseteq Variables \cup {Slot(k) : k \in temp_counter + 1 .. s.temp}
    /\ \A n \in Names : Declared(s, Variable(n), LLVM[Type[n]])

\* Nothing is wrong.
Fine(s) == Tidy(s) /\ FaultsIn(s) = {}

\* t comes after s: what there was is there still, and what is new has a new number.
Keeps(s, t) ==
    /\ \A r \in DOMAIN TypesIn(s) : Has(t, r, TypesIn(s)[r])
    /\ \A r \in DOMAIN TypesIn(t) \ DOMAIN TypesIn(s) : r > s.temp
    /\ \A p \in DOMAIN PlacesIn(s) : Declared(t, p, PlacesIn(s)[p])

\* K is the set of contexts something is claimed of: none, all that are tidy, of
\* whatever program, or all that are fine, of what is understood.
Claimed == {{}, {s \in Contexts : Tidy(s)}, {s \in Contexts : Fine(s)}}
Sure(K) == K # {} /\ \A s \in K : Fine(s)

\* Generating turns s into t.
Leads(s, t, K) ==
    /\ s \in Contexts /\ t \in Contexts
    /\ s.temp <= t.temp /\ s.label <= t.label
    /\ s \in K => t \in K /\ Keeps(s, t)

\* What LLVM asks of the uses an instruction makes of what there is,
Allowed(s, i) ==
    /\ \A use \in Uses(i) : Typed(s, use[2], use[1])
    /\ i.op = "call" => [k \in DOMAIN i.args |-> i.args[k][1]]
                          = [k \in DOMAIN Function[i.name].params |->
                                LLVM[Function[i.name].params[k]]]
\* and what is shown of that: it finds its place.
Permits(s, i, K) ==
    /\ i.op \in {"load", "store"} => Declared(s, i.place, i.type)
    /\ Sure(K) => Allowed(s, i)

\* t comes after s and has its value in a register of a type.
Brings(s, t, K, type) == Leads(s, t, K) /\ (Sure(K) /\ s \in K => Has(t, t.ret, type))

\* The type of what an instruction computes.
ComputedType(op, type) == IF op \in Predicates THEN "i1" ELSE type

\* The value of e is where its callers look for it.
Value(s, e) == HeldAs(e) # "none" => Has(s, s.ret, HeldAs(e))

\* What is claimed is claimed of s.
At(s, K) == s \in Contexts /\ (K # {} \/ Sure(K) => s \in K)

\* f generates e, from every context.
Delivers(f, e, K) ==
    /\ f \in [Contexts -> Contexts]
    /\ \A s \in Contexts : Leads(s, f[s], K) /\ (Sure(K) /\ s \in K => Value(f[s], e))

\* What is shown of a clause that turns s into t.
Generates(s, t, e, K) == Leads(s, t, K) /\ (Sure(K) => Value(t, e))

\* In s the arguments have the types they are passed as, and those f is declared with.
Suits(s, f, args) ==
    /\ \A k \in DOMAIN args : Typed(s, args[k][2], args[k][1])
    /\ [k \in DOMAIN args |-> args[k][1]]
          = [k \in DOMAIN Function[f].params |-> LLVM[Function[f].params[k]]]

-------------------------------------------------------------------------------
\* The arguments of a call, one after the other.

\* a[i] is the context after i of the arguments, from s on.
Generating(s, a, n, args, of_args, K) ==
    /\ \A i \in 1 .. n : Delivers(of_args[i], args[i], K)
    /\ a \in [0 .. n -> Contexts] /\ a[0] = s
    /\ \A i \in 1 .. n : a[i] = of_args[i][a[i - 1]]

\* The values of the arguments are all in t.
AllHeld(t, a, n, args, K) ==
    \A j \in 1 .. n :
       Sure(K) /\ HeldAs(args[j]) # "none" => Has(t, a[j].ret, HeldAs(args[j]))

\* The type an argument is passed as to a parameter.
PassedAs(a, param) ==
    IF Widens(a, param) THEN "i64" ELSE LLVM[get_expression_type[a]]

\* p[i] is the context after i of the arguments have been passed.
PassingAll(after, p, n, args, params, K) ==
    /\ after \in [0 .. n -> Contexts]
    /\ \A i \in 1 .. n : args[i] \in Expressions /\ (Sure(K) => Converts(args[i]))
    /\ p \in [0 .. n -> Contexts] /\ p[0] = after[n]
    /\ \A i \in 1 .. n : p[i] = Passing(p[i - 1], args[i], params[i], after[i].ret)

\* In t all arguments are of the types they are passed as.
AllPassed(t, p, n, args, params, K) ==
    \A j \in 1 .. n :
       Sure(K) /\ ~IsLiteral(args[j]) => Has(t, p[j].ret, PassedAs(args[j], params[j]))

\* What generate_expression is of an expression, at the least.
Generators == {f \in [Contexts -> Contexts] : \A s \in Contexts : Leads(s, f[s], {})}

-------------------------------------------------------------------------------
\* The machine that runs the code, and its values.

\* v is a number of this type.
OfWidth(v, type) == v \in Int /\ Wrapped(v, type) = v

\* c is what the check knows, m what the machine holds.
Types(c) ==
    /\ \A n \in Names : /\ Variable(n) \in DOMAIN c.places
                        /\ c.places[Variable(n)] = LLVM[Type[n]]
    /\ \A r \in DOMAIN c.types : c.types[r] \in ValueTypes
    /\ \A p \in DOMAIN c.places : c.places[p] \in ValueTypes

\* Values are of the types known of them.
ValuesOfTypes(values, types) ==
    \A k \in DOMAIN values : k \in DOMAIN types /\ OfWidth(values[k], types[k])
Machine(m) == m = [values |-> m.values, memory |-> m.memory, skip |-> m.skip,
                   sent |-> m.sent, told |-> m.told]

\* m has the types c knows.
Holds(c, m) ==
    /\ Machine(m)
    /\ Types(c)
    /\ ValuesOfTypes(m.values, c.types)
    /\ ValuesOfTypes(m.memory, c.places)
    /\ \A n \in Names : Variable(n) \in DOMAIN m.memory

\* The variables hold values of their types, and so does all that is accepted.
VariablesHold(m) ==
    \A n \in Names : OfWidth(m.memory[Variable(n)], LLVM[Type[n]])
Steady(x) ==
    /\ VariablesHold(x.machine)
    /\ x.check.faults = {} => Holds(x.check, x.machine)

\* The machine, instruction by instruction, without the check.
Moves(x, code) ==
    x = [k \in 0 .. Len(code) |-> IF k = 0 THEN Start.machine ELSE Step(x[k - 1], code[k])]
Ran(code) ==
    LET x[k \in 0 .. Len(code)] == IF k = 0 THEN Start.machine ELSE Step(x[k - 1], code[k])
    IN  x[Len(code)]

-------------------------------------------------------------------------------
\* What C makes of an expression.

\* d is a meaning c may turn into.
Means(c, d) ==
    /\ c \in Meanings /\ d \in Meanings
    /\ IsMemory(c.memory) => IsMemory(d.memory)

\* What evaluating an expression is, at the least.
Evaluators == {f \in [Meanings -> Meanings] : \A c \in Meanings : Means(c, f[c])}

-------------------------------------------------------------------------------
\* The code in t does what C makes of an expression, after the code in s.

\* The machine once the code in s has run.
After(s) == Ran(s.code)

\* What runs from m to n leaves alone the registers and slots up to t, and all
\* of m while m is on its way to a label up to l.
Spares(t, l, m, n) ==
    /\ m.skip \in 1 .. l => n = m
    /\ \A r \in Int : r <= t => /\ RegisterOf(n, r) = RegisterOf(m, r)
                                /\ HeldIn(n, Slot(r)) = HeldIn(m, Slot(r))

\* Generating turns s into t, and running does not disturb what is in s.
Goes(s, t) ==
    /\ s \in Contexts /\ t \in Contexts
    /\ s.temp <= t.temp /\ s.label <= t.label
    /\ Spares(s.temp, s.label, After(s), After(t))

\* n is m with v in register r.
Sets(m, n, r, v) ==
    /\ Machine(n) /\ n.memory = m.memory /\ n.skip = m.skip /\ n.sent = m.sent
    /\ RegisterOf(n, r) = v
    /\ \A q : q # r => RegisterOf(n, q) = RegisterOf(m, q)

\* Nothing C knows of happens from m to n.
Quiet(m, n) == n.memory = m.memory /\ n.skip = m.skip /\ n.sent = m.sent

\* Register r holds the number v of a type, a true i1 as -1.
Bears(m, r, v, type) ==
    IF type = "i1" THEN v \in {0, 1} /\ RegisterOf(m, r) = -v
    ELSE OfWidth(v, type) /\ RegisterOf(m, r) = v

\* The types of registers that hold numbers.
Wide == {"i8", "i32", "i64"}

\* t is s, with register t.ret, up to the counter, holding v.
Gets(s, t, v, type) ==
    /\ Goes(s, t) /\ t.ret <= t.temp
    /\ After(s).skip = 0 => Quiet(After(s), After(t)) /\ Bears(After(t), t.ret, v, type)

\* The value of e in t is v.
Yields(t, e, v) ==
    /\ IsLiteral(e) => t.ret = v /\ OfWidth(v, "i32")
    /\ HeldAs(e) # "none" => t.ret <= t.temp /\ Bears(After(t), t.ret, v, HeldAs(e))

\* n is m with v in place p.
Puts(m, n, p, v) ==
    /\ n.skip = m.skip /\ n.sent = m.sent /\ n.values = m.values
    /\ HeldIn(n, p) = v
    /\ \A q : q # p => HeldIn(n, q) = HeldIn(m, q)

\* m, on the way to label l.
Bound(m, l) == [m EXCEPT !.skip = l]

\* The machine has got where C is in c.
Reads(m, c) ==
    /\ m.skip = 0 /\ m.sent = c.sent /\ IsMemory(c.memory)
    /\ \A n \in Names : HeldIn(m, Variable(n)) = c.memory[n]

\* So has the code in s, unless it is on its way to a label of its own.
Runs(s, c) ==
    /\ s \in Contexts /\ s.label \in Nat /\ c \in Meanings
    /\ After(s).skip \in 0 .. s.label
    /\ After(s).skip = 0 => Reads(After(s), c)

\* What comes after s, up to t, makes d of what was there.
Comes(s, t, d) == Goes(s, t) /\ (After(s).skip = 0 => Reads(After(t), d))

\* and leaves the value of e.
Becomes(s, t, d, e) ==
    /\ Comes(s, t, d)
    /\ HeldAs(e) # "none" => t.ret <= t.temp
    /\ After(s).skip = 0 => Yields(t, e, d.value)

\* Of the type and the outcome C gives e.
Says(c, d, e) ==
    /\ d.ok => c.ok
    /\ IsLiteral(e) => d.type = "int"
    /\ HeldAs(e) # "none" => (d.type = "long" <=> HeldAs(e) = "i64")

\* g is what C makes of e.
Speaks(g, e) == g \in Evaluators /\ \A c \in Meanings : Says(c, g[c], e)

\* f generates what g makes of e.
Answers(f, g, e) ==
    /\ f \in [Contexts -> Contexts] /\ Speaks(g, e)
    /\ \A s, c : Runs(s, c) /\ (After(s).skip = 0 => g[c].ok) => Becomes(s, f[s], g[c], e)

-------------------------------------------------------------------------------
\* The arguments of a call, in the code and in C.

\* b[i] is what C makes of the first i arguments.
Meaning(c, n, args, of, b) ==
    /\ n \in Nat /\ c \in Meanings
    /\ \A i \in 1 .. n : args[i] \in Expressions /\ Speaks(of[i], args[i])
    /\ b \in [0 .. n -> Meanings] /\ b[0] = c
    /\ \A i \in 1 .. n : b[i] = of[i][b[i - 1]]

\* r is the value of a, v in C, in t.
Carries(t, r, a, v) ==
    /\ IsLiteral(a) => r = v
    /\ HeldAs(a) # "none" => Bears(After(t), r, v, HeldAs(a))

\* a[i] is the code of the first i arguments.
Calling(s, n, of, a) ==
    /\ a \in [0 .. n -> Contexts] /\ a[0] = s
    /\ \A i \in 1 .. n : a[i] = of[i][a[i - 1]]

\* The values C passes.
PassedInC(n, params, b) == [i \in 1 .. n |-> Wrapped(b[i].value, LLVM[params[i]])]

\* C makes d of call e of f after c.
CallMeans(c, e, n, f, g, b, passed, d) ==
    /\ Meaning(c, n, e.args, g, b) /\ b[n] \in Meanings
    /\ d \in Meanings /\ d.memory = b[n].memory
    /\ d.sent = Append(b[n].sent, <<e.name, passed>>)
    /\ d.ok => b[n].ok
    /\ f.result # "void" => /\ Answered(e.name, passed) \in Int
                            /\ d.value = Wrapped(Answered(e.name, passed), LLVM[f.result])
    /\ Says(c, d, e)

\* The operands of call i are values.
Sends(t, i, values) ==
    /\ i.op = "call" /\ DOMAIN i.args = DOMAIN values
    /\ values = [k \in DOMAIN values |-> values[k]]
    /\ After(t).skip = 0 =>
         \A k \in DOMAIN values : ValueOf(After(t), i.args[k][1], i.args[k][2]) = values[k]

-------------------------------------------------------------------------------
\* The statements.

\* The code of a statement.
DeclarationCode(st) ==
    Stored(generate_expression[st.value][Context], st.value, Type[st.name], Variable(st.name))
ConditionCode(st) ==
    BranchOn(convert_to_boolean(
                 generate_expression[st.value][generate_label(generate_label(Context))],
                 st.value),
             label_counter + 1, label_counter + 2)
ReturnCode(st) ==
    LET v == Converted(generate_expression[st.value][Context], st.value, st.type)
    IN  Emit(v, Return(LLVM[st.type], LiteralOr(st.value, v.ret)))

\* What a step does: it generates the code of a statement, in s.
Produced(s) ==
    /\ temp_counter' = s.temp /\ label_counter' = s.label /\ done' = done + 1
    /\ faults' = faults \cup FaultsIn(s) /\ clashes' = clashes \cup ClashesIn(s)
    /\ memory' = [n \in Names |-> Execution(s.code).machine.memory[Variable(n)]]

\* A step generates s for a statement of which C makes c; the IR answers told, C said.
Steps(s, c, told, said) ==
    /\ Generated(s, Execution(s.code), c, told, said)
    /\ done + 1 \in DOMAIN Sources
    /\ \/ \E st \in Sources[done + 1].expression :
             /\ s = generate_expression[st.value][Context] /\ c = InC(st.value)
             /\ told = 0 /\ said = 0 /\ ended' = ended
             /\ understood' = (understood /\ Understood[st.value])
       \/ \E st \in Sources[done + 1].declaration :
             /\ s = DeclarationCode(st)
             /\ c = Holding(InC(st.value), st.name, InC(st.value).value)
             /\ told = 0 /\ said = 0 /\ ended' = ended
             /\ understood' = (understood /\ Understood[st.value] /\ Converts(st.value))
       \/ \E st \in Sources[done + 1].condition :
             /\ s = ConditionCode(st) /\ c = InC(st.value)
             /\ told = Execution(s.code).machine.skip
             /\ said = IF c.value # 0 THEN label_counter + 1 ELSE label_counter + 2
             /\ ended' = ended
             /\ understood' = (understood /\ Understood[st.value] /\ Tests0(st.value))
       \/ \E st \in Sources[done + 1].return :
             /\ s = ReturnCode(st) /\ c = InC(st.value)
             /\ told = Execution(s.code).machine.told
             /\ said = Wrapped(c.value, LLVM[st.type])
             /\ ended' = TRUE
             /\ understood' = (understood /\ Understood[st.value] /\ Converts(st.value))

\* What C begins a statement with, and what both must leave of it.
Begun == [value |-> 0, type |-> "int", memory |-> c_memory, sent |-> <<>>, ok |-> TRUE]
Ends(m, c) ==
    m.sent = c.sent /\ \A n \in Names : HeldIn(m, Variable(n)) = c.memory[n]

\* The code in s, if LLVM accepts it, does what C makes of the statement, c.
Does(s, c, told, said) ==
    /\ s \in Contexts /\ c \in Meanings
    /\ c.ok /\ Execution(s.code).check.faults = {} => Ends(After(s), c) /\ told = said

===============================================================================
