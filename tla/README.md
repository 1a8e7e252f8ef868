# A verification development of mini-c-compiler

TLA+ models of the compiler under `src/src/` (lexer, parser, semantic analysis,
LLVM code generator and driver, in C with flex and bison), the TLC runs that
check them on small instances, and theorems checked by the TLA+ proof system.
Paths below are relative to `src/src/`.

## 1. The system

`minicc` reads one C file and writes LLVM IR, or runs `clang` on the IR to make
an executable. It is one sequential process. Its difficulty is not concurrency
but state that outlives the call that set it: flags, counters, labels and scopes
kept in globals and in the locals of recursive calls over the AST.

| component | state | operations | interacts with |
|---|---|---|---|
| lexer (`lexer.l`) | line, column, `lex_error_count` | one rule per token | called by the parser and by the `--lex-only`, `--dump-*` modes |
| parser (`parser.y`) | `ast_root`, `error_count`, `global_symbol_table` | grammar actions, error recovery, `yyerror` | builds the AST; enters structs, unions and enum constants in the global table while parsing |
| AST (`ast.c`, `ast.h`) | the tree | constructors, `print_ast`, `free_ast` | read by both passes below |
| symbol table (`symbol_table.c`) | chain of scopes with hash buckets, `scope_counter`, `temp_counter`, `current_function` | enter, exit, add, find, labels, current function; sizes, offsets, types of expressions | one table for parser and semantic analysis, another for the code generator |
| semantic analysis (`ast.c`, `traverse_*`) | the table, `error_count` | one function per node kind | must resolve names as the code generator will |
| code generator, statements (`codegen.c`) | `in_return_block`, break/continue/switch labels, `label_counter`, its own table, the text printed | `generate_llvm_ir`, `generate_function`, `generate_statement`, `generate_compound_statement` | recursion over the AST; calls the expression generator |
| code generator, expressions (`codegen.c`) | `temp_counter`, string literals | `generate_expression`, `cast_value`, `convert_to_boolean` | returns a constant or the number of a temporary |
| driver (`main.c`) | options, files, `error_count`, exit code | the phases | all of the above, `clang`, the file system |

What makes each correct, and where it is hard:

* **Symbol table.** A stack of maps: lookups find the innermost declaration, a
  scope holds a name once, leaving a scope uncovers what it shadowed, and two
  variables never share an LLVM name. Hard: hash chains, a level counter that is
  decremented and reused, a buffer of 256 bytes, a current function kept as a name.
* **Statements.** Every basic block ends in one terminator, every label branched
  to is printed once, `break` and `continue` go to the innermost statement, scopes
  are balanced, and code is suppressed exactly where control does not reach.
  Hard: one flag for reachability, saved in some handlers and not in others.
* **Driver.** The exit code tells what is on disk, unless a write failed unnoticed or
  a signal came after `clang` was done; a failure leaves no IR; every return from the
  end of parsing on removes the temporary file. Hard: every return cleans up by hand;
  phases fail after the file was created; invocations are interrupted.
* **Semantic analysis and code generator together.** Both resolve a name to the
  same declaration. Hard: two tables, two orders of declaration and initializer,
  nested blocks flattened by the parser, labels that are entered by `goto`.
* **Expressions.** Each temporary is defined once, before its use, with the type
  of its use. Hard: callers guess from the node kind whether a result is a
  constant; conditions are `i1` in some places and `i32` in others.
* **Type layout.** Members aligned, disjoint and stable while members are added, by
  the sizes recorded for them (which are C's for most types, not for all).
* **Parser and lexer.** Blocks within blocks, enumerators entered while parsing,
  error recovery up to a limit; comments, strings and positions kept by hand.

`PROJECT.json` lists the hazards line by line, with the properties that cover
them, and says why where none does.

## 2. Plan

Order: the behaviour everything rests on first. Done:

1. `Scopes`, `ScopedMap`, `SymbolTable`, with `SymbolTableProofs`.
2. `Blocks`, `StmtGen`.
3. `Driver`, with `DriverProofs`.
4. `StructLayout`, with `StructLayoutProofs`.
5. `TwoPass`, which composes parser, semantic analysis and code generator over
   `Scopes`, with `CScopes` and `TwoPassProofs`.
6. `ExprGen`, with `ExprGenRelations` and `ExprGenProofs`.
7. `Lexing`, with `LexingProofs`.

Left: pointers, arrays and members in `ExprGen`, of which the last need the struct tags
the code generator's table does not have; and the theorems about `TwoPass` that compare it
with the scopes of C, which need each known defect as a hypothesis (section 5).

## 3. Modules

**`Scopes`** - operators on a sequence of partial maps: what a table means to
its clients, without hashing. Used by `ScopedMap`, `StmtGen` and `TwoPass`.

**`ScopedMap`** - the abstract specification of the table: `Open`, `Close`,
`Declare`, `Discard`, and the set of LLVM names already given out.

**`SymbolTable`** - `symbol_table.c` lines 90-221 and 456-685. `scopes` is the
parent chain, each scope with its `level`, `symbol_count` and buckets; a chain is
a sequence, newest symbol first. One action per operation that changes state.
`generate_unique_name` gives the tuple that its text stands for, or, for a name in
`LongName`, the part of it that fits. `issued` is a history of the names given, and
`meant` keeps, for each open scope, what every name meant when the scope was entered:
no action but entering and leaving a scope touches it, and only `ExitRevealsOuter`
reads it. `set_current_function` is called as the two clients do: on a name that is in
the global scope, whether or not `add_symbol` took it, from the global scope or from
the function's own while that is empty. The hash function is a
constant, so that TLC sees collisions and the theorems hold for every one. Calls
that fail change nothing and are not steps.
`AbstractStack` is the refinement mapping to `ScopedMap`.

**`StructLayout`** - `align_to`, the size and alignment functions and the loops
`calculate_struct_size` and `calculate_union_size` (`symbol_table.c` 85-453), one
step per iteration, with their locals `on`, `i`, `size`, `align`. The actions of the
parser on a struct specifier (`DefineTag`, `AddSimpleMember`, `AskMemberSize`,
`AddSizedMember`, `EndOfMembers`) and of every later use (`UseTag`) start the loops;
`pc` says who waits for the result. The loops write the members' offsets into the
symbols while they run, which is why they are steps and not a function.
Sizes are those the code records. These differ from C's in two places: an array of
structs or of pointers has the size of one element (`symbol_table.c` 299-319), and
the parser keeps only the first of several specifiers (`parser.y` 446, 569), so that
`unsigned char`, `unsigned short` and `unsigned long` are sized as `unsigned int`.
`Containing` stands for the search of a type's name for a keyword (243-251).

**`Blocks`** - what a line of IR does to the text of a function: whether the
current block is open or closed, the labels printed and branched to, and the
faults LLVM would report (`unterminated`, `duplicate`, `undefined`) or that are
dead code (`orphan`: a line after a terminator with no label before it).

**`StmtGen`** - `codegen.c` lines 1784-2720 on the control side. The recursion is
a stack of `frames`, one per handler that waits for the statement it called itself
on, with its C locals (`prev_return_state`, `then_terminates`, the saved labels).
A handler with a body is two or three actions: up to the call, between two calls,
after the last one. The AST is not a parameter: wherever the code calls
`generate_statement`, any node the parser can put there may come, so TLC covers
every program with at most `MaxNodes` nodes. Nodes an early exit leaves out are
`SkipItem`. An expression is either a run of instructions or the diamond of blocks
that `&&`, `||` and `?:` print. `live` is the source-level answer to "does control
reach this point" and `lost` the kinds of reachable nodes that were skipped; both
are observers that no action reads except to update them. Global declarations
print one line outside functions, so only their skipping is visible.
Not in the model: types, values and temporaries; `struct`, `union` and `enum`
nodes, for which the parser never makes a statement.

**`TwoPass`** - one program from source to code. `Ast` and `Items` are what the
grammar actions build, the flattening of lists included; `todo` is the recursion
of both walks, a sequence of nodes and of things to do after them (`leave` a scope,
`restore` a flag). The `Check...` actions are `traverse_node` and its handlers in
`ast.c` with the parser's table, the `Generate...` actions `generate_statement` and
`generate_function` with a fresh one. `checked` and `generated` record which
declaration each use was given. The programs are constants: `Trees` is every declaration
and statement in them, `Height` how deep each is nested, and `TreesAssumption` says what
the grammar builds from what; the functions that follow a tree are recursive functions
on these sets, so that the theorems reach them.

**`CScopes`** - the reference for `TwoPass` and the properties that compare with it.
`InC` reads the scopes of C off the source, before it was parsed, in one recursive
operator.

**`ExprGen`** - `generate_expression` and the statements that hold expressions. A
step takes one statement, generates its IR, runs the IR (`Execution`: every
instruction is checked for the types and the single definition of what it uses, and
executed unless a branch skips it) and evaluates the statement as C does
(`Evaluated`). The integers have 3, 5 and 6 bits instead of 8, 32 and 64, with the
same wrapping. A program whose behaviour C leaves open (overflow, unsequenced
effects) turns `defined` off. `Expressions` is every expression of the programs with its
parts, `Height` how deep each is nested, and the constants' assumptions say what the
parser builds from what; `generate_expression`, `get_expression_type` and `Evaluated` are
recursive functions on that set. Every variable is there from the beginning, so the
`add_symbol` and the `alloca` of a declaration are left out.
The int that `generate_expression` returns is a constant or a register, and the caller
guesses which, and of what IR type, from the kind of the node. `HeldAs` gives the type
the register really has, and the comment over it lists all that callers misread, each
accepted by the parser and by both walks. `Understood` says of an expression that it and
its parts are taken for what they are, and the variable `understood` that this has been so
of every value of the program up to now. `faults` are the uses LLVM refuses, whatever the
reason, and `clashes` those among them that define a register or slot again or miss their
place. `GuessesAreRight` describes the programs in which nothing is misread and
`ConversionsAreRight` those in which no conversion the code prints differs from the one of
C; both are hypotheses of two theorems only.

**`ExprGenRelations`** - what the proofs about `ExprGen` relate: contexts of the generator
that follow each other, what LLVM and the machine know of their code, and what C makes of
the same expression. It models nothing of its own.

**`Lexing`** - the rules of `lexer.l` on texts of representative characters, flex's
longest match and order of rules, the loop of a comment character by character, and
`line_number` and `column`. Keywords are words. `Matches` gives the lengths each rule
can match, `Longest` and `IsFirst` choose as flex does, and one turn of `yylex` is
`Scan`, with an action for each kind of rule. C's reading of the text, `StateAt` (code,
strings and character constants with their escapes, both kinds of comment), and the
columns of a terminal, `ColumnAt`, are functions of the text alone, against which the
scanner is checked. `StateAt` does not join a line that ends in a backslash to the next,
as C does first of all; texts with such a line are those with `LinesContinue`.

**`Driver`** - `main` and `yyerror`: an invocation is `Start` (or `StartReadOnly`, for
the modes that write nothing), `OpenOutput`, `OpenInput`, parsing (`yyerror` with its
limit, `ExternalDeclaration`, `ParseEnd`), `SemanticAnalysis`, `GenerateIR`,
`CloseOutput`, `Link`, `Return`; `fs` maps each file to what it holds and the invocation
that wrote it. What the generator prints goes through a buffer, so the file may hold none
of it or a part until it is closed, and closing may fail, which the program does not
notice and the observer `write_failed` does. `clang` may refuse what it is given, and may
take a part for a whole. `Interrupt` may come between any two steps, also between
`clang` writing the executable and the return, and `Prompt` is the user between
invocations.

The **`MC...`** modules give constants their values for TLC: hash functions and
temporary files, member types, programs, statements and texts. **`SymbolTableProofs`**,
**`StructLayoutProofs`**, **`StmtGenProofs`**, **`TwoPassProofs`**, **`ExprGenProofs`**,
**`LexingProofs`** and **`DriverProofs`** hold the theorems, and **`Recurrences`** the
lemmas that several of them share: least and greatest elements, induction over a stretch
of numbers and from the parts of a tree to the whole; that a sequence in which each
value follows from the one before, or a function on trees each value of which follows
from those of the parts, exists; and the binary digits of a number. An operator named after another with a suffix (`LayoutEnd_NoPadding`) is that operator with a plausible
bug; `PROJECT.json` ("mutants") says which property notices it.

## 4. Runs

| run | checks | bounds |
|---|---|---|
| `symbol_table` | shape, sound chains, lookups, levels, unique names, implementation of `ScopedMap`, that leaving a scope gives every name back what it meant at the entry | two names in one of two buckets, three scopes entered again after others were left, two generated names (411,371 states, 1.5 minutes) |
| `struct_layout` | shape, placement by the recorded sizes in structs and unions, nested sizes, members that stay | two tags, three members of five types, one tag within the other or itself (3,085,927 states, 42 s) |
| `stmt_gen_structured` | shape, well-formed functions, suppression of code | all structured kinds, five nodes |
| `stmt_gen_all` | scopes, jump targets, generated labels | all kinds of statement with branching expressions, five nodes |
| `stmt_gen_switch` | *violated:* `NothingReachableIsLost` | `switch`, `case`, `break` |
| `two_pass` | shape, no false alarms, invalid programs refused, meanings kept, nothing generated that went unchecked | about ten thousand programs of three families: nested statements, calls and prototypes, labels and gotos |
| `two_pass_blocks` | *violated:* `NoFalseAlarm` | a block within a block |
| `two_pass_enums` | *violated:* `NamesAreFound` | an enumerator and its use |
| `expr_gen` | shape, numbering and places of definitions, sound registers, effects and answers as in C | two statements from the forms below, three initial memories (24,979 states, 44 s) |
| `expr_gen_compound` | *violated:* `EffectsAgree` | `+=` and `-=` |
| `lexing` | shape, lines, columns, comments, termination | all texts of up to four characters over eleven, of up to six over each of three sets of four (182,402 states, 19 s) |
| `driver_phases` | shape, exit codes, no IR left by a failure, cleanup, termination | two invocations, two inputs, limit of two errors (289,056 states, 12 s) |

**Why the bounds are enough.** Chains: a wrong comparison or push needs two names in
one chain, so the two names share a bucket; names in different buckets meet nowhere in
the code, and are covered by the theorems, which are for every hash function. A wrong
level needs a scope entered after its sibling was left.
Layout: a wrong offset needs a member of smaller alignment before a larger one and
one after it, a stale one needs a struct used again after it was put into another.
Statements: every defect of the flag or of a saved label needs a statement inside a
statement and one after it, which four statements in a function give for every pair
and most triples of kinds. Two passes: a wrong scope shows as soon as a name is
declared outside, declared inside and used inside or after, for each statement with
a scope. Expressions: two operators, one in each operand position of the other, show
every confusion of constant, register and `i1`; the second statement shows that
counters and memory carry over. Texts: an opening, something within, a closing and
something after. Driver: two invocations, so that the second meets what the first
left; the limit of twenty errors is two, so that it is reached after an error that
did not reach it.

**What `expr_gen` runs and what it leaves out.** What the callers of
`generate_expression` misread is in the programs: `!` as a condition or an operand,
`sizeof`, a `char` or `long` as a condition or an operand of `!`, `-`, `~`, `&&` and `||`,
the assignment of a literal used as a value, `?:` of two characters, an argument of
another type, a character constant where a register is expected. `DefinitionsAreSound`
holds of all of them: the code is ill-typed, but no number is given twice.
`RegistersAreSound` excludes them by `understood`, and only them: a fault in any program
whose values are taken for what they are violates it. `EffectsAgree` and `AnswersAgree`
say nothing of a program once LLVM refuses it (`faults = {}`). Left out of the programs are
those LLVM accepts and that compute something else than C, each a hazard in
`PROJECT.json`: a comparison stored, returned or passed directly (`sext` of an `i1`),
`i = !j`, arithmetic on a `long` whose value is used, an `int` variable passed for a
`long` parameter, and compound assignments, which `expr_gen_compound` has; and a call of
a `void` function as an operand, which C forbids.

**What `two_pass` leaves out.** A `for` that declares two variables is in no program.
Programs with these are run, and excused by name in the properties: a variable in its
own initializer and a forward `goto` (`own`, `forward`); a function or enumerator whose
name is taken, a variable named like a parameter of its function, an enumerator used
before its declaration, a `goto` to no label (`clash`, `parameter`, `early`, `target`: C
forbids them and the compiler lets them pass). Two declarations of one variable at
file scope, which C allows, count as a redeclaration, as in the compiler.

**Fairness.** `Driver` has weak fairness of `Step`: the process goes on until it
exits, `clang` being taken to return. Signals, the shell and the next invocation are
not fair: `EveryRunEnds` holds whatever they do. `Lexing` has weak fairness of `Next`:
nothing outside the scanner can keep it waiting. The other modules state no fairness
and no liveness.

**Deadlock** is checked for `StmtGen` and `TwoPass`, which shows that no handler is
left waiting for a step that cannot come. The others stop where the program stops
(the table is destroyed, the function has returned, the text is at its end,
`MaxRuns` invocations are over), so their configurations turn the check off;
`StructLayout` never stops.

**What the violated runs show**, with the lines in "findings" of `PROJECT.json`: a
`break` in a `switch` drops the cases after it and the code after the switch; a block
within a block is merged into it, so that a name declared again is refused;
enumerators are unknown to the code generator; a compound assignment to a variable
stores nothing. Other disagreements are hazards without a run: a label after a jump is
never printed and one reached by falling through leaves a block unterminated; a
global after a function that ends in `return` is dropped; long identifiers lose the
counter that makes their LLVM names unique; a variable named like its function is
taken for it; errors of the code generator, and of writing its output, do not reach the
exit code; a `//` comment that ends in a backslash ends there, and goes on in C; the
columns after a block comment are off by its opening and by the tabs in it; arrays of
structs and of pointers take the space of one element in a struct.

## 5. Proofs

`SymbolTableProofs` proves, for every set of names, buckets, hash function and
bound, from the named assumptions of `SymbolTable` (the hash maps names to buckets,
`NoSymbol` is no symbol, declared kinds are kinds):

* `LevelInvariance`: `TypeOK /\ LevelsAreDepths`. Neither half is inductive
  alone: that `scope_counter` stays a number when `exit_scope` decrements it follows
  from its being the depth.
* `ChainInvariance`: `ChainsAreSound`, relative to the above. The step that adds a
  symbol needs that the search before it, which stops at the first match of one
  bucket, really visited every symbol with the name; `FirstNamedFinds` and
  `NotFoundIsAbsent` say so, from the well-ordering of the naturals.
* `NamesAreNumbered`: the names given out are as many as `temp_counter` and each
  that was not cut carries its own number; this is the inductive form of
* `NameUniqueness`: `UniqueNames`, assuming that no identifier fills the buffer
  (`LongName = {}`). Without the assumption it is false: two long names are cut before
  their counters.

* `TypeInvariance`: the rest of `TypeOK`.
* `LookupInvariance`: `LookupAgrees`. `find_symbol` stops at the first scope, from the
  innermost outwards, in whose bucket the name is met; `InnerFound` and
  `GreatestElement` say that this scope is the last in which the map has the name.
* `ExitReveals`: `ExitRevealsOuter`, an action property: after leaving a scope every
  name, shadowed in it or not, means what `meant` says it did when the scope was entered.
  The invariant beneath it is that the scopes outside an open one have not
  changed since: a lookup from its parent still gives what `meant` has for it, since every
  operation adds to the current scope alone.
* `Refinement`: `ImplementsScopedMap`, the refinement of `ScopedMap`, again for programs
  whose names fit the buffer: with two names cut to one text the code gives a name twice,
  which `ScopedMap` never does. `MapsProperties` reads the chains of one scope
  as a map, `AddingDeclares` shows an addition to be one `Declare`, and `FreshName`, from
  `NamesAreNumbered`, that the name it takes was not in use.

All additions go through one lemma (`AddingSteps`): whatever the operation, a step
that adds pushes one symbol on the chain of its name in the current scope.

`StructLayoutProofs` proves, for every set of tags and member types and every number
of members, from the assumptions of `StructLayout` on its constants:

* `AlignToIsLeast`: `align_to(n, a)` is the least multiple of `a` from `n` on.
* `TypeCorrect`, `StructsAreLaidOutCorrect`, `NoMemberMovesCorrect`. The inductive
  invariant is `LayoutInv`: the types, what the control state says of `cur`, `on` and
  `pending` (`Control`), and for the struct the loop is at work on, that the members
  before `i` are in place (`Placed`) by their recorded sizes and that `size` and `align` are the end and the
  largest alignment of those (`Summed`); for all others the layout itself
  (`Computed`), nothing for a tag not yet defined (`Unused`), and zero offsets for
  unions (`Overlaid`). That no member moves when a loop runs again rests on
  `LeastIsUnique`: the offsets in the symbols and the ones the loop computes are both
  least, hence equal.
* `UnionsAreLaidOutCorrect`, from `UnionInv`: `LayoutInv`, that `size` and `align` are
  the largest size and alignment of the members before `i` (`Compared`), and that every
  union no loop is at work on fits its members (`Fitted`). That a size smaller by one
  alignment would be too small is `TightIsLeast`.
* `NestedSizesAgreeCorrect`, from `NestInv`: `UnionInv`, that a loop run because a size
  is asked for runs on a symbol that is laid out already (`AskedOfSettled`), that the
  type waiting for its size is in the table (`PendingIsKnown`), and that a struct within
  another is not the one being defined (in `ContainedAgree`). `AskingChangesNothing` is
  the heart of it: such a loop writes back the size and the alignment it finds, since
  there is one least size and one largest alignment.

`StmtGenProofs` proves, for every set of names, kinds of statement and forms of
expression and every bound on the size of the program, from the assumptions of
`StmtGen` (the kinds and forms are those the parser makes, the bound is a number):

* `TypeInvariance` and `ScopesInvariance`, from `ShapeInv`: the frames are handlers
  (`Stacked`: `generate_function` outermost and only there, each with a label counter
  that is behind the present one), and the scopes are those of the frames.
* `TargetsInvariance`: `TargetsAreInnermost`, from `TargetInv`, which reads down the
  stack: what a handler saved are the targets of the handlers below it, so that
  putting them back makes them those of the innermost again.
* `FlagInvariance`: `FlagIsUnreachability`, for programs without `switch`, `case` and
  labels. The induction needs that no `if` or loop was entered with the flag set and
  that an `if` remembers how its first branch ended (`FrameAgrees`).
* `GeneratedLabelsAreSoundInvariance`: `GeneratedLabelsAreSound`, for every program,
  from `TextInv`: the labels the waiting handlers have yet to print (`Pending`) are
  disjoint, not printed, and every generated label that was branched to is printed or
  among them; the end label of an `if` that both branches leave is not branched to
  (`Unused`); and wherever the flag is not set a block is open (`BlockFollowsFlag`).
* `WellFormedInvariance`: `FunctionsAreWellFormed`, from `TextInv`, for programs without
  `switch`, `goto` and labels: there, and only there, the flag is set exactly where the
  block is closed.

The restrictions of `FlagInvariance` and `WellFormedInvariance` are those of the run
`stmt_gen_structured`, which checks these two properties: with a `switch` they are false
(`stmt_gen_switch`), and with labels too (section 4). No assumption on the
kinds is made for the other four. Each handler's text is followed by one lemma per
step (`SoundBranch`, `SoundLabel` and so on), so that a case of `generate_statement` is a
few citations.

`TwoPassProofs` proves, for every set of programs, whatever is nested in what, from the
assumptions of `TwoPass` (the trees are those the grammar derives, each higher than its
parts, and the programs are sequences of them):

* `TypeInvariance`: `TypeOK`. That the scopes stay scopes when a handler leaves one
  depends on everything still to be done: the inductive invariant `IInv` reads `todo` as
  a walk between levels, a level being the number of open scopes and of flags put
  aside, and says that the walk leads home (`Leads`). Each handler puts on `todo` a walk
  from a level to the same level (`ScheduleEven`, with a lemma for each kind of
  statement), so both passes give back every scope and every copy of
  `in_return_block` they take.
* `GeneratedIsCheckedAlways`: `GeneratedIsChecked`, that the code generator looks up no
  name the analysis has not looked up, though it takes the parts of a statement in
  another order, opens other scopes and leaves parts out. The inductive invariant
  `Covered` says that there is a set of nodes and names that the analysis has dealt with
  or has still on its list, closed under what it schedules for each node, and that the
  generator's list stays within it. `AnalysisCovers` and `GeneratorCovers` are the two
  halves.

What the parser makes of a tree is opened by `AstUnfolds`, an induction over `Height`:
a recursive function on the trees exists because each height has one
(`BuildersExist`) and two of them agree where both are defined (`BuildersAgree`).

`ExprGenProofs` proves, for every set of expressions and statements the parser can build,
every declaration of variables and functions and all widths of the integers, from the
assumptions of `ExprGen`:

* `TypeInvariance`: `TypeOK`, whether or not LLVM accepts the code. The counters only
  count up because every clause of `generate_expression` leads from a context to a later
  one. That a variable keeps a value of its type is a matter of two lists of instructions
  read side by side, as the checker and the machine read them: while nothing was refused,
  the registers and places the machine has written hold values of the types the checker
  has noted (`Steady`, kept by `ExecutionIsSteady`), and after a refusal nothing is
  executed. `ComputedIsNumber` says that every operation, the bitwise ones included,
  gives a number, and `WrappedIsOfWidth` that what is stored has the width of its type.
  For C, every clause of the reference keeps a memory of the right types (`StepsMean`).
* `DefinitionsAreSoundAlways`: `DefinitionsAreSound`, of every program, misread values
  and all: no register or slot is defined twice, and none is loaded or stored that is not
  there or is of another type. `RegistersAreSoundAlways`: `RegistersAreSound`, of every program
  as long as its values are taken for what they are (`understood`). Neither has a
  hypothesis on the constants, and neither says that the values are taken for what they
  are, which the code does not see to: `-c` for a `char` `c`, or `if (!x)`, are programs it
  accepts and generates wrong IR for. What the second says is that the list over `HeldAs`
  is complete, at every nesting of what the run nests once or twice.
  The inductive statement (`GenerateExpressionDelivers`, by `HeightInduction` over the
  expressions) is about a clause wherever it stands in a text: from any context whose code
  is tidy so far, it appends code that is tidy too, leaves every earlier register and
  place with its type, and defines registers and slots between the counters of before and
  after only; and from one whose code is fine, an understood expression appends code
  that is fine and returns a constant or a register that has the type `HeldAs` gives.
  Tidy is code without clashes, fine is code without faults. Which of the two is being
  claimed is a set of contexts (`Claimed` has the two and the empty set, `Sure` is the
  second), so that the same lemmas about the clauses serve both theorems and
  `TypeInvariance`, which claims nothing; `UnderstoodUnfolds` hands the
  understanding of a node on to its parts. The invariant over steps is `SoundSoFar`.
* `EffectsAgreeAlways` and `AnswersAgreeAlways`: `EffectsAgree` and `AnswersAgree`, that
  the IR of every program leaves every variable with the value C gives it, and branches,
  returns and calls as C does, wherever C says what happens and LLVM accepts the code.
  The hypotheses are `GuessesAreRight` and `ConversionsAreRight`. The first excludes the
  programs whose code LLVM refuses, of which there is no value to compare. Each conjunct of the second
  excludes a combination the code gets wrong: a comparison stored or returned is -1
  (`sext`), a `long` is cut to an `int` before it is computed with, a register passed for a
  `long` parameter is widened with zeros, and a compound assignment stores nothing. The
  statement proved of every expression (`Answers`, by `HeightInduction` in
  `ExpressionsAnswer`) is about its code wherever it stands: run from a state in which the
  machine reads what C has (`Runs`), it ends in one in which it reads what C has after
  the expression (`Comes`) and leaves the value where `HeldAs` says (`Yields`); and a
  machine that is on its way to a label generated earlier passes over it unchanged
  (`Spares`). The last is what makes the branches of `&&`, `||` and `?:` compose
  (`ForkRuns`, `NextRuns`, `ArmsMeet`): on either path one part runs and the other is
  skipped, and both meet with the value in the same slot. Registers and slots up to the
  counter of before are kept, so an operand survives the code of the one after it. Below
  that are the numbers: that an `i32` instruction gives what C computes
  (`ComputedIsOperation`), that `xor` with -1 is the complement (`XorIsComplement`), that
  every cast used changes no value. The invariant over steps, `Agreed`, is the two
  properties with `TypeOK`.

The recursive functions are opened by `HeightRecursion`, for one function on
expressions each.

`LexingProofs` proves, for every set of texts over the characters of the model
(`TextsAssumption`):

* `TypeInvariance`, `LinesInvariance` and `ColumnsInvariance`: `TypeOK`,
  `LinesAreCounted` and `ColumnsAreCounted`. `StepKinds` sums up what a turn can do:
  stay, move along the line by a match without a newline, or pass one newline, which
  rests on what every rule can match (`MatchFacts`). `CountFacts` follows `count_chars`
  through a match, tab by tab.
* `CommentsInvariance`: `CommentsAreThoseOfC`, of texts without a line that ends in a
  backslash (`LinesContinue`) and without a `//` on an unfinished last line, of both of
  which it is false, from `CommentInv`: between turns the scanner and C are in step
  (`InStep`): a rule begins where C is in code, the loop of a comment inside one. For each
  rule a lemma says that C reads its match as the scanner does. For a string or a
  character constant (`QuotedIsOutside`) this is that its quote is escaped exactly if the
  character before it is a backslash that is not (`EscapedNext`); for an operator
  (`OperatorIsCode`) that no longer match was there, so `/` is followed by neither `*`
  nor a line comment that ends.

The recursive functions of `Lexing` are opened by `Recursion` of `Recurrences` and
reasoned about by its `Stretch`, both stated for a function or a set and so first-order.

`DriverProofs` proves, for every set of files and options, error limit and number of
invocations, `TypeCorrect`, and from the inductive invariant `IInv` (`Inductive`) the
three safety properties:

* `ExitTellsOutcomeCorrect`: `ExitTellsOutcome`, that 0 and 2 mean that the product is
  there, made of all the IR of this very invocation, unless a write failed; and that no
  executable was made after 1, unless the process was interrupted, which may be
  after `clang` had written one.
* `FailureLeavesNoIRCorrect`: `FailureLeavesNoIR`, that an invocation that ends with 1 of
  itself, by whichever of its ways out, leaves its output empty or absent, whatever
  was there.
* `ReturnRemovesIRCorrect`: `ReturnRemovesIR`, that every return from the end of parsing on
  removes the temporary file (a successful one under `-d` keeps it on purpose). The return
  at `main.c` 446, for an input that cannot be opened, comes after the file was created
  and leaves it, and so does `exit` at the limit of errors (`parser.y` 1501).

None of them is inductive alone: `IInv` joins them with the facts that no file comes from
a later invocation and none that has not run `clang` has made an executable
(`FilesAreOld`), that no error is counted before the input is open (`NoErrorYet`), that only
forced programs reach the generator with errors (`ErrorsAreForced`), and what the output
holds from the moment it is opened: nothing, then perhaps a part, then all of it or a write
has failed (`OutputIsOwn`). `TempAssumption` (no output is named like a temporary file) is
needed: without it the product of a compilation may be what the compiler removes at
its end.

Only model-checked:

* `EveryRunEnds` and `ScanningEnds`: liveness under fairness, and `ENABLED`, are out of
  the prover's reach.
* `NoFalseAlarm`, `InvalidIsRefused` and `MeaningIsKept` of `CScopes`. They are false of
  arbitrary programs (`two_pass_blocks`, and what section 4 says is left out), so a theorem
  would need each known defect as a hypothesis on the trees; and `InC` is a recursive
  operator, which the prover does not open.
* `EffectsAgree` for compound assignments (`expr_gen_compound`, violated), which
  `ConversionsAreRight` excludes.

## 6. Not modelled

* Pointers, arrays, members, strings, floating types and casts in expressions; the
  checks of the semantic analysis on types.
* The LALR automaton and where error recovery resumes; typedef names, which the
  scanner never reports.
* The values of numbers and of character constants.
* Memory management (`free_ast`, `deep_copy_type_info`), printing of trees, tables
  and statistics.
* The build, the tests and the examples, and the documentation site under `docs/`:
  generated pages and the theme's third-party search scripts (`docs/assets`), which no
  part of the compiler runs.
