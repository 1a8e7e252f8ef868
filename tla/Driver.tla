-------------------------------- MODULE Driver --------------------------------
(***************************************************************************)
(* main.c: one invocation of the compiler after another in a directory     *)
(* whose files outlive them.  Each phase is a step, with every way it can  *)
(* fail; the writing of the output is two, since its text is in a buffer   *)
(* until it is closed.  Any invocation may be interrupted between two      *)
(* steps.                                                                  *)
(***************************************************************************)
EXTENDS Naturals

CONSTANTS
    Source,         \* input files named on the command line
    OutFile,        \* files named with -o, and a.out
    TempOf,         \* the .ll file that goes with an input file
    DefaultOutput,  \* a.out
    NoFile,         \* no -o
    MaxErrors,      \* max_errors
    MaxRuns         \* bound: invocations

Path == Source \cup OutFile \cup {TempOf[s] : s \in Source}

ASSUME PathAssumption ==
    /\ DefaultOutput \in OutFile
    /\ NoFile \notin Path
\* No -o names the temporary file of an input: with -c x.c -o x.c.ll clang would
\* write over its own input, and the compiler then remove it.
ASSUME TempAssumption == \A s \in Source : TempOf[s] \notin OutFile
ASSUME LimitAssumption == MaxErrors \in Nat \ {0} /\ MaxRuns \in Nat

VARIABLES
    fs,           \* what each file holds and which invocation wrote it
    run,          \* number of the invocation
    opts,         \* its command line
    pc,           \* the phase it is in
    error_count,
    ast_root,     \* is there an AST?
    exit,         \* exit code, once pc is "exited"
    how,          \* the way it ended
    write_failed  \* history: some of the output did not reach its file

vars == <<fs, run, opts, pc, error_count, ast_root, exit, how, write_failed>>

-------------------------------------------------------------------------------
\* Files and command lines.

Absent == [kind |-> "absent", run |-> 0]
Written(kind) == [kind |-> kind, run |-> run]
Put(path, content) == fs' = [fs EXCEPT ![path] = content]

Option == [mode : {"S", "c"}, file : Source, out : OutFile \cup {NoFile},
           force : BOOLEAN, debug : BOOLEAN]

compiling == opts.mode = "c"
ir_file == TempOf[opts.file]
final_output == IF opts.out = NoFile THEN DefaultOutput ELSE opts.out

\* Where the IR goes: the temporary file, the -o file, or stdout.
output == IF compiling THEN ir_file ELSE opts.out

Exit(code, way) ==
    /\ pc' = "exited"
    /\ exit' = code
    /\ how' = way
Goto(phase) ==
    /\ pc' = phase
    /\ UNCHANGED <<exit, how>>

\* Mutant: the temporary file is left behind.
DiscardIR_Never == UNCHANGED fs

\* The unlink of ir_file on the ways out that have one.
DiscardIR == IF compiling THEN Put(ir_file, Absent) ELSE UNCHANGED fs

-------------------------------------------------------------------------------
\* The phases.

Start(o) ==
    /\ pc = "idle"
    /\ run < MaxRuns
    /\ run' = run + 1
    /\ opts' = o
    /\ error_count' = 0
    /\ ast_root' = FALSE
    /\ write_failed' = FALSE
    /\ Goto("output")
    /\ UNCHANGED fs

\* A command line main refuses, --help, or one of the modes that only scan or
\* parse: they write no file.
StartReadOnly(code) ==
    /\ pc = "idle"
    /\ run < MaxRuns
    /\ run' = run + 1
    /\ Exit(code, "read only")
    /\ UNCHANGED <<fs, opts, error_count, ast_root, write_failed>>

\* Mutant: the output is opened to append to what an earlier invocation left.
OpenOutput_Appends ==
    /\ pc = "output"
    /\ \/ /\ IF output = NoFile \/ fs[output] # Absent THEN UNCHANGED fs
             ELSE Put(output, Written("empty"))
          /\ Goto("input")
       \/ /\ output # NoFile
          /\ Exit(1, "no output")
          /\ UNCHANGED fs
    /\ UNCHANGED <<run, opts, error_count, ast_root, write_failed>>

\* The output is opened, and emptied, before the input is.
OpenOutput ==
    /\ pc = "output"
    /\ \/ /\ IF output = NoFile THEN UNCHANGED fs
             ELSE Put(output, Written("empty"))
          /\ Goto("input")
       \/ /\ output # NoFile
          /\ Exit(1, "no output")
          /\ UNCHANGED fs
    /\ UNCHANGED <<run, opts, error_count, ast_root, write_failed>>

OpenInput ==
    /\ pc = "input"
    /\ IF fs[opts.file] = Absent THEN Exit(1, "no input") ELSE Goto("parse")
    /\ UNCHANGED <<fs, run, opts, error_count, ast_root, write_failed>>

\* Mutant: the limit is passed.
yyerror_NoLimit ==
    /\ pc = "parse"
    /\ error_count <= MaxErrors
    /\ error_count' = error_count + 1
    /\ Goto("parse")
    /\ UNCHANGED <<fs, run, opts, ast_root, write_failed>>

\* The error that reaches the limit ends the process from within the parser.
yyerror ==
    /\ pc = "parse"
    /\ error_count' = error_count + 1
    /\ IF error_count' >= MaxErrors THEN Exit(1, "too many errors")
       ELSE Goto("parse")
    /\ UNCHANGED <<fs, run, opts, ast_root, write_failed>>

\* An external declaration is complete.
ExternalDeclaration ==
    /\ pc = "parse"
    /\ ~ast_root
    /\ ast_root' = TRUE
    /\ UNCHANGED <<fs, run, opts, pc, error_count, exit, how, write_failed>>

\* yyparse returns; a file without a declaration is a syntax error.
ParseEnd ==
    /\ pc = "parse"
    /\ ast_root \/ error_count > 0
    /\ IF ast_root /\ (error_count = 0 \/ opts.force)
       THEN Goto("semantic") /\ UNCHANGED fs
       ELSE Exit(1, "returned") /\ DiscardIR
    /\ UNCHANGED <<run, opts, error_count, ast_root, write_failed>>

\* check_types adds its errors to those of the parser.
SemanticAnalysis(errors) ==
    /\ pc = "semantic"
    /\ error_count' = error_count + errors
    /\ IF error_count' = 0 \/ opts.force
       THEN Goto("generate") /\ UNCHANGED fs
       ELSE Exit(1, "returned") /\ DiscardIR
    /\ UNCHANGED <<run, opts, ast_root, write_failed>>

ExitCode == IF error_count = 0 THEN 0 ELSE IF opts.force THEN 2 ELSE 1

\* What generate_llvm_ir prints goes through a buffer: none of it or a part has
\* reached the file when it returns, and it returns nothing, so that what it
\* complains of is lost.
GenerateIR ==
    /\ pc = "generate"
    /\ \/ UNCHANGED fs
       \/ output # NoFile /\ Put(output, Written("partial"))
    /\ Goto("close")
    /\ UNCHANGED <<run, opts, error_count, ast_root, write_failed>>

AfterClose == IF compiling THEN "link" ELSE "return"

\* Mutant: the output is not closed before it is used.
CloseOutput_Late ==
    /\ pc = "close"
    /\ Goto(AfterClose)
    /\ UNCHANGED <<fs, run, opts, error_count, ast_root, write_failed>>

\* fclose writes what is left in the buffer; neither it nor the fprintfs before
\* it are asked whether the file took everything.
CloseOutput ==
    /\ pc = "close"
    /\ \/ /\ IF output = NoFile THEN UNCHANGED fs ELSE Put(output, Written("ir"))
          /\ UNCHANGED write_failed
       \/ /\ output # NoFile
          /\ write_failed' = TRUE
          /\ UNCHANGED fs
    /\ Goto(AfterClose)
    /\ UNCHANGED <<run, opts, error_count, ast_root>>

\* What clang makes of the IR file, all of it or a part.
Executable ==
    [kind |-> IF fs[ir_file].kind = "ir" THEN "exe" ELSE "part exe",
     run |-> fs[ir_file].run]

\* Mutant: clang is run again when it fails.
Link_Retries ==
    /\ pc = "link"
    /\ \/ /\ fs[ir_file].kind \in {"ir", "partial"}
          /\ Put(final_output, Executable)
          /\ Goto("return")
       \/ /\ DiscardIR
          /\ Goto("link")
    /\ UNCHANGED <<run, opts, error_count, ast_root, write_failed>>

\* clang reads ir_file.  It may refuse what is in it, and it may take the
\* beginning of a program for a whole one, but it links nothing that is empty.
Link ==
    /\ pc = "link"
    /\ \/ /\ fs[ir_file].kind \in {"ir", "partial"}
          /\ Put(final_output, Executable)
          /\ Goto("return")
       \/ /\ DiscardIR
          /\ Exit(1, "returned")
    /\ UNCHANGED <<run, opts, error_count, ast_root, write_failed>>

\* The end of main, which removes the temporary file unless -d keeps it.
Return ==
    /\ pc = "return"
    /\ IF opts.debug THEN UNCHANGED fs ELSE DiscardIR
    /\ Exit(ExitCode, "returned")
    /\ UNCHANGED <<run, opts, error_count, ast_root, write_failed>>

\* A signal between two steps.
Interrupt ==
    /\ pc \notin {"idle", "exited"}
    /\ Exit(1, "interrupted")
    /\ UNCHANGED <<fs, run, opts, error_count, ast_root, write_failed>>

\* The shell is back; a source file may be removed or written.
Prompt(s) ==
    /\ pc = "exited"
    /\ pc' = "idle"
    /\ fs' \in {fs, [fs EXCEPT ![s] = Absent],
                [fs EXCEPT ![s] = [kind |-> "source", run |-> 0]]}
    /\ UNCHANGED <<run, opts, error_count, ast_root, exit, how, write_failed>>

Init ==
    /\ fs \in {f \in [Path -> {Absent, [kind |-> "source", run |-> 0]}] :
                  \A path \in Path \ Source : f[path] = Absent}
    /\ run = 0
    /\ opts \in {o \in Option : o.mode = "S" /\ o.out = NoFile
                                /\ ~o.force /\ ~o.debug}
    /\ pc = "idle"
    /\ error_count = 0
    /\ ast_root = FALSE
    /\ exit = 0
    /\ how = "none"
    /\ write_failed = FALSE

Next ==
    \/ \E o \in Option : Start(o)
    \/ \E code \in {0, 1} : StartReadOnly(code)
    \/ OpenOutput
    \/ OpenInput
    \/ yyerror
    \/ ExternalDeclaration
    \/ ParseEnd
    \/ \E errors \in {0, 1} : SemanticAnalysis(errors)
    \/ GenerateIR
    \/ CloseOutput
    \/ Link
    \/ Return
    \/ Interrupt
    \/ \E s \in Source : Prompt(s)

\* The process runs on unless it waits for clang, which is taken to return; what
\* the shell does, and signals, are under no obligation.
Step ==
    \/ OpenOutput \/ OpenInput
    \/ yyerror \/ ExternalDeclaration \/ ParseEnd
    \/ \E errors \in {0, 1} : SemanticAnalysis(errors)
    \/ GenerateIR
    \/ CloseOutput
    \/ Link
    \/ Return

Spec == Init /\ [][Next]_vars /\ WF_vars(Step)

-------------------------------------------------------------------------------
\* Properties.

Kept == {"absent", "source", "empty", "partial", "ir", "exe", "part exe"}

\* Type invariant: files, command line and locals; the parser never goes on
\* with max_errors errors counted.
TypeOK ==
    /\ fs \in [Path -> [kind : Kept, run : 0 .. MaxRuns]]
    /\ run \in 0 .. MaxRuns
    /\ opts \in Option
    /\ pc \in {"idle", "output", "input", "parse", "semantic", "generate",
               "close", "link", "return", "exited"}
    /\ error_count \in Nat
    /\ pc = "parse" => error_count < MaxErrors
    /\ exit \in {0, 1, 2}
    /\ write_failed \in BOOLEAN

\* This invocation's product is where it was asked for, all of it.
HasProduct ==
    IF compiling THEN fs[final_output] = Written("exe")
    ELSE opts.out # NoFile => fs[opts.out] = Written("ir")

\* An executable that this invocation made.
MadeExecutable == fs[final_output] \in {Written("exe"), Written("part exe")}

\* The exit code tells what became of the files.  0 is a clean compilation and 2
\* a forced one of a program with errors; both mean that the product is there,
\* made of all the IR of this very invocation and of nothing that an interrupted
\* one left, unless the output could not be written, which the program does not
\* notice.  After 1, no executable was made, unless a signal came after clang.
ExitTellsOutcome ==
    (pc = "exited" /\ how # "read only") =>
        /\ exit = 0 => error_count = 0
        /\ exit = 2 => error_count > 0 /\ opts.force
        /\ exit # 1 => HasProduct \/ write_failed
        /\ (exit = 1 /\ how # "interrupted" /\ compiling) => ~MadeExecutable

\* An invocation that ends with 1 of itself leaves no IR where it was writing,
\* not even what an earlier or an interrupted one had left there: nobody takes
\* it for the product of this one.
FailureLeavesNoIR ==
    (/\ pc = "exited" /\ exit = 1 /\ output # NoFile
     /\ how \notin {"read only", "no output", "interrupted"})
        => fs[output].kind \in {"empty", "absent"}

\* An invocation that leaves through the end of main, or through one of its
\* returns after the parser, leaves no temporary file; those before the parser,
\* where the input cannot be opened, and the exit from within it do.
ReturnRemovesIR ==
    (pc = "exited" /\ how = "returned" /\ compiling /\ ~(opts.debug /\ exit # 1))
        => fs[ir_file] = Absent

\* Every invocation ends, in whichever phase it fails and however many errors
\* the parser recovers from.
EveryRunEnds == (pc # "idle") ~> (pc = "exited")
===============================================================================
