----------------------------- MODULE DriverProofs -----------------------------
(***************************************************************************)
(* Proofs about Driver, for any files, limit of errors and number of runs. *)
(***************************************************************************)
EXTENDS Driver, TLAPS

\* The phases before clang has run, and those in which the output is open and
\* still empty.
Working == {"output", "input", "parse", "semantic", "generate", "close", "link"}
Reading == {"input", "parse", "semantic", "generate"}

NoExecutableYet == \A path \in Path :
    fs[path] # Written("exe") /\ fs[path] # Written("part exe")

\* No file comes from an invocation yet to be, and an invocation that has not
\* run clang has made no executable.
FilesAreOld ==
    /\ \A path \in Path : fs[path].run <= run
    /\ pc \in Working => NoExecutableYet

\* No error is counted before there is an input to read.
NoErrorYet == pc \in {"output", "input"} => error_count = 0

\* Only a program without errors gets to the generator, unless it is forced.
ErrorsAreForced ==
    /\ pc \in {"generate", "close", "link", "return"}
           => error_count = 0 \/ opts.force
    /\ pc = "link" => compiling

\* What is in the output while it is written and used: whatever it held before
\* is gone once it is open, and it is whole when it is used, or else a write has
\* failed.
OutputIsOwn ==
    /\ (pc \in Reading /\ output # NoFile) => fs[output] = Written("empty")
    /\ (pc = "close" /\ output # NoFile)
           => fs[output] = Written("empty") \/ fs[output] = Written("partial")
    /\ pc = "link" => /\ fs[ir_file].run = run
                      /\ fs[ir_file] = Written("ir") \/ write_failed
    /\ pc = "return" => HasProduct \/ write_failed

IInv == /\ TypeOK
        /\ NoErrorYet
        /\ FilesAreOld
        /\ ErrorsAreForced
        /\ OutputIsOwn
        /\ ExitTellsOutcome
        /\ FailureLeavesNoIR
        /\ ReturnRemovesIR

-------------------------------------------------------------------------------
\* Every file an invocation uses is one of the directory's.
LEMMA PathsOfRun ==
    ASSUME opts \in Option
    PROVE  /\ opts.file \in Source /\ opts.out \in OutFile \cup {NoFile}
           /\ ir_file \in Path /\ final_output \in OutFile /\ final_output \in Path
           /\ ir_file # final_output
           /\ output # NoFile => output \in Path
           /\ compiling => output # NoFile
<1>1. opts.file \in Source /\ opts.out \in OutFile \cup {NoFile}
  BY DEF Option
<1>2. ir_file \in Path /\ ir_file \notin OutFile
  BY <1>1, TempAssumption DEF ir_file, Path
<1>3. final_output \in OutFile /\ final_output \in Path
  BY <1>1, PathAssumption DEF final_output, Path
<1>4. output # NoFile => output \in Path
  BY <1>1, <1>2 DEF output, Path
<1>5. compiling => output # NoFile
  BY <1>2, PathAssumption DEF output
<1> QED
  BY <1>1, <1>2, <1>3, <1>4, <1>5

\* What a file may hold.
Content == [kind : Kept, run : 0 .. MaxRuns]

LEMMA PutType ==
    ASSUME NEW path \in Path, NEW c \in Content, fs \in [Path -> Content], Put(path, c)
    PROVE  /\ fs' \in [Path -> Content]
           /\ fs'[path] = c
           /\ \A p \in Path : p # path => fs'[p] = fs[p]
  BY DEF Put

LEMMA ContentType ==
    ASSUME run \in 0 .. MaxRuns
    PROVE  /\ Absent \in Content
           /\ [kind |-> "source", run |-> 0] \in Content
           /\ \A k \in Kept : Written(k) \in Content
  BY LimitAssumption DEF Content, Kept, Absent, Written

LEMMA DiscardType ==
    ASSUME TypeOK, DiscardIR
    PROVE  /\ fs' \in [Path -> Content]
           /\ compiling => fs'[ir_file] = Absent
           /\ \A p \in Path : fs'[p] \in {fs[p], Absent}
<1>0. fs \in [Path -> Content] /\ opts \in Option /\ run \in 0 .. MaxRuns
  BY DEF TypeOK, Content
<1>1. ir_file \in Path /\ Absent \in Content
  BY <1>0, PathsOfRun, ContentType
<1>2. CASE compiling
  <2>1. Put(ir_file, Absent)
    BY <1>2 DEF DiscardIR
  <2> QED
    BY <2>1, <1>0, <1>1, PutType
<1>3. CASE ~compiling
  BY <1>3, <1>0 DEF DiscardIR
<1> QED
  BY <1>2, <1>3

LEMMA ClangType ==
    ASSUME TypeOK, Put(final_output, Executable)
    PROVE  /\ fs' \in [Path -> Content]
           /\ fs'[final_output] = Executable
           /\ \A p \in Path : fs'[p] \in {fs[p], Executable}
<1>0. fs \in [Path -> Content] /\ opts \in Option /\ run \in 0 .. MaxRuns
  BY DEF TypeOK, Content
<1>1. ir_file \in Path /\ final_output \in Path
  BY <1>0, PathsOfRun
<1>2. Executable \in Content
  BY <1>0, <1>1 DEF Content, Kept, Executable
<1> QED
  BY <1>0, <1>1, <1>2, PutType

-------------------------------------------------------------------------------
\* The type invariant.

LEMMA TypeInit == Init => TypeOK /\ NoErrorYet
<1> SUFFICES ASSUME Init PROVE TypeOK /\ NoErrorYet
  OBVIOUS
<1>1. run \in 0 .. MaxRuns /\ error_count \in Nat
  BY LimitAssumption DEF Init
<1>2. Absent \in Content /\ [kind |-> "source", run |-> 0] \in Content
  BY <1>1, ContentType
<1>3. fs \in [Path -> Content]
  BY <1>2 DEF Init
<1> QED
  BY <1>1, <1>3 DEF Init, TypeOK, Content, NoErrorYet

LEMMA TypeStep == TypeOK /\ NoErrorYet /\ [Next]_vars => TypeOK'
<1> SUFFICES ASSUME TypeOK, NoErrorYet, [Next]_vars PROVE TypeOK'
  OBVIOUS
<1> USE LimitAssumption
<1>0. /\ fs \in [Path -> Content] /\ run \in 0 .. MaxRuns /\ opts \in Option
      /\ error_count \in Nat /\ exit \in {0, 1, 2} /\ write_failed \in BOOLEAN
      /\ pc = "parse" => error_count < MaxErrors
  BY DEF TypeOK, Content
<1>c. Absent \in Content /\ [kind |-> "source", run |-> 0] \in Content
      /\ Written("empty") \in Content /\ Written("partial") \in Content
      /\ Written("ir") \in Content
  BY <1>0, ContentType DEF Kept
<1>p. output # NoFile => output \in Path
  BY <1>0, PathsOfRun
<1>1. ASSUME NEW o \in Option, Start(o) PROVE TypeOK'
  <2>1. /\ run < MaxRuns /\ run' = run + 1 /\ opts' = o /\ error_count' = 0
        /\ pc' = "output" /\ UNCHANGED <<fs, exit>> /\ write_failed' = FALSE
    BY <1>1 DEF Start, Goto
  <2>2. run' \in 0 .. MaxRuns
    BY <2>1, <1>0
  <2> QED
    BY <2>1, <2>2, <1>0 DEF TypeOK, Content
<1>2. ASSUME NEW code \in {0, 1}, StartReadOnly(code) PROVE TypeOK'
  <2>1. exit' \in {0, 1, 2} /\ pc' = "exited"
        /\ UNCHANGED <<fs, opts, error_count, write_failed>>
    BY <1>2 DEF StartReadOnly, Exit
  <2>2. run < MaxRuns /\ run' = run + 1
    BY <1>2 DEF StartReadOnly
  <2>3. run' \in 0 .. MaxRuns
    BY <2>2, <1>0
  <2> QED
    BY <2>1, <2>3, <1>0 DEF TypeOK, Content
<1>3. CASE OpenOutput
  <2>1. fs' \in [Path -> Content]
    BY <1>3, <1>0, <1>c, <1>p, PutType DEF OpenOutput
  <2> QED
    BY <2>1, <1>0, <1>3 DEF OpenOutput, Goto, Exit, TypeOK, Content
<1>4. CASE OpenInput
  <2>1. pc' \in {"parse", "exited"} /\ exit' \in {0, 1, 2}
        /\ UNCHANGED <<fs, run, opts, error_count, write_failed>>
    BY <1>0, <1>4 DEF OpenInput, Goto, Exit
  <2>2. pc = "input"
    BY <1>4 DEF OpenInput
  <2>3. error_count = 0 /\ 0 < MaxErrors
    BY <2>2 DEF NoErrorYet
  <2> QED
    BY <2>1, <2>3, <1>0 DEF TypeOK, Content
<1>5. CASE yyerror
  <2>1. error_count' = error_count + 1 /\ UNCHANGED <<fs, run, opts, write_failed>>
    BY <1>5 DEF yyerror
  <2>2. error_count' \in Nat
    BY <2>1, <1>0
  <2>3. CASE error_count' >= MaxErrors
    <3>1. pc' = "exited" /\ exit' = 1
      BY <2>3, <1>5 DEF yyerror, Exit
    <3> QED
      BY <3>1, <2>1, <2>2, <1>0 DEF TypeOK, Content
  <2>4. CASE ~(error_count' >= MaxErrors)
    <3>1. pc' = "parse" /\ exit' = exit
      BY <2>4, <1>5 DEF yyerror, Goto
    <3>2. error_count' < MaxErrors
      BY <2>4, <2>2
    <3> QED
      BY <3>1, <3>2, <2>1, <2>2, <1>0 DEF TypeOK, Content
  <2> QED
    BY <2>3, <2>4
<1>6. CASE ExternalDeclaration
  BY <1>0, <1>6 DEF ExternalDeclaration, TypeOK, Content
<1>7. CASE ParseEnd
  <2>1. fs' \in [Path -> Content]
    BY <1>7, <1>0, DiscardType DEF ParseEnd
  <2> QED
    BY <2>1, <1>0, <1>7 DEF ParseEnd, Goto, Exit, TypeOK, Content
<1>8. ASSUME NEW errors \in {0, 1}, SemanticAnalysis(errors) PROVE TypeOK'
  <2>1. fs' \in [Path -> Content]
    BY <1>8, <1>0, DiscardType DEF SemanticAnalysis
  <2> QED
    BY <2>1, <1>0, <1>8 DEF SemanticAnalysis, Goto, Exit, TypeOK, Content
<1>9. CASE GenerateIR
  <2>1. fs' \in [Path -> Content]
    BY <1>9, <1>0, <1>c, <1>p, PutType DEF GenerateIR
  <2> QED
    BY <2>1, <1>0, <1>9 DEF GenerateIR, Goto, TypeOK, Content
<1>14. CASE CloseOutput
  <2>1. fs' \in [Path -> Content]
    BY <1>14, <1>0, <1>c, <1>p, PutType DEF CloseOutput
  <2>2. write_failed' \in BOOLEAN /\ UNCHANGED <<run, opts, error_count>>
    BY <1>14, <1>0 DEF CloseOutput
  <2>3. pc' \in {"link", "return"} /\ exit' = exit
    BY <1>14 DEF CloseOutput, AfterClose, Goto
  <2> QED
    BY <2>1, <2>2, <2>3, <1>0 DEF TypeOK, Content
<1>10. CASE Link
  <2>1. fs' \in [Path -> Content]
    BY <1>10, <1>0, DiscardType, ClangType DEF Link
  <2> QED
    BY <2>1, <1>0, <1>10 DEF Link, Goto, Exit, TypeOK, Content
<1>15. CASE Return
  <2>1. fs' \in [Path -> Content]
    BY <1>15, <1>0, DiscardType DEF Return
  <2> QED
    BY <2>1, <1>0, <1>15 DEF Return, Exit, ExitCode, TypeOK, Content
<1>11. CASE Interrupt
  BY <1>0, <1>11 DEF Interrupt, Exit, TypeOK, Content
<1>12. ASSUME NEW s \in Source, Prompt(s) PROVE TypeOK'
  <2>1. fs' \in [Path -> Content]
    BY <1>12, <1>0, <1>c DEF Prompt
  <2> QED
    BY <2>1, <1>0, <1>12 DEF Prompt, TypeOK, Content
<1>13. CASE UNCHANGED vars
  BY <1>0, <1>13 DEF vars, TypeOK, Content
<1> QED
  BY <1>1, <1>2, <1>3, <1>4, <1>5, <1>6, <1>7, <1>8, <1>9, <1>10, <1>11, <1>12,
     <1>13, <1>14, <1>15 DEF Next

LEMMA NoErrorStep == NoErrorYet /\ [Next]_vars => NoErrorYet'
<1> SUFFICES ASSUME NoErrorYet, [Next]_vars PROVE NoErrorYet'
  OBVIOUS
<1> USE DEF NoErrorYet, Goto, Exit
<1>1. ASSUME NEW o \in Option, Start(o) PROVE NoErrorYet'
  BY <1>1 DEF Start
<1>2. ASSUME NEW code \in {0, 1}, StartReadOnly(code) PROVE NoErrorYet'
  BY <1>2 DEF StartReadOnly
<1>3. CASE OpenOutput
  BY <1>3 DEF OpenOutput
<1>4. CASE OpenInput
  BY <1>4 DEF OpenInput
<1>5. CASE yyerror
  BY <1>5 DEF yyerror
<1>6. CASE ExternalDeclaration
  BY <1>6 DEF ExternalDeclaration
<1>7. CASE ParseEnd
  BY <1>7 DEF ParseEnd
<1>8. ASSUME NEW errors \in {0, 1}, SemanticAnalysis(errors) PROVE NoErrorYet'
  BY <1>8 DEF SemanticAnalysis
<1>9. CASE GenerateIR
  BY <1>9 DEF GenerateIR
<1>10. CASE Link
  BY <1>10 DEF Link
<1>14. CASE CloseOutput
  BY <1>14 DEF CloseOutput, AfterClose
<1>15. CASE Return
  BY <1>15 DEF Return
<1>11. CASE Interrupt
  BY <1>11 DEF Interrupt
<1>12. ASSUME NEW s \in Source, Prompt(s) PROVE NoErrorYet'
  BY <1>12 DEF Prompt
<1>13. CASE UNCHANGED vars
  BY <1>13 DEF vars
<1> QED
  BY <1>1, <1>2, <1>3, <1>4, <1>5, <1>6, <1>7, <1>8, <1>9, <1>10, <1>11, <1>12,
     <1>13, <1>14, <1>15 DEF Next

\* Files, command line, phase and counters stay what their types say, and the
\* parser never goes on once max_errors errors are counted.
THEOREM TypeCorrect == Spec => []TypeOK
<1> QED
  BY TypeInit, TypeStep, NoErrorStep, PTL DEF Spec

-------------------------------------------------------------------------------
\* Outcomes: what the exit code and the files say when an invocation ends.

Outcomes == FilesAreOld /\ ErrorsAreForced /\ OutputIsOwn /\ ExitTellsOutcome
            /\ FailureLeavesNoIR /\ ReturnRemovesIR

\* What a step before clang leaves in a file.
Before(content) ==
    {content, Absent, Written("empty"), Written("partial"), Written("ir")}

\* A step that makes no executable keeps the files old, and may end with 1.
LEMMA NoExecutable ==
    ASSUME TypeOK, FilesAreOld, pc \in Working, UNCHANGED <<run, opts>>,
           \A p \in Path : fs'[p] \in Before(fs[p])
    PROVE  FilesAreOld' /\ (exit' = 1 => ExitTellsOutcome')
<1>0. run \in 0 .. MaxRuns /\ opts \in Option /\ MaxRuns \in Nat
  BY LimitAssumption DEF TypeOK
<1>1. \A p \in Path : /\ fs[p].run <= run
                      /\ fs[p] # Written("exe") /\ fs[p] # Written("part exe")
  BY DEF FilesAreOld, NoExecutableYet
<1>2. ASSUME NEW p \in Path
      PROVE  /\ fs'[p].run <= run
             /\ fs'[p] # Written("exe") /\ fs'[p] # Written("part exe")
  <2>1. CASE fs'[p] = fs[p]
    BY <2>1, <1>1
  <2>0. /\ Written("exe").kind = "exe" /\ Written("part exe").kind = "part exe"
        /\ Absent.kind = "absent" /\ Absent.run = 0 /\ 0 <= run /\ run <= run
    BY <1>0 DEF Absent, Written
  <2>2. CASE fs'[p] = Absent
    BY <2>0, <2>2
  <2>3. ASSUME NEW kind \in {"empty", "partial", "ir"}, fs'[p] = Written(kind)
        PROVE  /\ fs'[p].run <= run
               /\ fs'[p] # Written("exe") /\ fs'[p] # Written("part exe")
    <3>1. Written(kind).kind = kind /\ Written(kind).run = run
      BY DEF Written
    <3> QED
      BY <2>0, <2>3, <3>1
  <2> QED
    BY <2>1, <2>2, <2>3 DEF Before
<1>3. Written("exe")' = Written("exe") /\ Written("part exe")' = Written("part exe")
  BY DEF Written
<1>4. FilesAreOld'
  BY <1>2, <1>3 DEF FilesAreOld, NoExecutableYet
<1>5. final_output \in Path /\ final_output' = final_output
  BY <1>0, PathsOfRun DEF final_output
<1>6. ~MadeExecutable'
  BY <1>2, <1>3, <1>5 DEF MadeExecutable
<1>7. ASSUME exit' = 1 PROVE ExitTellsOutcome'
  <2>1. exit' # 0 /\ exit' # 2
    BY <1>7
  <2> QED
    BY <2>1, <1>6, <1>7, Zenon DEF ExitTellsOutcome
<1> QED
  BY <1>4, <1>7

\* A step into a phase that is not the end.
LEMMA StillGoing ==
    ASSUME pc' # "exited"
    PROVE  ExitTellsOutcome' /\ FailureLeavesNoIR' /\ ReturnRemovesIR'
  BY DEF ExitTellsOutcome, FailureLeavesNoIR, ReturnRemovesIR

\* The ways out before clang has made anything that return from main remove the
\* temporary file.
LEMMA Removed ==
    ASSUME TypeOK, FilesAreOld, pc \in Working, UNCHANGED <<run, opts>>,
           compiling \/ (output # NoFile => fs[output] = Written("empty")),
           DiscardIR, Exit(1, "returned")
    PROVE  Outcomes'
<1>1. \A p \in Path : fs'[p] \in Before(fs[p])
  BY DiscardType DEF Before
<1>2. exit' = 1 /\ pc' = "exited"
  BY DEF Exit
<1>3. FilesAreOld' /\ ExitTellsOutcome'
  BY <1>1, <1>2, NoExecutable
<1>4. compiling => fs'[ir_file] = Absent
  BY DiscardType
<1>5. /\ compiling' = compiling /\ ir_file' = ir_file /\ Absent' = Absent
      /\ output' = output
  BY DEF compiling, ir_file, Absent, output
<1>6. ReturnRemovesIR'
  BY <1>4, <1>5 DEF ReturnRemovesIR
<1>7. FailureLeavesNoIR'
  <2>1. CASE compiling
    <3>1. output = ir_file
      BY <2>1 DEF output
    <3>2. fs'[output'].kind = "absent"
      BY <2>1, <3>1, <1>4, <1>5 DEF Absent
    <3> QED
      BY <3>2 DEF FailureLeavesNoIR
  <2>2. CASE ~compiling
    <3>1. fs' = fs
      BY <2>2 DEF DiscardIR
    <3>2. output' # NoFile => fs'[output'].kind = "empty"
      BY <2>2, <3>1, <1>5 DEF Written
    <3> QED
      BY <3>2 DEF FailureLeavesNoIR
  <2> QED
    BY <2>1, <2>2
<1> QED
  BY <1>2, <1>3, <1>6, <1>7 DEF Outcomes, ErrorsAreForced, OutputIsOwn, Reading

\* An end that is not a return, before clang has run.
LEMMA Stopped ==
    ASSUME TypeOK, FilesAreOld, pc \in Working, UNCHANGED <<fs, run, opts>>,
           NEW way \in {"no output", "no input", "too many errors", "interrupted"},
           way \in {"no input", "too many errors"}
               => (output # NoFile => fs[output] = Written("empty")),
           Exit(1, way)
    PROVE  Outcomes'
<1>1. exit' = 1 /\ pc' = "exited" /\ how' = way /\ how' # "returned"
  BY DEF Exit
<1>2. FilesAreOld' /\ ExitTellsOutcome'
  BY <1>1, NoExecutable DEF Before
<1>3. output' = output
  BY DEF output, compiling, ir_file
<1>4. FailureLeavesNoIR'
  <2>1. CASE way \in {"no output", "interrupted"}
    BY <2>1, <1>1 DEF FailureLeavesNoIR
  <2>2. CASE way \in {"no input", "too many errors"}
    <3>1. output' # NoFile => fs'[output'].kind = "empty"
      <4>1. output # NoFile => fs[output] = Written("empty")
        BY <2>2
      <4>2. Written("empty").kind = "empty"
        BY DEF Written
      <4> QED
        BY <4>1, <4>2, <1>3
    <3> QED
      BY <3>1 DEF FailureLeavesNoIR
  <2> QED
    BY <2>1, <2>2
<1> QED
  BY <1>1, <1>2, <1>4
     DEF Outcomes, ErrorsAreForced, OutputIsOwn, Reading, ReturnRemovesIR

LEMMA OutcomesInit == Init => Outcomes
<1> SUFFICES ASSUME Init PROVE Outcomes
  OBVIOUS
<1>1. \A p \in Path : fs[p].run <= run
  BY DEF Init, Absent
<1> QED
  BY <1>1 DEF Init, Outcomes, FilesAreOld, Working, Reading, ErrorsAreForced,
              OutputIsOwn, ExitTellsOutcome, FailureLeavesNoIR, ReturnRemovesIR

\* The next invocation finds only files of earlier ones.
LEMMA NextRun ==
    ASSUME TypeOK, FilesAreOld, run' = run + 1, fs' = fs
    PROVE  /\ \A p \in Path : fs'[p].run <= run'
           /\ NoExecutableYet'
<1>1. run \in Nat /\ fs \in [Path -> Content]
  BY LimitAssumption DEF TypeOK, Content
<1>2. ASSUME NEW p \in Path
      PROVE  /\ fs'[p].run <= run'
             /\ fs'[p] # Written("exe")' /\ fs'[p] # Written("part exe")'
  <2>1. fs[p].run \in Nat /\ fs[p].run <= run
    BY <1>1 DEF Content, FilesAreOld
  <2>2. Written("exe")'.run = run + 1 /\ Written("part exe")'.run = run + 1
    BY DEF Written
  <2>3. fs'[p].run # run + 1 /\ fs'[p].run <= run'
    BY <2>1, <1>1
  <2> QED
    BY <2>2, <2>3
<1> QED
  BY <1>2 DEF NoExecutableYet

LEMMA StartOutcomes ==
    ASSUME TypeOK, Outcomes, NEW o \in Option, Start(o)
    PROVE  Outcomes'
<1>1. run' = run + 1 /\ fs' = fs /\ pc' = "output"
  BY DEF Start, Goto
<1> QED
  BY <1>1, NextRun, StillGoing
     DEF Outcomes, FilesAreOld, ErrorsAreForced, OutputIsOwn, Reading

LEMMA ReadOnlyOutcomes ==
    ASSUME TypeOK, Outcomes, NEW code \in {0, 1}, StartReadOnly(code)
    PROVE  Outcomes'
<1>1. run' = run + 1 /\ fs' = fs /\ pc' = "exited" /\ how' = "read only"
  BY DEF StartReadOnly, Exit
<1> QED
  BY <1>1, NextRun DEF Outcomes, FilesAreOld, ErrorsAreForced, OutputIsOwn, Reading,
                       ExitTellsOutcome, FailureLeavesNoIR, ReturnRemovesIR

\* What OpenOutput, GenerateIR and CloseOutput write.
LEMMA OutputWritten ==
    ASSUME TypeOK, NEW kind \in {"empty", "partial", "ir"},
           IF output = NoFile THEN UNCHANGED fs ELSE Put(output, Written(kind))
    PROVE  /\ \A p \in Path : fs'[p] \in Before(fs[p])
           /\ output # NoFile => fs'[output] = Written(kind)
<1>0. fs \in [Path -> Content] /\ opts \in Option /\ run \in 0 .. MaxRuns
  BY DEF TypeOK, Content
<1>1. Written(kind) \in Content
      /\ Written(kind) \in {Written("empty"), Written("partial"), Written("ir")}
  BY <1>0, ContentType DEF Kept
<1>2. CASE output = NoFile
  BY <1>2 DEF Before
<1>3. CASE output # NoFile
  <2>1. output \in Path /\ Put(output, Written(kind))
    BY <1>3, <1>0, PathsOfRun
  <2> QED
    BY <2>1, <1>0, <1>1, PutType DEF Before
<1> QED
  BY <1>2, <1>3

\* A step within the phases that write no file: the output stays empty.
LEMMA OnwardOutcomes ==
    ASSUME TypeOK, Outcomes, pc \in Reading, UNCHANGED <<fs, run, opts>>,
           pc' \in Reading, pc' = "generate" => error_count' = 0 \/ opts.force
    PROVE  Outcomes'
<1>1. FilesAreOld'
  BY NoExecutable DEF Outcomes, Before, Working, Reading
<1>2. /\ output' = output /\ Written("empty")' = Written("empty")
      /\ pc' \notin {"close", "link", "return", "exited"}
  BY DEF output, compiling, ir_file, Written, Reading
<1>3. OutputIsOwn'
  BY <1>2 DEF Outcomes, OutputIsOwn
<1>4. ErrorsAreForced'
  BY <1>2 DEF ErrorsAreForced
<1> QED
  BY <1>1, <1>2, <1>3, <1>4, StillGoing DEF Outcomes

LEMMA OpenOutputOutcomes ==
    ASSUME TypeOK, Outcomes, OpenOutput
    PROVE  Outcomes'
<1>1. pc \in Working /\ UNCHANGED <<run, opts>> /\ FilesAreOld
  BY DEF OpenOutput, Working, Outcomes
<1>2. CASE Exit(1, "no output") /\ UNCHANGED fs
  BY <1>1, <1>2, Stopped
<1>3. CASE /\ IF output = NoFile THEN UNCHANGED fs ELSE Put(output, Written("empty"))
           /\ Goto("input")
  <2>1. /\ \A p \in Path : fs'[p] \in Before(fs[p])
        /\ output # NoFile => fs'[output] = Written("empty")
    BY <1>3, OutputWritten
  <2>2. FilesAreOld'
    BY <2>1, <1>1, NoExecutable
  <2>3. pc' = "input" /\ output' = output /\ Written("empty")' = Written("empty")
    BY <1>1, <1>3 DEF Goto, output, compiling, ir_file, Written
  <2>4. OutputIsOwn'
    BY <2>1, <2>3 DEF OutputIsOwn
  <2> QED
    BY <2>2, <2>3, <2>4, StillGoing DEF Outcomes, ErrorsAreForced
<1> QED
  BY <1>2, <1>3 DEF OpenOutput

LEMMA GenerateOutcomes ==
    ASSUME TypeOK, Outcomes, GenerateIR
    PROVE  Outcomes'
<1>1. /\ pc \in Working /\ FilesAreOld /\ pc' = "close"
      /\ UNCHANGED <<run, opts, error_count>>
      /\ error_count = 0 \/ opts.force
      /\ output # NoFile => fs[output] = Written("empty")
  BY DEF GenerateIR, Goto, Working, Reading, Outcomes, ErrorsAreForced, OutputIsOwn
<1>2. /\ output' = output /\ Written("empty")' = Written("empty")
      /\ Written("partial")' = Written("partial")
  BY <1>1 DEF output, compiling, ir_file, Written
<1>3. /\ \A p \in Path : fs'[p] \in Before(fs[p])
      /\ output # NoFile
           => fs'[output] = Written("empty") \/ fs'[output] = Written("partial")
  <2>1. CASE UNCHANGED fs
    BY <2>1, <1>1 DEF Before
  <2>2. CASE output # NoFile /\ Put(output, Written("partial"))
    BY <2>2, OutputWritten
  <2> QED
    BY <2>1, <2>2 DEF GenerateIR
<1>4. FilesAreOld'
  BY <1>1, <1>3, NoExecutable
<1>5. OutputIsOwn'
  BY <1>1, <1>2, <1>3 DEF OutputIsOwn, Reading
<1>6. ErrorsAreForced'
  BY <1>1 DEF ErrorsAreForced
<1> QED
  BY <1>1, <1>4, <1>5, <1>6, StillGoing DEF Outcomes

LEMMA CloseOutcomes ==
    ASSUME TypeOK, Outcomes, CloseOutput
    PROVE  Outcomes'
<1>1. /\ pc \in Working /\ FilesAreOld /\ UNCHANGED <<run, opts, error_count>>
      /\ error_count = 0 \/ opts.force
      /\ pc' = AfterClose /\ opts \in Option
      /\ output # NoFile =>
             fs[output] = Written("empty") \/ fs[output] = Written("partial")
  BY DEF CloseOutput, Goto, Working, Outcomes, ErrorsAreForced, OutputIsOwn, TypeOK
<1>2. /\ output' = output /\ compiling' = compiling /\ ir_file' = ir_file
      /\ final_output' = final_output /\ Written("ir")' = Written("ir")
  BY <1>1 DEF output, compiling, ir_file, final_output, Written
<1>3. /\ \A p \in Path : fs'[p] \in Before(fs[p])
      /\ output # NoFile => fs'[output].run = run
      /\ output # NoFile => fs'[output] = Written("ir") \/ write_failed'
  <2>1. CASE output = NoFile /\ UNCHANGED fs
    BY <2>1 DEF Before
  <2>2. CASE output # NoFile /\ Put(output, Written("ir"))
    <3>1. /\ \A p \in Path : fs'[p] \in Before(fs[p])
          /\ fs'[output] = Written("ir")
      BY <2>2, OutputWritten
    <3> QED
      BY <3>1 DEF Written
  <2>3. CASE output # NoFile /\ UNCHANGED fs /\ write_failed' = TRUE
    BY <2>3, <1>1 DEF Before, Written
  <2> QED
    BY <2>1, <2>2, <2>3 DEF CloseOutput
<1>4. FilesAreOld'
  BY <1>1, <1>3, NoExecutable
<1>5. pc' \in {"link", "return"} /\ (pc' = "link" <=> compiling)
  BY <1>1 DEF AfterClose
<1>6. OutputIsOwn'
  <2>1. CASE compiling
    <3>1. output = ir_file /\ output # NoFile
      BY <2>1, <1>1, PathsOfRun DEF output
    <3> QED
      BY <2>1, <3>1, <1>1, <1>2, <1>3, <1>5 DEF OutputIsOwn, Reading
  <2>2. CASE ~compiling
    <3>1. output = opts.out
      BY <2>2 DEF output
    <3>2. HasProduct' \/ write_failed'
      BY <2>2, <3>1, <1>1, <1>2, <1>3 DEF HasProduct
    <3> QED
      BY <2>2, <3>2, <1>5 DEF OutputIsOwn, Reading
  <2> QED
    BY <2>1, <2>2
<1>7. ErrorsAreForced'
  BY <1>1, <1>2, <1>5 DEF ErrorsAreForced
<1> QED
  BY <1>4, <1>5, <1>6, <1>7, StillGoing DEF Outcomes

LEMMA LinkOutcomes ==
    ASSUME TypeOK, Outcomes, Link
    PROVE  Outcomes'
<1>0. /\ pc \in Working /\ FilesAreOld /\ run \in Nat /\ compiling
      /\ UNCHANGED <<run, opts, error_count, write_failed>> /\ opts \in Option
      /\ error_count = 0 \/ opts.force
      /\ fs[ir_file].run = run
      /\ fs[ir_file] = Written("ir") \/ write_failed
  BY DEF Link, Working, Outcomes, ErrorsAreForced, OutputIsOwn, TypeOK
<1>1. CASE DiscardIR /\ Exit(1, "returned")
  BY <1>0, <1>1, Removed
<1>2. CASE Put(final_output, Executable) /\ Goto("return")
  <2>1. /\ fs'[final_output] = Executable
        /\ \A p \in Path : fs'[p] \in {fs[p], Executable}
    BY <1>2, ClangType
  <2>2. Executable.run = run
    BY <1>0 DEF Executable
  <2>3. pc' = "return"
    BY <1>2 DEF Goto
  <2>4. FilesAreOld'
    <3>1. ASSUME NEW p \in Path PROVE fs'[p].run <= run
      <4>1. fs[p].run <= run
        BY <1>0 DEF FilesAreOld
      <4> QED
        BY <2>1, <2>2, <4>1, <1>0
    <3> QED
      BY <3>1, <2>3, <1>0 DEF FilesAreOld, Working
  <2>5. HasProduct' \/ write_failed'
    <3>1. CASE write_failed
      BY <3>1, <1>0
    <3>2. CASE fs[ir_file] = Written("ir")
      <4>1. Executable = Written("exe")
        BY <3>2, <1>0 DEF Executable, Written
      <4>2. /\ compiling' /\ final_output' = final_output
            /\ Written("exe")' = Written("exe")
        BY <1>0 DEF compiling, final_output, Written
      <4> QED
        BY <2>1, <4>1, <4>2 DEF HasProduct
    <3> QED
      BY <3>1, <3>2, <1>0
  <2>6. OutputIsOwn'
    BY <2>3, <2>5 DEF OutputIsOwn, Reading
  <2>7. ErrorsAreForced'
    BY <2>3, <1>0 DEF ErrorsAreForced
  <2> QED
    BY <2>3, <2>4, <2>6, <2>7, StillGoing DEF Outcomes
<1> QED
  BY <1>1, <1>2 DEF Link

\* The end of main changes one file at most: the temporary one.
LEMMA ReturnOutcomes ==
    ASSUME TypeOK, Outcomes, Return
    PROVE  Outcomes'
<1>0. /\ opts \in Option /\ error_count \in Nat /\ run \in Nat
      /\ UNCHANGED <<run, opts, error_count, write_failed>>
      /\ error_count = 0 \/ opts.force
      /\ HasProduct \/ write_failed
      /\ pc' = "exited" /\ exit' = ExitCode /\ how' = "returned"
  BY DEF Return, Exit, Outcomes, ErrorsAreForced, OutputIsOwn, TypeOK
<1>1. /\ ir_file \in Path /\ final_output \in Path /\ ir_file # final_output
  BY <1>0, PathsOfRun
<1>2. /\ \A p \in Path : fs'[p] \in {fs[p], Absent}
      /\ compiling /\ ~opts.debug => fs'[ir_file] = Absent
      /\ compiling => fs'[final_output] = fs[final_output]
      /\ ~compiling => fs' = fs
  <2>1. CASE opts.debug /\ UNCHANGED fs
    BY <2>1
  <2>2. CASE ~opts.debug /\ DiscardIR
    <3>1. CASE compiling
      <4>1. Put(ir_file, Absent) /\ fs \in [Path -> Content]
        BY <2>2, <3>1 DEF DiscardIR, TypeOK, Content
      <4> QED
        BY <3>1, <4>1, <1>1 DEF Put
    <3>2. CASE ~compiling
      BY <2>2, <3>2 DEF DiscardIR
    <3> QED
      BY <3>1, <3>2
  <2> QED
    BY <2>1, <2>2 DEF Return
<1>3. /\ compiling' = compiling /\ ir_file' = ir_file /\ final_output' = final_output
      /\ Written("exe")' = Written("exe") /\ Written("ir")' = Written("ir")
      /\ Absent' = Absent
  BY <1>0 DEF compiling, ir_file, final_output, Written, Absent
<1>4. HasProduct' \/ write_failed'
  BY <1>0, <1>2, <1>3 DEF HasProduct
<1>5. /\ exit' # 1
      /\ exit' = 0 => error_count' = 0
      /\ exit' = 2 => error_count' > 0 /\ opts'.force
  BY <1>0 DEF ExitCode
<1>6. ExitTellsOutcome' /\ FailureLeavesNoIR'
  BY <1>4, <1>5, Zenon DEF ExitTellsOutcome, FailureLeavesNoIR
<1>7. ReturnRemovesIR'
  <2>1. opts'.debug = opts.debug
    BY <1>0
  <2>2. (compiling' /\ ~(opts'.debug /\ exit' # 1)) => fs'[ir_file'] = Absent'
    BY <1>2, <1>3, <1>5, <2>1
  <2> QED
    BY <2>2 DEF ReturnRemovesIR
<1>8. FilesAreOld'
  <2>1. ASSUME NEW p \in Path PROVE fs'[p].run <= run
    <3>1. fs[p].run <= run
      BY DEF Outcomes, FilesAreOld
    <3>2. Absent.run <= run
      BY <1>0 DEF Absent
    <3> QED
      BY <3>1, <3>2, <1>2
  <2> QED
    BY <2>1, <1>0 DEF FilesAreOld, Working
<1> QED
  BY <1>0, <1>6, <1>7, <1>8 DEF Outcomes, ErrorsAreForced, OutputIsOwn, Reading

\* A signal leaves the files as they are.
LEMMA InterruptOutcomes ==
    ASSUME TypeOK, Outcomes, Interrupt
    PROVE  Outcomes'
<1>1. /\ UNCHANGED <<fs, run, opts>> /\ Exit(1, "interrupted")
      /\ pc \in Working \cup {"return"}
  BY DEF Interrupt, Working, TypeOK
<1>2. pc' = "exited" /\ exit' = 1 /\ how' = "interrupted"
  BY <1>1 DEF Exit
<1>3. FilesAreOld'
  BY <1>1, <1>2 DEF Outcomes, FilesAreOld, Working
<1>4. ExitTellsOutcome'
  BY <1>2 DEF ExitTellsOutcome
<1>5. FailureLeavesNoIR' /\ ReturnRemovesIR'
  BY <1>2 DEF FailureLeavesNoIR, ReturnRemovesIR
<1> QED
  BY <1>2, <1>3, <1>4, <1>5 DEF Outcomes, ErrorsAreForced, OutputIsOwn, Reading

LEMMA PromptOutcomes ==
    ASSUME TypeOK, Outcomes, NEW s \in Source, Prompt(s)
    PROVE  Outcomes'
<1>1. /\ pc' = "idle" /\ run' = run /\ run \in Nat /\ fs \in [Path -> Content]
      /\ s \in Path
  BY DEF Prompt, TypeOK, Content, Path
<1>2. ASSUME NEW p \in Path PROVE fs'[p].run <= run
  <2>1. fs[p].run <= run
    BY DEF Outcomes, FilesAreOld
  <2>2. fs'[p] \in {fs[p], Absent, [kind |-> "source", run |-> 0]}
    BY <1>1 DEF Prompt
  <2>3. Absent.run <= run /\ [kind |-> "source", run |-> 0].run <= run
    BY <1>1 DEF Absent
  <2> QED
    BY <2>1, <2>2, <2>3
<1> QED
  BY <1>1, <1>2, StillGoing
     DEF Outcomes, FilesAreOld, Working, Reading, ErrorsAreForced, OutputIsOwn

\* The steps of the parser and of the analysis: on to a phase that reads, or out.
LEMMA ReadingOutcomes ==
    ASSUME TypeOK, Outcomes,
           \/ OpenInput \/ yyerror \/ ExternalDeclaration \/ ParseEnd
           \/ \E errors \in {0, 1} : SemanticAnalysis(errors)
    PROVE  Outcomes'
<1>1. /\ pc \in Reading /\ pc \in Working /\ pc # "generate"
      /\ UNCHANGED <<run, opts>> /\ FilesAreOld
  BY DEF OpenInput, yyerror, ExternalDeclaration, ParseEnd, SemanticAnalysis,
         Reading, Working, Outcomes
<1>2. output # NoFile => fs[output] = Written("empty")
  BY <1>1 DEF Outcomes, OutputIsOwn
<1>3. \/ /\ UNCHANGED fs
         /\ \E way \in {"no input", "too many errors"} : Exit(1, way)
      \/ DiscardIR /\ Exit(1, "returned")
      \/ /\ UNCHANGED fs /\ pc' \in Reading
         /\ pc' = "generate" => error_count' = 0 \/ opts.force
  <2>1. CASE OpenInput
    BY <2>1 DEF OpenInput, Goto, Reading
  <2>2. CASE yyerror
    BY <2>2 DEF yyerror, Goto, Reading
  <2>3. CASE ExternalDeclaration
    BY <2>3 DEF ExternalDeclaration, Reading
  <2>4. CASE ParseEnd
    BY <2>4 DEF ParseEnd, Goto, Reading
  <2>5. CASE \E errors \in {0, 1} : SemanticAnalysis(errors)
    BY <2>5 DEF SemanticAnalysis, Goto, Reading
  <2> QED
    BY <2>1, <2>2, <2>3, <2>4, <2>5
<1>4. CASE DiscardIR /\ Exit(1, "returned")
  BY <1>1, <1>2, <1>4, Removed
<1>5. CASE /\ UNCHANGED fs
           /\ \E way \in {"no input", "too many errors"} : Exit(1, way)
  BY <1>1, <1>2, <1>5, Stopped
<1>6. CASE /\ UNCHANGED fs /\ pc' \in Reading
           /\ pc' = "generate" => error_count' = 0 \/ opts.force
  BY <1>1, <1>6, OnwardOutcomes
<1> QED
  BY <1>3, <1>4, <1>5, <1>6

LEMMA OutcomesStep == TypeOK /\ Outcomes /\ [Next]_vars => Outcomes'
<1> SUFFICES ASSUME TypeOK, Outcomes, [Next]_vars PROVE Outcomes'
  OBVIOUS
<1>1. CASE UNCHANGED vars
  <2> USE <1>1 DEF vars
  <2>1. FilesAreOld' /\ ErrorsAreForced'
    BY DEF Outcomes, FilesAreOld, NoExecutableYet, ErrorsAreForced, Written, compiling
  <2>2. OutputIsOwn'
    BY DEF Outcomes, OutputIsOwn, HasProduct, Written, compiling, ir_file, final_output,
           output
  <2>3. ExitTellsOutcome'
    BY DEF Outcomes, ExitTellsOutcome, MadeExecutable, HasProduct, Written, compiling,
           ir_file, final_output
  <2>4. FailureLeavesNoIR' /\ ReturnRemovesIR'
    BY DEF Outcomes, FailureLeavesNoIR, ReturnRemovesIR, Absent, compiling, ir_file, output
  <2> QED
    BY <2>1, <2>2, <2>3, <2>4 DEF Outcomes
<1> QED
  BY <1>1, StartOutcomes, ReadOnlyOutcomes, OpenOutputOutcomes, ReadingOutcomes,
     GenerateOutcomes, CloseOutcomes, LinkOutcomes, ReturnOutcomes, InterruptOutcomes,
     PromptOutcomes DEF Next

\* The inductive invariant of the driver.
THEOREM Inductive == Spec => []IInv
<1>1. Init => IInv
  BY TypeInit, OutcomesInit DEF IInv, Outcomes
<1>2. IInv /\ [Next]_vars => IInv'
  BY TypeStep, NoErrorStep, OutcomesStep DEF IInv, Outcomes
<1> QED
  BY <1>1, <1>2, PTL DEF Spec

\* The exit code tells what became of the files, whatever earlier invocations,
\* interrupted ones among them, have left, and wherever a signal comes.
THEOREM ExitTellsOutcomeCorrect == Spec => []ExitTellsOutcome
<1>1. IInv => ExitTellsOutcome
  BY DEF IInv
<1> QED
  BY <1>1, Inductive, PTL

\* No failure leaves IR, old or new, where the output was to be.
THEOREM FailureLeavesNoIRCorrect == Spec => []FailureLeavesNoIR
<1>1. IInv => FailureLeavesNoIR
  BY DEF IInv
<1> QED
  BY <1>1, Inductive, PTL

\* No return of main from the parser on leaves a temporary file behind.
THEOREM ReturnRemovesIRCorrect == Spec => []ReturnRemovesIR
<1>1. IInv => ReturnRemovesIR
  BY DEF IInv
<1> QED
  BY <1>1, Inductive, PTL
===============================================================================
