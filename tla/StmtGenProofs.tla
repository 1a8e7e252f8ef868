---------------------------- MODULE StmtGenProofs ----------------------------
(***************************************************************************)
(* Theorems about StmtGen, for every set of names and kinds of statement   *)
(* and every bound on the size of the program.                             *)
(***************************************************************************)
EXTENDS StmtGen, SequenceTheorems, TLAPS

\* The shape of what the handlers keep, and of the scopes.
TargetPrefix == {"NULL", "while_cond", "while_end", "for_update", "for_end",
                 "do_cond", "do_end", "switch_end"}
Target == TargetPrefix \X Nat
FrameType ==
    [at : FrameKinds, base : Nat, has_else : BOOLEAN,
     prev_return_state : BOOLEAN, then_terminates : BOOLEAN,
     prev_break : Target, prev_continue : Target, prev_switch_end : Target,
     live : BOOLEAN, then_live : BOOLEAN]
AnyName == VarName \cup LabelName \cup FuncName
SymbolKind == {"VARIABLE", "FUNCTION", "LABEL"}
ScopeType == UNION {[names -> SymbolKind] : names \in SUBSET AnyName}

\* Only the outermost handler is generate_function, and its label counters are
\* behind the current one.
Stacked(fs, counter) ==
    /\ fs \in Seq(FrameType)
    /\ \A i \in DOMAIN fs :
          /\ fs[i].at = "function" <=> i = 1
          /\ fs[i].base <= counter

ContextTyped ==
    /\ in_return_block \in BOOLEAN
    /\ current_break_label \in Target
    /\ current_continue_label \in Target
    /\ current_switch_end_label \in Target
    /\ label_counter \in Nat
    /\ live \in BOOLEAN

\* A statement is generated inside a function, the second pass outside one.
ModeFollowsFrames ==
    /\ mode \in {"declare", "call", "return", "done"}
    /\ mode = "call" => frames # <<>>
    /\ mode \in {"declare", "done"} => frames = <<>>

ShapeInv ==
    /\ ContextTyped
    /\ Stacked(frames, label_counter)
    /\ ModeFollowsFrames
    /\ scopes \in Seq(ScopeType)
    /\ ScopesFollowFrames

\* What the rest of TypeOK says.
OutputTyped ==
    /\ nodes \in 0 .. MaxNodes
    /\ ir.block \in {"none", "open", "closed"}
    /\ (ir.block = "none") = (frames = <<>>)
    /\ lost \subseteq AllKinds \cup {"global"}

-------------------------------------------------------------------------------
\* The targets of break and continue.

Loops == {"while", "for", "do"}
Breakable == Loops \cup {"switch"}

\* The targets that the first k handlers set, without naming the innermost.
IsBreakAt(fs, k, l) ==
    \/ l = NoLabel /\ \A i \in 1 .. k : fs[i].at \notin Breakable
    \/ \E i \in 1 .. k :
          /\ fs[i].at \in Breakable
          /\ l = BreakTarget(fs[i])
          /\ \A j \in i + 1 .. k : fs[j].at \notin Breakable
IsContinueAt(fs, k, l) ==
    \/ l = NoLabel /\ \A i \in 1 .. k : fs[i].at \notin Loops
    \/ \E i \in 1 .. k :
          /\ fs[i].at \in Loops
          /\ l = ContinueTarget(fs[i])
          /\ \A j \in i + 1 .. k : fs[j].at \notin Loops

\* The current targets are those of the whole stack, the saved ones those of
\* the handlers below the one that saved them.
TargetsOf(fs, break, continue) ==
    /\ IsBreakAt(fs, Len(fs), break)
    /\ IsContinueAt(fs, Len(fs), continue)
    /\ \A i \in DOMAIN fs :
          /\ IsBreakAt(fs, i - 1, fs[i].prev_break)
          /\ IsContinueAt(fs, i - 1, fs[i].prev_continue)

TargetInv == TargetsOf(frames, current_break_label, current_continue_label)

-------------------------------------------------------------------------------
\* The flag.

\* Without switch, a handler other than those of a block or a function was
\* entered at a point control reaches, and a branch remembers whether it ended
\* in a jump.
FrameAgrees(f) ==
    /\ f.at # "switch"
    /\ f.at \notin {"function", "compound"} => ~f.prev_return_state /\ f.live
    /\ f.at = "else" => (f.then_terminates <=> ~f.then_live)
FlagInv ==
    /\ FlagIsUnreachability
    /\ \A i \in DOMAIN frames : FrameAgrees(frames[i])

-------------------------------------------------------------------------------
\* The text.

\* The labels a waiting handler has yet to print, those of them that nothing
\* may branch to, and those it has printed and will branch to.
Pending(f) ==
    CASE f.at = "then" -> IF f.has_else THEN {IfElse(f.base), IfEnd(f.base)}
                          ELSE {IfEnd(f.base)}
      [] f.at = "else" -> {IfEnd(f.base)}
      [] f.at = "while" -> {WhileEnd(f.base)}
      [] f.at = "for" -> {ForUpdate(f.base), ForEnd(f.base)}
      [] f.at = "do" -> {DoCond(f.base), DoEnd(f.base)}
      [] f.at = "switch" -> {SwitchEnd(f.base)}
      [] OTHER -> {}
Unused(f) ==
    IF \/ f.at = "then" /\ f.has_else
       \/ f.at = "else" /\ f.then_terminates
    THEN {IfEnd(f.base)} ELSE {}
Anchors(f) ==
    CASE f.at = "while" -> {WhileCond(f.base)}
      [] f.at = "for" -> {ForCond(f.base)}
      [] f.at = "do" -> {DoBody(f.base)}
      [] OTHER -> {}

PendingIn(fs) == UNION {Pending(fs[i]) : i \in DOMAIN fs}
UnusedIn(fs) == UNION {Unused(fs[i]) : i \in DOMAIN fs}

\* A program in which every statement has one way in and every label is
\* generated.
Structured == Kinds \cap {"switch", "goto", "label"} = {}

Number(l) == l[2]

\* The faults GeneratedLabelsAreSound and FunctionsAreWellFormed allow.
Tolerated(faults) ==
    /\ \A fault \in faults :
          /\ fault[1] # "orphan"
          /\ fault[1] \in {"duplicate", "undefined"} => Number(fault[2]) = 0
    /\ Structured => faults = {}

\* The text r so far, when the labels in pending are still to be printed, those
\* in unused are branched to by nothing, and counter labels were generated.
Sound(r, pending, unused, counter) ==
    /\ counter \in Nat
    /\ r.block \in {"open", "closed"}
    /\ \A l \in r.defs \cup r.refs \cup pending \cup unused :
          Number(l) \in 0 .. counter
    /\ \A l \in pending : Number(l) # 0
    /\ pending \cap r.defs = {}
    /\ unused \cap r.refs = {}
    /\ \A l \in r.refs : l \in r.defs \/ l \in pending \/ Number(l) = 0
    /\ Structured => \A l \in r.defs \cup r.refs : Number(l) # 0
    /\ Tolerated(r.faults)

\* No line follows a terminator without a label: the block is open where the
\* flag is not set, and closed where it is.
BlockFollowsFlag ==
    /\ ~in_return_block => ir.block = "open"
    /\ Structured /\ in_return_block => ir.block = "closed"

\* What a waiting handler relies on: the labels it will go back to are printed,
\* and only a block or a function is entered with the flag set.
FrameSound(f, defs) ==
    /\ Anchors(f) \subseteq defs
    /\ f.at \notin {"function", "compound"} => ~f.prev_return_state
    /\ f.at = "switch" => ~Structured

\* The labels that the handlers of the stack fs will print are their own.
StackSound(fs, r, counter) ==
    /\ Sound(r, PendingIn(fs), UnusedIn(fs), counter)
    /\ \A i, j \in DOMAIN fs : i # j => Pending(fs[i]) \cap Pending(fs[j]) = {}
    /\ \A i \in DOMAIN fs : FrameSound(fs[i], r.defs)

TextInv ==
    IF frames = <<>> THEN Tolerated(ir.faults)
    ELSE StackSound(frames, ir, label_counter) /\ BlockFollowsFlag

-------------------------------------------------------------------------------
\* Operators on frames and scopes.

LEMMA FrameTyped ==
    ASSUME ContextTyped, NEW at \in FrameKinds, NEW base \in Nat
    PROVE  Frame(at, base) \in FrameType
BY DEF ContextTyped, Frame, FrameType

LEMMA StackedFrames ==
    ASSUME NEW c, NEW fs, Stacked(fs, c)
    PROVE  /\ fs \in Seq(FrameType)
           /\ Len(fs) \in Nat
           /\ DOMAIN fs = 1 .. Len(fs)
           /\ \A i \in 1 .. Len(fs) :
                 /\ fs[i] \in FrameType
                 /\ fs[i].base \in Nat
                 /\ fs[i].base <= c
                 /\ fs[i].at = "function" <=> i = 1
<1>1. fs \in Seq(FrameType)
  BY DEF Stacked
<1>2. /\ Len(fs) \in Nat
      /\ DOMAIN fs = 1 .. Len(fs)
      /\ \A i \in 1 .. Len(fs) : fs[i] \in FrameType
  BY <1>1, LenProperties, ElementOfSeq
<1>3. \A f \in FrameType : f.base \in Nat
  BY DEF FrameType
<1> QED
  BY <1>1, <1>2, <1>3 DEF Stacked

\* A stack that is not empty has a top, below which it is a stack.
LEMMA StackedTop ==
    ASSUME NEW c, NEW fs, Stacked(fs, c), fs # <<>>
    PROVE  /\ Len(fs) \in Nat /\ Len(fs) >= 1
           /\ Len(fs) \in DOMAIN fs
           /\ fs[Len(fs)] \in FrameType
<1>1. Len(fs) \in Nat \ {0}
  BY StackedFrames, EmptySeq
<1>2. Len(fs) >= 1 /\ Len(fs) \in 1 .. Len(fs)
  BY <1>1
<1> QED
  BY <1>1, <1>2, StackedFrames

\* A handler that calls generate_statement.
LEMMA StackedAppend ==
    ASSUME NEW c \in Nat, NEW d \in Nat, c <= d,
           NEW fs, Stacked(fs, c), fs # <<>>,
           NEW f \in FrameType, f.at # "function", f.base <= d
    PROVE  /\ Stacked(Append(fs, f), d)
           /\ Append(fs, f) # <<>>
           /\ Len(Append(fs, f)) = Len(fs) + 1
<1> DEFINE gs == Append(fs, f)
           n == Len(fs)
<1>1. /\ n \in Nat
      /\ \A i \in 1 .. n : /\ fs[i].base \in Nat
                           /\ fs[i].base <= c
                           /\ fs[i].at = "function" <=> i = 1
  BY StackedFrames
<1>2. n >= 1
  BY StackedTop
<1>3. /\ gs \in Seq(FrameType)
      /\ gs # <<>>
      /\ Len(gs) = n + 1
      /\ \A i \in 1 .. n : gs[i] = fs[i]
      /\ gs[n + 1] = f
  BY StackedFrames, AppendProperties
<1>4. DOMAIN gs = 1 .. n + 1
  BY <1>3, LenProperties
<1> HIDE DEF gs, n
<1>5. ASSUME NEW i \in 1 .. n + 1
      PROVE  /\ gs[i].at = "function" <=> i = 1
             /\ gs[i].base <= d
  <2>1. CASE i = n + 1
    BY <2>1, <1>1, <1>2, <1>3
  <2>2. CASE i # n + 1
    <3>1. i \in 1 .. n
      BY <2>2, <1>1
    <3>2. gs[i] = fs[i]
      BY <3>1, <1>3
    <3>3. \A b \in Nat : b <= c => b <= d
      OBVIOUS
    <3> QED
      BY <3>1, <3>2, <3>3, <1>1
  <2> QED
    BY <2>1, <2>2
<1>6. Stacked(gs, d)
  BY <1>3, <1>4, <1>5 DEF Stacked
<1> QED
  BY <1>3, <1>6 DEF gs, n

\* A handler that returns.
LEMMA StackedPop ==
    ASSUME NEW c \in Nat, NEW d \in Nat, c <= d,
           NEW fs, Stacked(fs, c), fs # <<>>
    PROVE  LET rest == SubSeq(fs, 1, Len(fs) - 1)
           IN  /\ Stacked(rest, d)
               /\ Len(rest) = Len(fs) - 1
               /\ \A i \in 1 .. Len(fs) - 1 : rest[i] = fs[i]
               /\ rest = <<>> <=> fs[Len(fs)].at = "function"
<1> DEFINE rest == SubSeq(fs, 1, Len(fs) - 1)
           n == Len(fs)
<1>1. n \in Nat /\ n >= 1
  BY StackedTop
<1>2. \A i \in 1 .. n : /\ fs[i] \in FrameType
                        /\ fs[i].base \in Nat
                        /\ fs[i].base <= c
                        /\ fs[i].at = "function" <=> i = 1
  BY StackedFrames
<1>3. /\ rest \in Seq(FrameType)
      /\ Len(rest) = n - 1
      /\ \A i \in 1 .. n - 1 : rest[i] = fs[i]
  <2>1. n - 1 \in Int /\ \A i \in 1 .. n - 1 : i \in 1 .. n /\ 1 + i - 1 = i
    BY <1>1
  <2>2. \A i \in 1 .. n - 1 : fs[i] \in FrameType
    BY <2>1, <1>2
  <2>3. /\ rest \in Seq(FrameType)
        /\ Len(rest) = IF 1 <= n - 1 THEN n - 1 - 1 + 1 ELSE 0
        /\ \A i \in 1 .. n - 1 - 1 + 1 : rest[i] = fs[1 + i - 1]
    <3> HIDE DEF n
    <3> QED
      BY <2>1, <2>2, SubSeqProperties DEF n
  <2> HIDE DEF rest, n
  <2> QED
    BY <2>1, <2>3, <1>1
<1>4. DOMAIN rest = 1 .. n - 1 /\ (rest = <<>> <=> n - 1 = 0)
  BY <1>3, LenProperties, EmptySeq
<1> HIDE DEF rest, n
<1>5. ASSUME NEW i \in 1 .. n - 1
      PROVE  /\ rest[i].at = "function" <=> i = 1
             /\ rest[i].base <= d
  <2>1. i \in 1 .. n /\ rest[i] = fs[i]
    BY <1>1, <1>3
  <2>2. \A b \in Nat : b <= c => b <= d
    OBVIOUS
  <2> QED
    BY <2>1, <2>2, <1>2
<1>6. Stacked(rest, d)
  BY <1>3, <1>4, <1>5 DEF Stacked
<1>7. rest = <<>> <=> fs[n].at = "function"
  BY <1>1, <1>2, <1>4
<1> QED
  BY <1>3, <1>6, <1>7 DEF rest, n

\* Scopes stay scopes, and keep their number, when a name is declared.
LEMMA DeclaredScopes ==
    ASSUME NEW stack \in Seq(ScopeType), stack # <<>>,
           NEW n \in AnyName, NEW kind \in SymbolKind
    PROVE  /\ Declared(stack, n, kind) \in Seq(ScopeType)
           /\ Len(Declared(stack, n, kind)) = Len(stack)
<1>1. Len(stack) \in 1 .. Len(stack) /\ stack[Len(stack)] \in ScopeType
  BY EmptySeq
<1>2. PICK names \in SUBSET AnyName : stack[Len(stack)] \in [names -> SymbolKind]
  BY <1>1 DEF ScopeType
<1>3. Extended(stack[Len(stack)], n, kind) \in [names \cup {n} -> SymbolKind]
  BY <1>2 DEF Extended
<1>4. Extended(stack[Len(stack)], n, kind) \in ScopeType
  BY <1>3 DEF ScopeType
<1>5. /\ Bound(stack, n, kind) \in Seq(ScopeType)
      /\ Len(Bound(stack, n, kind)) = Len(stack)
  BY <1>1, <1>4, ExceptSeq DEF Bound
<1> QED
  BY <1>5 DEF Declared

LEMMA OpenedScopes ==
    ASSUME NEW stack \in Seq(ScopeType)
    PROVE  /\ Opened(stack) \in Seq(ScopeType)
           /\ Len(Opened(stack)) = Len(stack) + 1
           /\ \A names \in SUBSET VarName :
                 /\ OpenedWith(stack, names) \in Seq(ScopeType)
                 /\ Len(OpenedWith(stack, names)) = Len(stack) + 1
<1>1. EmptyScope \in [{} -> SymbolKind]
  BY DEF EmptyScope
<1>2. EmptyScope \in ScopeType
  BY <1>1 DEF ScopeType
<1>3. ASSUME NEW names \in SUBSET VarName
      PROVE  [n \in names |-> "VARIABLE"] \in ScopeType
  <2>1. [n \in names |-> "VARIABLE"] \in [names -> SymbolKind]
    BY DEF SymbolKind
  <2>2. names \in SUBSET AnyName
    BY DEF AnyName
  <2> QED
    BY <2>1, <2>2 DEF ScopeType
<1>4. /\ Opened(stack) \in Seq(ScopeType)
      /\ Len(Opened(stack)) = Len(stack) + 1
  BY <1>2, AppendProperties DEF Opened
<1>5. ASSUME NEW names \in SUBSET VarName
      PROVE  /\ OpenedWith(stack, names) \in Seq(ScopeType)
             /\ Len(OpenedWith(stack, names)) = Len(stack) + 1
  BY <1>3, AppendProperties DEF OpenedWith
<1> QED
  BY <1>4, <1>5

LEMMA ClosedScopes ==
    ASSUME NEW stack \in Seq(ScopeType), Len(stack) >= 2
    PROVE  /\ Closed(stack) \in Seq(ScopeType)
           /\ Len(Closed(stack)) = Len(stack) - 1
<1>1. Len(stack) \in Nat /\ Len(stack) # 1
  <2>1. Len(stack) \in Nat
    BY LenProperties
  <2>2. \A n \in Nat : n >= 2 => n # 1
    OBVIOUS
  <2> QED
    BY <2>1, <2>2
<1>2. Closed(stack) = SubSeq(stack, 1, Len(stack) - 1)
  BY <1>1 DEF Closed
<1> QED
  BY <1>1, <1>2, SubSeqProperties

-------------------------------------------------------------------------------
\* What a step does to the stack, the targets and the scopes: it leaves them
\* alone, or a handler enters a statement, returns from one, or turns to its
\* else branch, or a function starts.

Stays ==
    /\ UNCHANGED <<frames, current_break_label, current_continue_label>>
    /\ scopes' \in Seq(ScopeType)
    /\ Len(scopes') = Len(scopes)

Enters ==
    \E f \in FrameType :
        /\ frames # <<>>
        /\ f.at # "function"
        /\ f.base <= label_counter'
        /\ f.prev_break = current_break_label
        /\ f.prev_continue = current_continue_label
        /\ frames' = Append(frames, f)
        /\ current_break_label' =
              IF f.at \in Breakable THEN BreakTarget(f) ELSE current_break_label
        /\ current_continue_label' =
              IF f.at \in Loops THEN ContinueTarget(f)
              ELSE current_continue_label
        /\ scopes' \in Seq(ScopeType)
        /\ Len(scopes') = Len(scopes) + 1

Leaves ==
    /\ frames # <<>>
    /\ frames' = Popped
    /\ current_break_label' =
          IF Top.at \in Breakable THEN Top.prev_break ELSE current_break_label
    /\ current_continue_label' =
          IF Top.at \in Loops THEN Top.prev_continue
          ELSE current_continue_label
    /\ scopes' \in Seq(ScopeType)
    /\ Len(scopes') = Len(scopes) - 1

Alternates ==
    \E f \in FrameType :
        /\ frames # <<>> /\ Top.at = "then"
        /\ f.at = "else" /\ f.base = Top.base
        /\ f.prev_break = Top.prev_break
        /\ f.prev_continue = Top.prev_continue
        /\ frames' = Append(Popped, f)
        /\ UNCHANGED <<current_break_label, current_continue_label>>
        /\ scopes' \in Seq(ScopeType)
        /\ Len(scopes') = Len(scopes)

Starts ==
    \E f, body \in FrameType :
        /\ frames = <<>>
        /\ f.at = "function" /\ body.at = "compound"
        /\ \A g \in {f, body} :
              /\ g.base = 0
              /\ g.prev_break = current_break_label
              /\ g.prev_continue = current_continue_label
        /\ frames' = <<f, body>>
        /\ UNCHANGED <<current_break_label, current_continue_label>>
        /\ scopes' \in Seq(ScopeType)
        /\ Len(scopes') = Len(scopes) + 2

\* What every step keeps.
Orderly ==
    /\ ContextTyped'
    /\ label_counter <= label_counter'
    /\ ModeFollowsFrames'

LEMMA LabelCounts ==
    /\ \A e : LabelCount(e) \in Nat
    /\ \A c, d, e \in Nat : c <= c + d /\ c + d \in Nat
                            /\ c <= c + d + e /\ c + d + e \in Nat
BY DEF LabelCount

\* Where a statement is met there is a handler that waits for it.
LEMMA VisitInFunction ==
    ASSUME ShapeInv, NEW k, mode = "call" \/ Waiting("compound")
    PROVE  frames # <<>> /\ mode # "declare" /\ mode # "done"
BY DEF ShapeInv, ModeFollowsFrames, Waiting

LEMMA ScopesInShape ==
    ASSUME ShapeInv
    PROVE  /\ scopes \in Seq(ScopeType)
           /\ scopes # <<>>
           /\ Len(scopes) \in Nat
           /\ frames # <<>> => Len(scopes) >= 2
<1>1. scopes \in Seq(ScopeType) /\ Len(scopes) = 1 + Len(frames)
  BY DEF ShapeInv, ScopesFollowFrames
<1>2. Len(scopes) \in Nat /\ Len(frames) \in Nat
  BY <1>1, LenProperties, StackedFrames DEF ShapeInv
<1>3. frames # <<>> => Len(frames) >= 1
  BY StackedTop DEF ShapeInv
<1>4. scopes # <<>>
  <2> SUFFICES ASSUME scopes = <<>> PROVE FALSE
    OBVIOUS
  <2>1. Len(scopes) = 0
    BY EmptySeq
  <2>2. \A m \in Nat : 0 # 1 + m
    OBVIOUS
  <2> QED
    BY <2>1, <2>2, <1>1, <1>2
<1>5. \A m \in Nat : m >= 1 => 1 + m >= 2
  OBVIOUS
<1> QED
  BY <1>1, <1>2, <1>3, <1>4, <1>5

LEMMA JumpsShape ==
    ASSUME ShapeInv, Jumps
    PROVE  Orderly /\ Stays
<1> USE DEF Return, KeepTargets, labels
<1>1. frames # <<>>
  BY VisitInFunction DEF Jumps, Break, Continue, Goto, Return_, Visit
<1>2. ContextTyped /\ scopes \in Seq(ScopeType) /\ scopes # <<>>
  BY ScopesInShape DEF ShapeInv
<1>3. mode' = "return" /\ UNCHANGED <<frames, labels>>
  BY DEF Jumps, Break, Continue, Goto, Return_, JumpsTo
<1>4. ModeFollowsFrames'
  BY <1>1, <1>3 DEF ModeFollowsFrames
<1>5. ASSUME NEW e \in Exprs, Return_(e)
      PROVE  ContextTyped' /\ label_counter <= label_counter'
             /\ UNCHANGED scopes
  BY <1>2, <1>5, LabelCounts DEF Return_, ContextTyped
<1>6. ASSUME NEW l, JumpsTo(l)
      PROVE  ContextTyped' /\ label_counter <= label_counter'
  <2>1. UNCHANGED label_counter
    BY <1>6 DEF JumpsTo
  <2>2. in_return_block' \in BOOLEAN /\ live' \in BOOLEAN
    BY <1>2, <1>6 DEF JumpsTo, ContextTyped
  <2> QED
    BY <2>1, <2>2, <1>2, <1>3 DEF ContextTyped
<1>7. ASSUME NEW l \in LabelName, Goto(l)
      PROVE  scopes' \in Seq(ScopeType) /\ Len(scopes') = Len(scopes)
  <2>1. l \in AnyName /\ "LABEL" \in SymbolKind
    BY DEF AnyName, SymbolKind
  <2>2. scopes' = scopes \/ scopes' = Declared(scopes, l, "LABEL")
    BY <1>7 DEF Goto, NotedLabel
  <2> QED
    BY <2>1, <2>2, <1>2, DeclaredScopes
<1>8. ContextTyped' /\ label_counter <= label_counter'
  BY <1>5, <1>6 DEF Jumps, Break, Continue, Goto
<1>9. scopes' \in Seq(ScopeType) /\ Len(scopes') = Len(scopes)
  BY <1>2, <1>5, <1>7 DEF Jumps, Break, Continue
<1> QED
  BY <1>3, <1>4, <1>8, <1>9 DEF Orderly, Stays

LEMMA SimpleShape ==
    ASSUME ShapeInv, Simple
    PROVE  Orderly /\ Stays
<1> USE DEF Return, KeepTargets, labels
<1>1. frames # <<>>
  BY VisitInFunction DEF Simple, Declaration, Expression, Empty, NullStatement,
     LabelStatement, Case, Visit
<1>2. ContextTyped /\ scopes \in Seq(ScopeType) /\ scopes # <<>>
  BY ScopesInShape DEF ShapeInv
<1>3. mode' \in {"return", "call"} /\ UNCHANGED <<frames, labels>>
  BY DEF Simple, Declaration, Expression, Empty, NullStatement,
     LabelStatement, Case
<1>4. ModeFollowsFrames'
  BY <1>1, <1>3 DEF ModeFollowsFrames
<1>5. ContextTyped' /\ label_counter <= label_counter'
  <2>1. ASSUME NEW n \in VarName, NEW e \in Exprs, Declaration(n, e)
        PROVE  ContextTyped' /\ label_counter <= label_counter'
    <3>1. \/ UNCHANGED label_counter
          \/ label_counter' = label_counter + LabelCount(e)
      BY <2>1 DEF Declaration
    <3> QED
      BY <3>1, <2>1, <1>2, LabelCounts DEF Declaration, ContextTyped
  <2>2. ASSUME NEW e \in Exprs, Expression(e)
        PROVE  ContextTyped' /\ label_counter <= label_counter'
    BY <2>2, <1>2, LabelCounts DEF Expression, ContextTyped
  <2>3. CASE Empty \/ NullStatement \/ Case
    <3>1. UNCHANGED <<in_return_block, label_counter>>
      BY <2>3 DEF Empty, NullStatement, Case
    <3>2. live' \in BOOLEAN
      BY <2>3, <1>2 DEF Empty, NullStatement, Case, ContextTyped
    <3> QED
      BY <3>1, <3>2, <1>2, <1>3 DEF ContextTyped
  <2>4. ASSUME NEW l \in LabelName, LabelStatement(l)
        PROVE  ContextTyped' /\ label_counter <= label_counter'
    BY <2>4, <1>2 DEF LabelStatement, ContextTyped
  <2> QED
    BY <2>1, <2>2, <2>3, <2>4 DEF Simple
<1>6. scopes' \in Seq(ScopeType) /\ Len(scopes') = Len(scopes)
  <2>1. ASSUME NEW n \in VarName, NEW e \in Exprs, Declaration(n, e)
        PROVE  scopes' \in Seq(ScopeType) /\ Len(scopes') = Len(scopes)
    <3>1. n \in AnyName /\ "VARIABLE" \in SymbolKind
      BY DEF AnyName, SymbolKind
    <3> QED
      BY <3>1, <2>1, <1>2, DeclaredScopes DEF Declaration
  <2>2. ASSUME NEW l \in LabelName, LabelStatement(l)
        PROVE  scopes' \in Seq(ScopeType) /\ Len(scopes') = Len(scopes)
    <3>1. l \in AnyName /\ "LABEL" \in SymbolKind
      BY DEF AnyName, SymbolKind
    <3>2. scopes' = scopes \/ scopes' = Declared(scopes, l, "LABEL")
      BY <2>2 DEF LabelStatement, NotedLabel
    <3> QED
      BY <3>1, <3>2, <1>2, DeclaredScopes
  <2> QED
    BY <2>1, <2>2, <1>2 DEF Simple, Expression, Empty, NullStatement, Case
<1> QED
  BY <1>3, <1>4, <1>5, <1>6 DEF Orderly, Stays

LEMMA TargetsTyped ==
    ASSUME NEW base \in Nat
    PROVE  /\ WhileCond(base) \in Target /\ WhileEnd(base) \in Target
           /\ ForUpdate(base) \in Target /\ ForEnd(base) \in Target
           /\ DoCond(base) \in Target /\ DoEnd(base) \in Target
           /\ SwitchEnd(base) \in Target
BY DEF WhileCond, WhileEnd, ForUpdate, ForEnd, DoCond, DoEnd, SwitchEnd,
   Generated, Target, TargetPrefix

LEMMA LoopTargets ==
    ASSUME NEW f
    PROVE  /\ f.at = "while" => /\ BreakTarget(f) = WhileEnd(f.base)
                                /\ ContinueTarget(f) = WhileCond(f.base)
           /\ f.at = "for" => /\ BreakTarget(f) = ForEnd(f.base)
                              /\ ContinueTarget(f) = ForUpdate(f.base)
           /\ f.at = "do" => /\ BreakTarget(f) = DoEnd(f.base)
                             /\ ContinueTarget(f) = DoCond(f.base)
           /\ f.at = "switch" => BreakTarget(f) = SwitchEnd(f.base)
BY DEF BreakTarget, ContinueTarget

\* The counters of the statement generated are ahead of those of its handler.
LEMMA NestedShape ==
    ASSUME ShapeInv, Nested
    PROVE  Orderly /\ Enters
<1> USE DEF KeepTargets, labels
<1>0. /\ FrameKinds = {"function", "compound", "then", "else",
                       "while", "for", "do", "switch"}
      /\ Loops = {"while", "for", "do"}
      /\ Breakable = {"while", "for", "do", "switch"}
  BY DEF FrameKinds, Loops, Breakable
<1>1. frames # <<>>
  BY VisitInFunction DEF Nested, Compound, If, While, For, Do, Switch, Visit
<1>2. ContextTyped /\ label_counter \in Nat
  BY DEF ShapeInv, ContextTyped
<1>3. /\ Opened(scopes) \in Seq(ScopeType)
      /\ Len(Opened(scopes)) = Len(scopes) + 1
      /\ \A names \in SUBSET VarName :
            /\ OpenedWith(scopes, names) \in Seq(ScopeType)
            /\ Len(OpenedWith(scopes, names)) = Len(scopes) + 1
  BY ScopesInShape, OpenedScopes
<1>4. mode' = "call"
  BY DEF Nested, Compound, If, While, For, Do, Switch, EnterLoop, Call
<1>5. ASSUME frames' # <<>> PROVE ModeFollowsFrames'
  BY <1>4, <1>5 DEF ModeFollowsFrames
<1>6. ASSUME NEW f \in FrameType, frames' = Append(frames, f)
      PROVE  frames' # <<>>
  BY <1>6, StackedFrames, AppendProperties DEF ShapeInv
<1>7. CASE Compound
  <2> DEFINE f == Frame("compound", 0)
  <2>1. f \in FrameType
    BY <1>0, <1>2, FrameTyped
  <2>2. /\ frames' = Append(frames, f)
        /\ UNCHANGED <<labels, label_counter, in_return_block, live>>
        /\ scopes' = Opened(scopes)
    BY <1>7 DEF Compound, Call
  <2>3. /\ f.at = "compound" /\ f.base = 0
        /\ f.prev_break = current_break_label
        /\ f.prev_continue = current_continue_label
    BY DEF Frame
  <2> HIDE DEF f
  <2>4. ContextTyped' /\ label_counter <= label_counter' /\ f.base <= label_counter'
    BY <1>2, <2>2, <2>3 DEF ContextTyped
  <2>5. Enters
    BY <1>0, <1>1, <1>3, <2>1, <2>2, <2>3, <2>4 DEF Enters
  <2> QED
    BY <1>5, <1>6, <2>1, <2>2, <2>4, <2>5 DEF Orderly
<1>8. ASSUME NEW e \in Exprs, NEW has_else \in BOOLEAN, If(e, has_else)
      PROVE  Orderly /\ Enters
  <2> DEFINE g == Frame("then", label_counter)
             f == [g EXCEPT !.has_else = has_else]
  <2>1. g \in FrameType
    BY <1>0, <1>2, FrameTyped
  <2>2. /\ g.at = "then" /\ g.base = label_counter
        /\ g.prev_break = current_break_label
        /\ g.prev_continue = current_continue_label
    BY DEF Frame
  <2>3. /\ frames' = Append(frames, f)
        /\ UNCHANGED <<labels, live>>
        /\ label_counter' = label_counter + 3 + LabelCount(e)
        /\ in_return_block' = FALSE
        /\ scopes' = Opened(scopes)
    BY <1>8 DEF If, Call
  <2> HIDE DEF g
  <2>4. /\ f \in FrameType
        /\ f.at = "then" /\ f.base = label_counter
        /\ f.prev_break = current_break_label
        /\ f.prev_continue = current_continue_label
    BY <2>1, <2>2 DEF FrameType
  <2> HIDE DEF f
  <2>5. label_counter' \in Nat /\ label_counter <= label_counter'
    BY <1>2, <2>3, LabelCounts
  <2>6. ContextTyped' /\ f.base <= label_counter'
    BY <1>2, <2>3, <2>4, <2>5 DEF ContextTyped
  <2>7. Enters
    BY <1>0, <1>1, <1>3, <2>3, <2>4, <2>6 DEF Enters
  <2> QED
    BY <1>5, <1>6, <2>3, <2>4, <2>5, <2>6, <2>7 DEF Orderly
<1>9. ASSUME NEW at \in {"while", "for", "do"},
             NEW break \in Target, NEW continue \in Target,
             EnterLoop(at, label_counter, break, continue),
             label_counter' \in Nat, label_counter <= label_counter',
             \A f : f.at = at /\ f.base = label_counter =>
                        BreakTarget(f) = break /\ ContinueTarget(f) = continue,
             scopes' \in Seq(ScopeType), Len(scopes') = Len(scopes) + 1
      PROVE  Orderly /\ Enters
  <2> DEFINE f == Frame(at, label_counter)
  <2>1. f \in FrameType
    BY <1>0, <1>2, FrameTyped
  <2>2. /\ f.at = at /\ f.base = label_counter
        /\ f.prev_break = current_break_label
        /\ f.prev_continue = current_continue_label
    BY DEF Frame
  <2>3. /\ frames' = Append(frames, f)
        /\ current_break_label' = break
        /\ current_continue_label' = continue
        /\ UNCHANGED <<current_switch_end_label, live>>
        /\ in_return_block' = FALSE
    BY <1>9 DEF EnterLoop, Call, BreakTo, ContinueTo
  <2> HIDE DEF f
  <2>4. ContextTyped'
    BY <1>2, <1>9, <2>3 DEF ContextTyped
  <2>5. BreakTarget(f) = break /\ ContinueTarget(f) = continue
    BY <1>9, <2>2
  <2>6. f.at # "function" /\ f.at \in Breakable /\ f.at \in Loops
    BY <1>0, <2>2
  <2>7. Enters
    BY <1>1, <1>9, <2>1, <2>2, <2>3, <2>5, <2>6 DEF Enters
  <2> QED
    BY <1>5, <1>6, <1>9, <2>1, <2>3, <2>4, <2>7 DEF Orderly
<1>10. ASSUME NEW e \in Exprs, While(e)
       PROVE  Orderly /\ Enters
  <2>1. /\ EnterLoop("while", label_counter, WhileEnd(label_counter),
                     WhileCond(label_counter))
        /\ label_counter' = label_counter + 3 + LabelCount(e)
        /\ scopes' = Opened(scopes)
    BY <1>10 DEF While
  <2>2. label_counter' \in Nat /\ label_counter <= label_counter'
    BY <1>2, <2>1, LabelCounts
  <2> QED
    BY <1>2, <1>3, <1>9, <2>1, <2>2, TargetsTyped, LoopTargets
<1>11. ASSUME NEW declared \in SUBSET VarName, NEW init \in Optional,
              NEW cond \in Optional, For(declared, init, cond, label_counter)
       PROVE  Orderly /\ Enters
  <2>1. /\ EnterLoop("for", label_counter, ForEnd(label_counter),
                     ForUpdate(label_counter))
        /\ label_counter' =
              label_counter + 4 + LabelCount(init) + LabelCount(cond)
        /\ scopes' = OpenedWith(scopes, declared)
    BY <1>11 DEF For
  <2>2. LabelCount(init) \in Nat /\ LabelCount(cond) \in Nat
    BY LabelCounts
  <2>3. label_counter' \in Nat /\ label_counter <= label_counter'
    BY <1>2, <2>1, <2>2
  <2> QED
    BY <1>2, <1>3, <1>9, <2>1, <2>3, TargetsTyped, LoopTargets
<1>12. ASSUME Do PROVE Orderly /\ Enters
  <2>1. /\ EnterLoop("do", label_counter, DoEnd(label_counter),
                     DoCond(label_counter))
        /\ label_counter' = label_counter + 3
        /\ scopes' = Opened(scopes)
    BY <1>12 DEF Do
  <2>2. label_counter' \in Nat /\ label_counter <= label_counter'
    BY <1>2, <2>1
  <2> QED
    BY <1>2, <1>3, <1>9, <2>1, <2>2, TargetsTyped, LoopTargets
<1>13. ASSUME NEW e \in Exprs, Switch(e)
       PROVE  Orderly /\ Enters
  <2> DEFINE f == Frame("switch", label_counter)
  <2>1. f \in FrameType
    BY <1>0, <1>2, FrameTyped
  <2>2. /\ f.at = "switch" /\ f.base = label_counter
        /\ f.prev_break = current_break_label
        /\ f.prev_continue = current_continue_label
    BY DEF Frame
  <2>3. /\ frames' = Append(frames, f)
        /\ label_counter' = label_counter + 2 + LabelCount(e)
        /\ current_break_label' = SwitchEnd(label_counter)
        /\ current_switch_end_label' = SwitchEnd(label_counter)
        /\ UNCHANGED <<current_continue_label, in_return_block, live>>
        /\ scopes' = Opened(scopes)
    BY <1>13 DEF Switch, Call, BreakTo
  <2> HIDE DEF f
  <2>4. label_counter' \in Nat /\ label_counter <= label_counter'
    BY <1>2, <2>3, LabelCounts
  <2>5. ContextTyped'
    BY <1>2, <2>3, <2>4, TargetsTyped DEF ContextTyped
  <2>6. BreakTarget(f) = SwitchEnd(label_counter) /\ f.base <= label_counter'
    BY <2>2, <2>4, LoopTargets
  <2>7. f.at # "function" /\ f.at \in Breakable /\ f.at \notin Loops
    BY <1>0, <2>2
  <2>8. Enters
    BY <1>1, <1>3, <2>1, <2>2, <2>3, <2>6, <2>7 DEF Enters
  <2> QED
    BY <1>5, <1>6, <2>1, <2>3, <2>4, <2>5, <2>8 DEF Orderly
<1> QED
  BY <1>7, <1>8, <1>10, <1>11, <1>12, <1>13 DEF Nested

LEMMA TopTyped ==
    ASSUME ShapeInv, frames # <<>>
    PROVE  /\ Top \in FrameType
           /\ Top.base \in Nat
           /\ Top.base <= label_counter
           /\ Top.prev_return_state \in BOOLEAN
           /\ Top.live \in BOOLEAN /\ Top.then_live \in BOOLEAN
           /\ Top.then_terminates \in BOOLEAN
           /\ Top.prev_break \in Target /\ Top.prev_continue \in Target
           /\ Top.prev_switch_end \in Target
<1>1. Stacked(frames, label_counter)
  BY DEF ShapeInv
<1>2. Top \in FrameType
  BY <1>1, StackedTop DEF Top
<1>3. Top.base <= label_counter
  BY <1>1, StackedTop, StackedFrames DEF Top
<1> QED
  BY <1>2, <1>3 DEF FrameType

LEMMA EndsShape ==
    ASSUME ShapeInv, Ends
    PROVE  Orderly /\ (Stays \/ Leaves \/ Alternates)
<1> USE DEF KeepTargets, labels, Waiting
<1>0. /\ Loops = {"while", "for", "do"}
      /\ Breakable = {"while", "for", "do", "switch"}
  BY DEF Loops, Breakable
<1>1. /\ ContextTyped /\ label_counter \in Nat
      /\ in_return_block \in BOOLEAN /\ live \in BOOLEAN
  BY DEF ShapeInv, ContextTyped
<1>2. frames # <<>>
  BY DEF Ends, SkipItem, CompoundEnd, ThenEnd, ThenElse, ElseEnd, WhileDone,
     ForDone, DoDone, SwitchDone
<1>3. /\ Top \in FrameType
      /\ Top.prev_return_state \in BOOLEAN
      /\ Top.live \in BOOLEAN /\ Top.then_live \in BOOLEAN
      /\ Top.then_terminates \in BOOLEAN
      /\ Top.prev_break \in Target /\ Top.prev_continue \in Target
      /\ Top.prev_switch_end \in Target
  BY <1>2, TopTyped
<1>4. /\ scopes \in Seq(ScopeType) /\ Len(scopes) \in Nat
      /\ Closed(scopes) \in Seq(ScopeType)
      /\ Len(Closed(scopes)) = Len(scopes) - 1
  BY <1>2, ScopesInShape, ClosedScopes
<1>5. ASSUME mode' = "return" PROVE ModeFollowsFrames'
  BY <1>5 DEF ModeFollowsFrames
<1>6. ASSUME NEW k \in AllKinds, SkipItem(k)
      PROVE  Orderly /\ Stays
  <2>1. /\ UNCHANGED <<in_return_block, labels, label_counter, scopes, frames,
                       mode>>
        /\ mode = "return"
    BY <1>6 DEF SkipItem
  <2>2. live' \in BOOLEAN
    BY <1>1, <1>6 DEF SkipItem
  <2>3. ContextTyped' /\ label_counter <= label_counter'
    BY <1>1, <2>1, <2>2 DEF ContextTyped
  <2> QED
    BY <1>4, <1>5, <2>1, <2>3 DEF Orderly, Stays
<1>7. CASE CompoundEnd
  <2>1. /\ UNCHANGED <<in_return_block, labels, label_counter, live>>
        /\ scopes' = Closed(scopes) /\ frames' = Popped /\ mode' = "return"
        /\ Top.at = "compound"
    BY <1>7 DEF CompoundEnd, Pop
  <2>2. ContextTyped' /\ label_counter <= label_counter'
    BY <1>1, <2>1 DEF ContextTyped
  <2>3. Leaves
    BY <1>0, <1>2, <1>4, <2>1 DEF Leaves
  <2> QED
    BY <1>5, <2>1, <2>2, <2>3 DEF Orderly
<1>8. CASE ThenEnd
  <2>1. /\ UNCHANGED <<labels, label_counter>>
        /\ scopes' = Closed(scopes) /\ frames' = Popped /\ mode' = "return"
        /\ in_return_block' = Top.prev_return_state /\ live' = Top.live
        /\ Top.at = "then"
    BY <1>8 DEF ThenEnd, Pop, Restored
  <2>2. ContextTyped' /\ label_counter <= label_counter'
    BY <1>1, <1>3, <2>1 DEF ContextTyped
  <2>3. Leaves
    BY <1>0, <1>2, <1>4, <2>1 DEF Leaves
  <2> QED
    BY <1>5, <2>1, <2>2, <2>3 DEF Orderly
<1>9. CASE ElseEnd
  <2>1. /\ UNCHANGED <<labels, label_counter>>
        /\ scopes' = Closed(scopes) /\ frames' = Popped /\ mode' = "return"
        /\ Top.at = "else"
    BY <1>9 DEF ElseEnd, Pop
  <2>2. in_return_block' \in BOOLEAN /\ live' \in BOOLEAN
    BY <1>9 DEF ElseEnd
  <2>3. ContextTyped' /\ label_counter <= label_counter'
    BY <1>1, <2>1, <2>2 DEF ContextTyped
  <2>4. Leaves
    BY <1>0, <1>2, <1>4, <2>1 DEF Leaves
  <2> QED
    BY <1>5, <2>1, <2>3, <2>4 DEF Orderly
<1>10. CASE ThenElse
  <2> DEFINE f == [Top EXCEPT !.at = "else",
                              !.then_terminates = in_return_block,
                              !.then_live = live]
  <2>1. /\ UNCHANGED <<labels, label_counter>>
        /\ scopes' = Opened(Closed(scopes)) /\ frames' = Append(Popped, f)
        /\ mode' = "call"
        /\ in_return_block' = FALSE /\ live' = Top.live
        /\ Top.at = "then"
    BY <1>10 DEF ThenElse
  <2>2. /\ f \in FrameType /\ f.at = "else" /\ f.base = Top.base
        /\ f.prev_break = Top.prev_break
        /\ f.prev_continue = Top.prev_continue
    <3> HIDE DEF Top
    <3> QED
      BY <1>1, <1>3 DEF FrameType, FrameKinds
  <2> HIDE DEF f
  <2>3. ContextTyped' /\ label_counter <= label_counter'
    <3>1. UNCHANGED label_counter
      BY <2>1
    <3>2. label_counter' \in Nat /\ label_counter <= label_counter'
      BY <1>1, <3>1
    <3>3. ContextTyped'
      BY <1>1, <1>3, <2>1, <3>2 DEF ContextTyped
    <3> QED
      BY <3>2, <3>3
  <2>4. /\ scopes' \in Seq(ScopeType)
        /\ Len(scopes') = Len(scopes)
    BY <1>4, <2>1, OpenedScopes
  <2>5. Alternates
    BY <1>2, <2>1, <2>2, <2>4 DEF Alternates
  <2>6. frames' # <<>>
    <3>1. Popped \in Seq(FrameType)
      BY <1>1, <1>2, StackedPop DEF ShapeInv, Popped, Stacked
    <3> QED
      BY <2>1, <2>2, <3>1, AppendProperties
  <2>7. ModeFollowsFrames'
    BY <2>1, <2>6 DEF ModeFollowsFrames
  <2> QED
    BY <2>3, <2>5, <2>7 DEF Orderly
<1>11. ASSUME LeaveLoop, Top.at \in Loops,
              label_counter' \in Nat, label_counter <= label_counter'
       PROVE  Orderly /\ Leaves
  <2>1. /\ scopes' = Closed(scopes) /\ frames' = Popped /\ mode' = "return"
        /\ in_return_block' = Top.prev_return_state /\ live' = Top.live
        /\ current_break_label' = Top.prev_break
        /\ current_continue_label' = Top.prev_continue
        /\ UNCHANGED current_switch_end_label
    BY <1>11 DEF LeaveLoop, RestoreTargets, Restored, Pop
  <2>2. ContextTyped'
    BY <1>1, <1>3, <1>11, <2>1 DEF ContextTyped
  <2>3. Leaves
    BY <1>0, <1>2, <1>4, <1>11, <2>1 DEF Leaves
  <2> QED
    BY <1>5, <1>11, <2>1, <2>2, <2>3 DEF Orderly
<1>12. CASE WhileDone
  <2>1. LeaveLoop /\ Top.at \in Loops /\ UNCHANGED label_counter
    BY <1>0, <1>12 DEF WhileDone
  <2>2. label_counter' \in Nat /\ label_counter <= label_counter'
    BY <1>1, <2>1
  <2> QED
    BY <1>11, <2>1, <2>2
<1>13. ASSUME NEW e \in Optional, ForDone(e) PROVE Orderly /\ Leaves
  <2>1. /\ LeaveLoop /\ Top.at \in Loops
        /\ label_counter' = label_counter + LabelCount(e)
    BY <1>0, <1>13 DEF ForDone
  <2>2. label_counter' \in Nat /\ label_counter <= label_counter'
    BY <1>1, <2>1, LabelCounts
  <2> QED
    BY <1>11, <2>1, <2>2
<1>14. ASSUME NEW e \in Exprs, DoDone(e) PROVE Orderly /\ Leaves
  <2>1. /\ LeaveLoop /\ Top.at \in Loops
        /\ label_counter' = label_counter + LabelCount(e)
    BY <1>0, <1>14 DEF DoDone
  <2>2. label_counter' \in Nat /\ label_counter <= label_counter'
    BY <1>1, <2>1, LabelCounts
  <2> QED
    BY <1>11, <2>1, <2>2
<1>15. CASE SwitchDone
  <2>1. /\ UNCHANGED <<in_return_block, current_continue_label, label_counter>>
        /\ scopes' = Closed(scopes) /\ frames' = Popped /\ mode' = "return"
        /\ live' = Top.live
        /\ current_break_label' = Top.prev_break
        /\ current_switch_end_label' = Top.prev_switch_end
        /\ Top.at = "switch"
    BY <1>15 DEF SwitchDone, Pop
  <2>2. ContextTyped' /\ label_counter <= label_counter'
    BY <1>1, <1>3, <2>1 DEF ContextTyped
  <2>3. Leaves
    BY <1>0, <1>2, <1>4, <2>1 DEF Leaves
  <2> QED
    BY <1>5, <2>1, <2>2, <2>3 DEF Orderly
<1> QED
  BY <1>6, <1>7, <1>8, <1>9, <1>10, <1>12, <1>13, <1>14, <1>15 DEF Ends

LEMMA UnitShape ==
    ASSUME ShapeInv, Unit
    PROVE  Orderly /\ (Stays \/ Leaves \/ Starts)
<1> USE DEF KeepTargets, labels
<1>1. /\ ContextTyped /\ label_counter \in Nat
      /\ in_return_block \in BOOLEAN /\ live \in BOOLEAN
  BY DEF ShapeInv, ContextTyped
<1>2. scopes \in Seq(ScopeType) /\ scopes # <<>> /\ Len(scopes) \in Nat
  BY ScopesInShape
<1>3. /\ \A f \in FuncName :
            /\ Declared(scopes, f, "FUNCTION") \in Seq(ScopeType)
            /\ Len(Declared(scopes, f, "FUNCTION")) = Len(scopes)
      /\ \A n \in VarName :
            /\ Declared(scopes, n, "VARIABLE") \in Seq(ScopeType)
            /\ Len(Declared(scopes, n, "VARIABLE")) = Len(scopes)
  <2>1. /\ FuncName \subseteq AnyName /\ VarName \subseteq AnyName
        /\ "FUNCTION" \in SymbolKind /\ "VARIABLE" \in SymbolKind
    BY DEF AnyName, SymbolKind
  <2> QED
    BY <1>2, <2>1, DeclaredScopes
<1>4. CASE \/ \E f \in FuncName : Prototype(f)
           \/ SecondPassEnd
           \/ \E n \in VarName : GlobalDeclaration(n)
           \/ ProgramEnd
           \/ Done
  <2>1. UNCHANGED <<in_return_block, labels, label_counter, frames, live>>
    BY <1>4 DEF Prototype, SecondPassEnd, GlobalDeclaration, ProgramEnd, Done,
       vars
  <2>2. \/ UNCHANGED scopes
        \/ \E f \in FuncName : scopes' = Declared(scopes, f, "FUNCTION")
        \/ \E n \in VarName : scopes' = Declared(scopes, n, "VARIABLE")
    BY <1>4 DEF Prototype, SecondPassEnd, GlobalDeclaration, ProgramEnd, Done,
       vars
  <2>3. frames = <<>> /\ mode' \in {"declare", "return", "done"}
    BY <1>4 DEF Prototype, SecondPassEnd, GlobalDeclaration, ProgramEnd, Done,
       vars, AtGlobalLevel, ShapeInv, ModeFollowsFrames
  <2>4. ContextTyped' /\ label_counter <= label_counter'
    BY <1>1, <2>1 DEF ContextTyped
  <2>5. ModeFollowsFrames'
    BY <2>1, <2>3 DEF ModeFollowsFrames
  <2>6. scopes' \in Seq(ScopeType) /\ Len(scopes') = Len(scopes)
    BY <1>2, <1>3, <2>2
  <2> QED
    BY <2>1, <2>4, <2>5, <2>6 DEF Orderly, Stays
<1>5. ASSUME NEW f \in FuncName, NEW params \in SUBSET VarName,
             Function(f, params)
      PROVE  Orderly /\ Starts
  <2> DEFINE g == Frame("function", 0)
             body == Frame("compound", 0)
  <2>1. /\ UNCHANGED <<labels, label_counter>>
        /\ in_return_block' = FALSE /\ live' = TRUE
        /\ frames = <<>> /\ frames' = <<g, body>>
        /\ mode' = "return"
    BY <1>5 DEF Function, AtGlobalLevel
  <2>2. scopes' =
            Opened(OpenedWith(Declared(scopes, f, "FUNCTION"), params))
    BY <1>5 DEF Function
  <2>3. scopes' \in Seq(ScopeType) /\ Len(scopes') = Len(scopes) + 2
    <3>1. /\ Declared(scopes, f, "FUNCTION") \in Seq(ScopeType)
          /\ Len(Declared(scopes, f, "FUNCTION")) = Len(scopes)
      BY <1>3
    <3>2. /\ OpenedWith(Declared(scopes, f, "FUNCTION"), params)
                \in Seq(ScopeType)
          /\ Len(OpenedWith(Declared(scopes, f, "FUNCTION"), params))
                = Len(scopes) + 1
      BY <3>1, OpenedScopes
    <3>3. scopes' \in Seq(ScopeType) /\ Len(scopes') = Len(scopes) + 1 + 1
      BY <2>2, <3>2, OpenedScopes
    <3> QED
      BY <1>2, <3>3
  <2>4. g \in FrameType /\ body \in FrameType
    BY <1>1, FrameTyped DEF FrameKinds
  <2>5. /\ g.at = "function" /\ body.at = "compound"
        /\ \A h \in {g, body} :
              /\ h.base = 0
              /\ h.prev_break = current_break_label
              /\ h.prev_continue = current_continue_label
    BY DEF Frame
  <2> HIDE DEF g, body
  <2>6. ContextTyped' /\ label_counter <= label_counter'
    <3>1. UNCHANGED label_counter
      BY <2>1
    <3>2. label_counter' \in Nat /\ label_counter <= label_counter'
      BY <1>1, <3>1
    <3>3. ContextTyped'
      BY <1>1, <2>1, <3>2 DEF ContextTyped
    <3> QED
      BY <3>2, <3>3
  <2>7. ModeFollowsFrames'
    BY <2>1 DEF ModeFollowsFrames
  <2>8. Starts
    BY <2>1, <2>3, <2>4, <2>5 DEF Starts
  <2> QED
    BY <2>6, <2>7, <2>8 DEF Orderly
<1>6. CASE FunctionEnd
  <2>1. /\ UNCHANGED <<labels, label_counter, in_return_block, live>>
        /\ frames # <<>> /\ Top.at = "function"
        /\ frames' = Popped /\ mode' = "return"
        /\ scopes' = Closed(scopes)
    BY <1>6 DEF FunctionEnd, Waiting, Pop
  <2>2. ContextTyped' /\ label_counter <= label_counter'
    BY <1>1, <2>1 DEF ContextTyped
  <2>3. ModeFollowsFrames'
    BY <2>1 DEF ModeFollowsFrames
  <2>4. scopes' \in Seq(ScopeType) /\ Len(scopes') = Len(scopes) - 1
    BY <2>1, ScopesInShape, ClosedScopes
  <2>5. Leaves
    BY <2>1, <2>4 DEF Leaves, Breakable, Loops
  <2> QED
    BY <2>2, <2>3, <2>5 DEF Orderly
<1> QED
  BY <1>4, <1>5, <1>6 DEF Unit

LEMMA StepShapes ==
    ASSUME ShapeInv, [Next]_vars
    PROVE  Orderly /\ (Stays \/ Enters \/ Leaves \/ Alternates \/ Starts)
<1>1. ASSUME UNCHANGED vars PROVE Orderly /\ Stays
  <2>1. UNCHANGED <<in_return_block, labels, label_counter, scopes, frames,
                    mode, live>>
    BY <1>1 DEF vars
  <2>2. label_counter <= label_counter'
    BY <2>1 DEF ShapeInv, ContextTyped
  <2>3. ContextTyped'
    BY <2>1 DEF ShapeInv, ContextTyped, labels
  <2>4. ModeFollowsFrames'
    BY <2>1 DEF ShapeInv, ModeFollowsFrames
  <2>5. Stays
    BY <2>1 DEF ShapeInv, Stays, labels
  <2> QED
    BY <2>2, <2>3, <2>4, <2>5 DEF Orderly
<1>2. CASE Next
  BY <1>2, JumpsShape, SimpleShape, NestedShape, EndsShape, UnitShape DEF Next
<1> QED
  BY <1>1, <1>2

-------------------------------------------------------------------------------
\* The stack and the scopes.

\* The two handlers with which a function starts.
LEMMA StackedStart ==
    ASSUME NEW d \in Nat, NEW f \in FrameType, NEW body \in FrameType,
           f.at = "function", body.at # "function",
           f.base <= d, body.base <= d
    PROVE  /\ Stacked(<<f, body>>, d)
           /\ Len(<<f, body>>) = 2
           /\ <<f, body>> # <<>>
<1> DEFINE fs == <<f, body>>
<1>1. fs \in Seq(FrameType) /\ Len(fs) = 2 /\ fs # <<>>
  OBVIOUS
<1>2. DOMAIN fs = {1, 2} /\ fs[1] = f /\ fs[2] = body
  OBVIOUS
<1> HIDE DEF fs
<1>3. Stacked(fs, d)
  BY <1>1, <1>2 DEF Stacked
<1> QED
  BY <1>1, <1>3 DEF fs

\* The shape of the stack is that of a recursion, whatever the program.
LEMMA ShapeInvariance == Spec => []ShapeInv
<1>1. Init => ShapeInv
  <2> SUFFICES ASSUME Init PROVE ShapeInv
    OBVIOUS
  <2>1. NoLabel \in Target
    BY DEF NoLabel, Target, TargetPrefix
  <2>2. ContextTyped
    BY <2>1 DEF Init, ContextTyped
  <2>3. Stacked(frames, label_counter) /\ Len(frames) = 0
    BY EmptySeq DEF Init, Stacked
  <2>4. scopes \in Seq(ScopeType) /\ Len(scopes) = 1
    <3>1. EmptyScope \in [{} -> SymbolKind]
      BY DEF EmptyScope
    <3>2. EmptyScope \in ScopeType
      BY <3>1 DEF ScopeType
    <3> QED
      BY <3>2 DEF Init, GlobalOnly
  <2>5. ModeFollowsFrames
    BY DEF Init, ModeFollowsFrames
  <2> QED
    BY <2>2, <2>3, <2>4, <2>5 DEF ShapeInv, ScopesFollowFrames
<1>2. ShapeInv /\ [Next]_vars => ShapeInv'
  <2> SUFFICES ASSUME ShapeInv, [Next]_vars PROVE ShapeInv'
    OBVIOUS
  <2>1. /\ ContextTyped' /\ ModeFollowsFrames'
        /\ label_counter <= label_counter'
        /\ Stays \/ Enters \/ Leaves \/ Alternates \/ Starts
    BY StepShapes DEF Orderly
  <2>2. label_counter \in Nat /\ label_counter' \in Nat
    BY <2>1 DEF ShapeInv, ContextTyped
  <2>3. /\ Stacked(frames, label_counter)
        /\ Len(frames) \in Nat
        /\ Len(scopes) = 1 + Len(frames)
    BY StackedFrames DEF ShapeInv, ScopesFollowFrames
  <2>4. \A n \in Nat : /\ 1 + n + 1 = 1 + (n + 1)
                       /\ 1 + n - 1 = 1 + (n - 1)
                       /\ n - 1 + 1 = n
    OBVIOUS
  <2>5. /\ Stacked(frames', label_counter')
        /\ scopes' \in Seq(ScopeType)
        /\ Len(scopes') = 1 + Len(frames')
    <3>1. CASE Stays
      <4>1. frames' = frames
        BY <3>1 DEF Stays
      <4>2. \A b \in Nat : b <= label_counter => b <= label_counter'
        BY <2>1, <2>2
      <4>3. Stacked(frames', label_counter')
        <5>1. \A i \in DOMAIN frames : frames[i].base \in Nat
          BY <2>3, StackedFrames
        <5> QED
          BY <2>3, <4>1, <4>2, <5>1 DEF Stacked
      <4> QED
        BY <2>3, <3>1, <4>1, <4>3 DEF Stays
    <3>2. CASE Enters
      BY <2>1, <2>2, <2>3, <2>4, <3>2, StackedAppend DEF Enters
    <3>3. CASE Leaves
      BY <2>1, <2>2, <2>3, <2>4, <3>3, StackedPop DEF Leaves, Popped
    <3>4. CASE Alternates
      <4>1. PICK f \in FrameType :
                /\ frames # <<>> /\ Top.at = "then"
                /\ f.at = "else" /\ f.base = Top.base
                /\ frames' = Append(Popped, f)
                /\ scopes' \in Seq(ScopeType)
                /\ Len(scopes') = Len(scopes)
        BY <3>4 DEF Alternates
      <4>2. /\ Stacked(Popped, label_counter')
            /\ Len(Popped) = Len(frames) - 1
            /\ Popped # <<>>
        BY <2>1, <2>2, <2>3, <4>1, StackedPop DEF Popped, Top
      <4>3. f.base <= label_counter'
        BY <2>1, <2>2, <4>1, TopTyped
      <4>4. /\ Stacked(Append(Popped, f), label_counter')
            /\ Len(Append(Popped, f)) = Len(Popped) + 1
        BY <2>2, <4>1, <4>2, <4>3, StackedAppend
      <4> QED
        BY <2>3, <2>4, <4>1, <4>2, <4>4
    <3>5. CASE Starts
      <4>1. PICK f \in FrameType, body \in FrameType :
                /\ frames = <<>>
                /\ f.at = "function" /\ body.at = "compound"
                /\ f.base = 0 /\ body.base = 0
                /\ frames' = <<f, body>>
                /\ scopes' \in Seq(ScopeType)
                /\ Len(scopes') = Len(scopes) + 2
        BY <3>5 DEF Starts
      <4>2. Stacked(frames', label_counter') /\ Len(frames') = 2
        BY <2>2, <4>1, StackedStart
      <4>3. Len(frames) = 0
        BY <4>1, EmptySeq
      <4> QED
        BY <2>3, <4>1, <4>2, <4>3
    <3> QED
      BY <2>1, <3>1, <3>2, <3>3, <3>4, <3>5
  <2> QED
    BY <2>1, <2>5 DEF ShapeInv, ScopesFollowFrames
<1> QED
  BY <1>1, <1>2, PTL DEF Spec

\* Whatever the program, as many scopes are open as handlers wait: none is
\* closed twice or left open by a jump out of a block.
THEOREM ScopesInvariance == Spec => []ScopesFollowFrames
<1>1. ShapeInv => ScopesFollowFrames
  BY DEF ShapeInv
<1> QED
  BY <1>1, ShapeInvariance, PTL

-------------------------------------------------------------------------------
\* Types.

\* The text of && , || and ?: and its three labels.
One(base) == Generated("expr_one", base, 1)
Other(base) == Generated("expr_other", base, 2)
Joined(base) == Generated("expr_end", base, 3)
Split(r, base) == Label(Jump(Instr(r), {One(base), Other(base)}), One(base))
Joins(r, base) ==
    Label(Jump(Instr(Split(r, base)), {Joined(base)}), Other(base))

LEMMA EvaluatedText ==
    ASSUME NEW r, NEW e, NEW base
    PROVE  Evaluated(r, e, base) =
               IF e = "plain" THEN Instr(r)
               ELSE Instr(FallTo(Instr(Joins(r, base)), Joined(base)))
<1>1. CASE e = "plain"
  BY <1>1 DEF Evaluated
<1>2. CASE e # "plain"
  BY <1>2 DEF Evaluated, Joins, Split, One, Other, Joined
<1> QED
  BY <1>1, <1>2

LEMMA BlockKinds ==
    /\ \A r : Instr(r).block = "open" /\ Left(r).block = "none"
              /\ Entered(r).block = "open"
    /\ \A r, t : Jump(r, t).block = "closed"
    /\ \A r, l : Label(r, l).block = "open" /\ FallTo(r, l).block = "open"
    /\ \A r, e, base : Evaluated(r, e, base).block = "open"
    /\ \A r, e, base, yes, no : Choice(r, e, base, yes, no).block = "closed"
<1>1. /\ \A r : Instr(r).block = "open" /\ Left(r).block = "none"
                /\ Entered(r).block = "open"
      /\ \A r, t : Jump(r, t).block = "closed"
      /\ \A r, l : Label(r, l).block = "open"
  BY DEF Instr, Left, Entered, Jump, Label
<1>2. \A r, l : FallTo(r, l).block = "open"
  BY <1>1 DEF FallTo
<1>3. ASSUME NEW r, NEW e, NEW base PROVE Evaluated(r, e, base).block = "open"
  BY <1>1, <1>2, EvaluatedText
<1>4. \A r, e, base, yes, no : Choice(r, e, base, yes, no).block = "closed"
  BY <1>1 DEF Choice
<1> QED
  BY <1>1, <1>2, <1>3, <1>4

\* A statement is generated, and generated to its end, inside a function.
LEMMA InsideFunction ==
    ASSUME ShapeInv, Jumps \/ Simple \/ Nested \/ Ends
    PROVE  frames # <<>> /\ frames' # <<>>
<1>1. CASE Jumps \/ Simple
  <2>1. Stays
    BY <1>1, JumpsShape, SimpleShape
  <2>2. frames # <<>>
    BY <1>1, VisitInFunction DEF Jumps, Break, Continue, Goto, Return_, Visit,
       Simple, Declaration, Expression, Empty, NullStatement, LabelStatement,
       Case
  <2> QED
    BY <2>1, <2>2 DEF Stays
<1>2. CASE Nested
  <2>1. PICK f \in FrameType : frames # <<>> /\ frames' = Append(frames, f)
    BY <1>2, NestedShape DEF Enters
  <2> QED
    BY <2>1, StackedFrames, AppendProperties DEF ShapeInv
<1>3. CASE Ends
  <2>1. frames # <<>> /\ Top.at # "function"
    BY <1>3 DEF Ends, SkipItem, CompoundEnd, ThenEnd, ThenElse, ElseEnd,
       WhileDone, ForDone, DoDone, SwitchDone, Waiting
  <2>2. Stacked(Popped, label_counter) /\ Popped # <<>>
    BY <2>1, StackedPop DEF ShapeInv, ContextTyped, Popped, Top
  <2>3. ASSUME Stays PROVE frames' # <<>>
    BY <2>1, <2>3 DEF Stays
  <2>4. ASSUME Leaves PROVE frames' # <<>>
    BY <2>2, <2>4 DEF Leaves
  <2>5. ASSUME Alternates PROVE frames' # <<>>
    <3>1. PICK f \in FrameType : frames' = Append(Popped, f)
      BY <2>5 DEF Alternates
    <3> QED
      BY <2>2, <3>1, StackedFrames, AppendProperties
  <2> QED
    BY <1>3, <2>3, <2>4, <2>5, <2>1, EndsShape
<1> QED
  BY <1>1, <1>2, <1>3

\* Inside a function the text stays inside it.
LEMMA InsideBlock ==
    ASSUME ShapeInv, Jumps \/ Simple \/ Nested \/ Ends,
           ir.block \in {"open", "closed"}
    PROVE  ir'.block \in {"open", "closed"}
<1>1. CASE Jumps
  BY <1>1, BlockKinds DEF Jumps, Break, Continue, Goto, Return_, JumpsTo
<1>2. CASE Simple
  BY <1>2, BlockKinds DEF Simple, Declaration, Expression, Empty, NullStatement,
     LabelStatement, Case
<1>3. CASE Nested
  BY <1>3, BlockKinds DEF Nested, Compound, If, While, For, Do, Switch
<1>4. CASE Ends
  <2>1. CASE CompoundEnd \/ \E k \in AllKinds : SkipItem(k)
    BY <2>1 DEF CompoundEnd, SkipItem
  <2>2. CASE ElseEnd
    BY <2>2, BlockKinds DEF ElseEnd, Continued
  <2>3. CASE ThenEnd \/ ThenElse \/ WhileDone \/ SwitchDone
             \/ (\E e \in Optional : ForDone(e)) \/ (\E e \in Exprs : DoDone(e))
    BY <2>3, BlockKinds DEF ThenEnd, ThenElse, WhileDone, SwitchDone, ForDone,
       DoDone
  <2> QED
    BY <1>4, <2>1, <2>2, <2>3 DEF Ends
<1> QED
  BY <1>1, <1>2, <1>3, <1>4

\* One node of the program is met at a time.
LEMMA NodesAreMet ==
    ASSUME nodes \in 0 .. MaxNodes, [Next]_vars
    PROVE  nodes' \in 0 .. MaxNodes
<1>1. (UNCHANGED nodes) \/ (nodes > 0 /\ nodes' = nodes - 1)
  <2>1. CASE Jumps
    BY <2>1 DEF Jumps, Break, Continue, Goto, Return_, Visit
  <2>2. CASE Simple
    BY <2>2 DEF Simple, Declaration, Expression, Empty, NullStatement,
       LabelStatement, Case, Visit
  <2>3. CASE Nested
    BY <2>3 DEF Nested, Compound, If, While, For, Do, Switch, Visit
  <2>4. CASE Ends
    BY <2>4 DEF Ends, SkipItem, CompoundEnd, ThenEnd, ThenElse, ElseEnd,
       WhileDone, ForDone, DoDone, SwitchDone, LeaveLoop
  <2>5. CASE Unit
    BY <2>5 DEF Unit, Prototype, SecondPassEnd, Function, FunctionEnd,
       GlobalDeclaration, ProgramEnd, Done, vars
  <2> QED
    BY <2>1, <2>2, <2>3, <2>4, <2>5 DEF Next, vars
<1> QED
  BY <1>1, NodesAssumption

LEMMA LostKinds ==
    ASSUME lost \subseteq AllKinds \cup {"global"}, [Next]_vars
    PROVE  lost' \subseteq AllKinds \cup {"global"}
<1>1. CASE UNCHANGED lost
  BY <1>1
<1>2. ASSUME NEW k \in AllKinds, SkipItem(k)
      PROVE  lost' \subseteq AllKinds \cup {"global"}
  <2>1. lost' = lost \/ lost' = lost \cup {k}
    BY <1>2 DEF SkipItem
  <2> QED
    BY <2>1
<1>3. ASSUME NEW n \in VarName, GlobalDeclaration(n)
      PROVE  lost' \subseteq AllKinds \cup {"global"}
  <2>1. lost' = lost \/ lost' = lost \cup {"global"}
    BY <1>3 DEF GlobalDeclaration
  <2> QED
    BY <2>1
<1>4. CASE Jumps \/ Simple \/ Nested
  <2>1. UNCHANGED lost
    BY <1>4 DEF Jumps, Break, Continue, Goto, Return_, JumpsTo,
       Simple, Declaration, Expression, Empty, NullStatement, LabelStatement,
       Case, Nested, Compound, If, While, For, Do, Switch, EnterLoop
  <2> QED
    BY <1>1, <2>1
<1>5. CASE \/ CompoundEnd \/ ThenEnd \/ ThenElse \/ ElseEnd \/ WhileDone
           \/ (\E e \in Optional : ForDone(e)) \/ (\E e \in Exprs : DoDone(e))
           \/ SwitchDone
  <2>1. UNCHANGED lost
    BY <1>5 DEF CompoundEnd, ThenEnd, ThenElse, ElseEnd, WhileDone, ForDone,
       DoDone, SwitchDone, LeaveLoop
  <2> QED
    BY <1>1, <2>1
<1>6. CASE \/ (\E f \in FuncName : Prototype(f)) \/ SecondPassEnd
           \/ (\E f \in FuncName, params \in SUBSET VarName :
                  Function(f, params))
           \/ FunctionEnd \/ ProgramEnd \/ Done
  <2>1. UNCHANGED lost
    BY <1>6 DEF Prototype, SecondPassEnd, Function, FunctionEnd, ProgramEnd,
       Done, vars
  <2> QED
    BY <1>1, <2>1
<1>7. CASE UNCHANGED vars
  BY <1>1, <1>7 DEF vars
<1> QED
  BY <1>2, <1>3, <1>4, <1>5, <1>6, <1>7 DEF Next, Ends, Unit

\* The generator keeps its types, and text is printed between a function's
\* braces exactly while generate_function is waiting.
THEOREM TypeInvariance == Spec => []TypeOK
<1>1. Init => OutputTyped
  BY NodesAssumption DEF Init, OutputTyped, Blank
<1>2. ShapeInv /\ OutputTyped /\ [Next]_vars => OutputTyped'
  <2> SUFFICES ASSUME ShapeInv, OutputTyped, [Next]_vars PROVE OutputTyped'
    OBVIOUS
  <2>1. /\ nodes' \in 0 .. MaxNodes
        /\ lost' \subseteq AllKinds \cup {"global"}
    BY NodesAreMet, LostKinds DEF OutputTyped
  <2>2. /\ ir'.block \in {"none", "open", "closed"}
        /\ ir'.block = "none" <=> frames' = <<>>
    <3>1. CASE Jumps \/ Simple \/ Nested \/ Ends
      <4>1. frames # <<>> /\ frames' # <<>>
        BY <3>1, InsideFunction
      <4>2. ir'.block \in {"open", "closed"}
        BY <3>1, <4>1, InsideBlock DEF OutputTyped
      <4> QED
        BY <4>1, <4>2
    <3>2. ASSUME UNCHANGED <<frames, ir>>
          PROVE  /\ ir'.block \in {"none", "open", "closed"}
                 /\ ir'.block = "none" <=> frames' = <<>>
      BY <3>2 DEF OutputTyped
    <3>3. CASE \/ (\E f \in FuncName : Prototype(f)) \/ SecondPassEnd
               \/ (\E n \in VarName : GlobalDeclaration(n))
               \/ ProgramEnd \/ Done
      <4>1. UNCHANGED <<frames, ir>>
        BY <3>3 DEF Prototype, SecondPassEnd, GlobalDeclaration, ProgramEnd,
           Done, vars
      <4> QED
        BY <3>2, <4>1
    <3>4. ASSUME NEW f \in FuncName, NEW params \in SUBSET VarName,
                 Function(f, params)
          PROVE  /\ ir'.block \in {"none", "open", "closed"}
                 /\ ir'.block = "none" <=> frames' = <<>>
      <4>1. ir'.block = "open"
        BY <3>4, BlockKinds DEF Function
      <4>2. frames' # <<>>
        BY <3>4 DEF Function
      <4> QED
        BY <4>1, <4>2
    <3>5. CASE FunctionEnd
      <4>1. ir'.block = "none"
        BY <3>5, BlockKinds DEF FunctionEnd
      <4>2. /\ frames # <<>> /\ Top.at = "function" /\ frames' = Popped
        BY <3>5 DEF FunctionEnd, Waiting, Pop
      <4>3. frames' = <<>>
        BY <4>2, StackedPop DEF ShapeInv, ContextTyped, Popped, Top
      <4> QED
        BY <4>1, <4>3
    <3>6. CASE UNCHANGED vars
      BY <3>2, <3>6 DEF vars
    <3> QED
      BY <3>1, <3>3, <3>4, <3>5, <3>6 DEF Next, Unit
  <2> QED
    BY <2>1, <2>2 DEF OutputTyped
<1>3. ShapeInv /\ OutputTyped => TypeOK
  <2> SUFFICES ASSUME ShapeInv, OutputTyped PROVE TypeOK
    OBVIOUS
  <2>1. \A i \in DOMAIN frames :
           /\ frames[i].at \in FrameKinds
           /\ frames[i].base \in 0 .. label_counter
    <3>1. \A f \in FrameType : f.at \in FrameKinds
      BY DEF FrameType
    <3>2. label_counter \in Nat
      BY DEF ShapeInv, ContextTyped
    <3> QED
      BY <3>1, <3>2, StackedFrames DEF ShapeInv
  <2> QED
    BY <2>1 DEF ShapeInv, ContextTyped, ModeFollowsFrames, OutputTyped, TypeOK
<1> QED
  BY <1>1, <1>2, <1>3, ShapeInvariance, PTL DEF Spec

-------------------------------------------------------------------------------
\* The targets of break and continue.

\* The targets that k handlers set depend on those k handlers only.
LEMMA TargetsBelow ==
    ASSUME NEW k \in Nat, NEW fs, NEW gs, \A i \in 1 .. k : fs[i] = gs[i],
           NEW l
    PROVE  /\ IsBreakAt(fs, k, l) => IsBreakAt(gs, k, l)
           /\ IsContinueAt(fs, k, l) => IsContinueAt(gs, k, l)
<1>1. \A i \in 1 .. k : \A j \in i + 1 .. k : j \in 1 .. k
  OBVIOUS
<1>2. ASSUME IsBreakAt(fs, k, l) PROVE IsBreakAt(gs, k, l)
  <2>1. CASE l = NoLabel /\ \A i \in 1 .. k : fs[i].at \notin Breakable
    BY <2>1 DEF IsBreakAt
  <2>2. ASSUME NEW i \in 1 .. k, fs[i].at \in Breakable,
               l = BreakTarget(fs[i]),
               \A j \in i + 1 .. k : fs[j].at \notin Breakable
        PROVE  IsBreakAt(gs, k, l)
    <3>1. gs[i].at \in Breakable /\ l = BreakTarget(gs[i])
      BY <2>2
    <3>2. \A j \in i + 1 .. k : gs[j].at \notin Breakable
      BY <1>1, <2>2
    <3> QED
      BY <3>1, <3>2 DEF IsBreakAt
  <2> QED
    BY <1>2, <2>1, <2>2 DEF IsBreakAt
<1>3. ASSUME IsContinueAt(fs, k, l) PROVE IsContinueAt(gs, k, l)
  <2>1. CASE l = NoLabel /\ \A i \in 1 .. k : fs[i].at \notin Loops
    BY <2>1 DEF IsContinueAt
  <2>2. ASSUME NEW i \in 1 .. k, fs[i].at \in Loops,
               l = ContinueTarget(fs[i]),
               \A j \in i + 1 .. k : fs[j].at \notin Loops
        PROVE  IsContinueAt(gs, k, l)
    <3>1. gs[i].at \in Loops /\ l = ContinueTarget(gs[i])
      BY <2>2
    <3>2. \A j \in i + 1 .. k : gs[j].at \notin Loops
      BY <1>1, <2>2
    <3> QED
      BY <3>1, <3>2 DEF IsContinueAt
  <2> QED
    BY <1>3, <2>1, <2>2 DEF IsContinueAt
<1> QED
  BY <1>2, <1>3

\* The next handler replaces them, or leaves them alone.
LEMMA TargetsAbove ==
    ASSUME NEW k \in Nat, NEW fs, NEW l
    PROVE  /\ fs[k + 1].at \in Breakable =>
                  IsBreakAt(fs, k + 1, BreakTarget(fs[k + 1]))
           /\ fs[k + 1].at \notin Breakable =>
                  (IsBreakAt(fs, k, l) <=> IsBreakAt(fs, k + 1, l))
           /\ fs[k + 1].at \in Loops =>
                  IsContinueAt(fs, k + 1, ContinueTarget(fs[k + 1]))
           /\ fs[k + 1].at \notin Loops =>
                  (IsContinueAt(fs, k, l) <=> IsContinueAt(fs, k + 1, l))
<1>1. /\ k + 1 \in 1 .. k + 1
      /\ \A j : j \notin k + 1 + 1 .. k + 1
      /\ \A i \in 1 .. k + 1 : i = k + 1 \/ i \in 1 .. k
      /\ \A i \in 1 .. k : i \in 1 .. k + 1
      /\ \A i \in 1 .. k : k + 1 \in i + 1 .. k + 1
      /\ \A i \in 1 .. k : \A j \in i + 1 .. k + 1 : j = k + 1 \/ j \in i + 1 .. k
      /\ \A i \in 1 .. k : \A j \in i + 1 .. k : j \in i + 1 .. k + 1
  OBVIOUS
<1>2. fs[k + 1].at \in Breakable =>
          IsBreakAt(fs, k + 1, BreakTarget(fs[k + 1]))
  BY <1>1 DEF IsBreakAt
<1>3. fs[k + 1].at \in Loops =>
          IsContinueAt(fs, k + 1, ContinueTarget(fs[k + 1]))
  BY <1>1 DEF IsContinueAt
<1>4. ASSUME fs[k + 1].at \notin Breakable
      PROVE  IsBreakAt(fs, k, l) <=> IsBreakAt(fs, k + 1, l)
  <2>1. ASSUME IsBreakAt(fs, k, l) PROVE IsBreakAt(fs, k + 1, l)
    BY <1>1, <1>4, <2>1 DEF IsBreakAt
  <2>2. ASSUME IsBreakAt(fs, k + 1, l) PROVE IsBreakAt(fs, k, l)
    BY <1>1, <1>4, <2>2 DEF IsBreakAt
  <2> QED
    BY <2>1, <2>2
<1>5. ASSUME fs[k + 1].at \notin Loops
      PROVE  IsContinueAt(fs, k, l) <=> IsContinueAt(fs, k + 1, l)
  <2>1. ASSUME IsContinueAt(fs, k, l) PROVE IsContinueAt(fs, k + 1, l)
    BY <1>1, <1>5, <2>1 DEF IsContinueAt
  <2>2. ASSUME IsContinueAt(fs, k + 1, l) PROVE IsContinueAt(fs, k, l)
    BY <1>1, <1>5, <2>2 DEF IsContinueAt
  <2> QED
    BY <2>1, <2>2
<1> QED
  BY <1>2, <1>3, <1>4, <1>5

LEMMA TargetsAppend ==
    ASSUME NEW fs \in Seq(FrameType), NEW f \in FrameType,
           NEW break, NEW continue, TargetsOf(fs, break, continue),
           IsBreakAt(fs, Len(fs), f.prev_break),
           IsContinueAt(fs, Len(fs), f.prev_continue)
    PROVE  TargetsOf(Append(fs, f),
                     IF f.at \in Breakable THEN BreakTarget(f) ELSE break,
                     IF f.at \in Loops THEN ContinueTarget(f) ELSE continue)
<1> DEFINE gs == Append(fs, f)
           n == Len(fs)
           b == IF f.at \in Breakable THEN BreakTarget(f) ELSE break
           c == IF f.at \in Loops THEN ContinueTarget(f) ELSE continue
<1>1. /\ n \in Nat
      /\ \A i \in 1 .. n : gs[i] = fs[i]
      /\ gs[n + 1] = f
      /\ Len(gs) = n + 1
      /\ DOMAIN gs = 1 .. n + 1
      /\ DOMAIN fs = 1 .. n
  BY AppendProperties, LenProperties
<1> HIDE DEF gs
<1>2. ASSUME NEW k \in 0 .. n, NEW l
      PROVE  /\ IsBreakAt(fs, k, l) => IsBreakAt(gs, k, l)
             /\ IsContinueAt(fs, k, l) => IsContinueAt(gs, k, l)
  <2>1. k \in Nat /\ \A i \in 1 .. k : fs[i] = gs[i]
    BY <1>1
  <2> QED
    BY <2>1, TargetsBelow
<1> HIDE DEF n
<1>3. IsBreakAt(gs, n, break) /\ IsContinueAt(gs, n, continue)
  BY <1>1, <1>2 DEF TargetsOf, n
<1>4. IsBreakAt(gs, n + 1, b) /\ IsContinueAt(gs, n + 1, c)
  BY <1>1, <1>3, TargetsAbove
<1>5. ASSUME NEW i \in 1 .. n + 1
      PROVE  /\ IsBreakAt(gs, i - 1, gs[i].prev_break)
             /\ IsContinueAt(gs, i - 1, gs[i].prev_continue)
  <2>1. i - 1 \in 0 .. n
    BY <1>1
  <2>2. CASE i = n + 1
    <3>1. IsBreakAt(fs, n, f.prev_break) /\ IsContinueAt(fs, n, f.prev_continue)
      BY DEF n
    <3>2. i - 1 = n
      BY <1>1, <2>2
    <3> QED
      BY <1>1, <1>2, <2>1, <2>2, <3>1, <3>2
  <2>3. CASE i # n + 1
    <3>1. i \in 1 .. n /\ gs[i] = fs[i]
      BY <1>1, <2>3
    <3>2. /\ IsBreakAt(fs, i - 1, fs[i].prev_break)
          /\ IsContinueAt(fs, i - 1, fs[i].prev_continue)
      BY <1>1, <3>1 DEF TargetsOf
    <3> QED
      BY <1>2, <2>1, <3>1, <3>2
  <2> QED
    BY <2>2, <2>3
<1> HIDE DEF b, c
<1>6. TargetsOf(gs, b, c)
  BY <1>1, <1>4, <1>5 DEF TargetsOf
<1> QED
  BY <1>6 DEF gs, b, c

LEMMA TargetsPop ==
    ASSUME NEW counter \in Nat, NEW fs, Stacked(fs, counter), fs # <<>>,
           NEW break, NEW continue, TargetsOf(fs, break, continue)
    PROVE  LET rest == SubSeq(fs, 1, Len(fs) - 1)
               top == fs[Len(fs)]
           IN  /\ TargetsOf(rest,
                     IF top.at \in Breakable THEN top.prev_break ELSE break,
                     IF top.at \in Loops THEN top.prev_continue ELSE continue)
               /\ IsBreakAt(rest, Len(rest), top.prev_break)
               /\ IsContinueAt(rest, Len(rest), top.prev_continue)
<1> DEFINE rest == SubSeq(fs, 1, Len(fs) - 1)
           n == Len(fs)
           m == n - 1
           top == fs[n]
           b == IF top.at \in Breakable THEN top.prev_break ELSE break
           c == IF top.at \in Loops THEN top.prev_continue ELSE continue
<1>1. /\ n \in Nat /\ n >= 1 /\ DOMAIN fs = 1 .. n
      /\ Len(rest) = m
      /\ \A i \in 1 .. m : rest[i] = fs[i]
      /\ rest \in Seq(FrameType)
  BY StackedTop, StackedFrames, StackedPop DEF Stacked
<1>2. DOMAIN rest = 1 .. m
  BY <1>1, LenProperties
<1> HIDE DEF rest, n
<1>3. m \in Nat /\ n = m + 1
  BY <1>1
<1> HIDE DEF m
<1>4. ASSUME NEW k \in 0 .. m, NEW l
      PROVE  /\ IsBreakAt(fs, k, l) => IsBreakAt(rest, k, l)
             /\ IsContinueAt(fs, k, l) => IsContinueAt(rest, k, l)
  <2>1. k \in Nat /\ \A i \in 1 .. k : fs[i] = rest[i]
    BY <1>1, <1>3
  <2> QED
    BY <2>1, TargetsBelow
<1>5. /\ IsBreakAt(fs, n, break) /\ IsContinueAt(fs, n, continue)
      /\ \A i \in 1 .. n : /\ IsBreakAt(fs, i - 1, fs[i].prev_break)
                           /\ IsContinueAt(fs, i - 1, fs[i].prev_continue)
  BY <1>1 DEF TargetsOf, n
<1>6. n - 1 = m /\ m \in 0 .. m /\ n \in 1 .. n
  BY <1>3
<1>7. /\ IsBreakAt(fs, m, top.prev_break)
      /\ IsContinueAt(fs, m, top.prev_continue)
  BY <1>5, <1>6
<1>8. /\ IsBreakAt(rest, m, top.prev_break)
      /\ IsContinueAt(rest, m, top.prev_continue)
  BY <1>4, <1>6, <1>7
<1>9. /\ top.at \notin Breakable => IsBreakAt(fs, m, break)
      /\ top.at \notin Loops => IsContinueAt(fs, m, continue)
  BY <1>3, <1>5, TargetsAbove
<1>10. IsBreakAt(rest, m, b) /\ IsContinueAt(rest, m, c)
  BY <1>4, <1>6, <1>8, <1>9
<1>11. ASSUME NEW i \in 1 .. m
       PROVE  /\ IsBreakAt(rest, i - 1, rest[i].prev_break)
              /\ IsContinueAt(rest, i - 1, rest[i].prev_continue)
  <2>1. i - 1 \in 0 .. m /\ i \in 1 .. n /\ rest[i] = fs[i]
    BY <1>1, <1>3
  <2> QED
    BY <1>4, <1>5, <2>1
<1> HIDE DEF b, c, top
<1>12. TargetsOf(rest, b, c)
  BY <1>1, <1>2, <1>10, <1>11 DEF TargetsOf
<1> QED
  BY <1>1, <1>8, <1>12 DEF rest, b, c, top, n, m

LEMMA TargetInvariance == Spec => []TargetInv
<1>1. Init => TargetInv
  <2> SUFFICES ASSUME Init PROVE TargetInv
    OBVIOUS
  <2>1. frames = <<>> /\ Len(frames) = 0 /\ DOMAIN frames = {}
    BY DEF Init
  <2>2. current_break_label = NoLabel /\ current_continue_label = NoLabel
    BY DEF Init
  <2> QED
    BY <2>1, <2>2 DEF TargetInv, TargetsOf, IsBreakAt, IsContinueAt
<1>2. ShapeInv /\ TargetInv /\ [Next]_vars => TargetInv'
  <2> SUFFICES ASSUME ShapeInv, TargetInv, [Next]_vars PROVE TargetInv'
    OBVIOUS
  <2>0. /\ Stacked(frames, label_counter) /\ label_counter \in Nat
        /\ frames \in Seq(FrameType)
        /\ TargetsOf(frames, current_break_label, current_continue_label)
    BY StackedFrames DEF ShapeInv, ContextTyped, TargetInv
  <2>1. CASE Stays
    BY <2>0, <2>1 DEF Stays, TargetInv
  <2>2. CASE Enters
    <3>1. PICK f \in FrameType :
              /\ f.prev_break = current_break_label
              /\ f.prev_continue = current_continue_label
              /\ frames' = Append(frames, f)
              /\ current_break_label' =
                    IF f.at \in Breakable THEN BreakTarget(f)
                    ELSE current_break_label
              /\ current_continue_label' =
                    IF f.at \in Loops THEN ContinueTarget(f)
                    ELSE current_continue_label
      BY <2>2 DEF Enters
    <3>2. /\ IsBreakAt(frames, Len(frames), f.prev_break)
          /\ IsContinueAt(frames, Len(frames), f.prev_continue)
      BY <2>0, <3>1 DEF TargetsOf
    <3> QED
      BY <2>0, <3>1, <3>2, TargetsAppend DEF TargetInv
  <2>3. CASE Leaves
    BY <2>0, <2>3, TargetsPop DEF Leaves, Popped, Top, TargetInv
  <2>4. CASE Alternates
    <3>1. PICK f \in FrameType :
              /\ frames # <<>> /\ Top.at = "then" /\ f.at = "else"
              /\ f.prev_break = Top.prev_break
              /\ f.prev_continue = Top.prev_continue
              /\ frames' = Append(Popped, f)
              /\ UNCHANGED <<current_break_label, current_continue_label>>
      BY <2>4 DEF Alternates
    <3>2. /\ \A at \in {"then", "else"} : at \notin Breakable /\ at \notin Loops
      BY DEF Breakable, Loops
    <3>3. /\ TargetsOf(Popped, current_break_label, current_continue_label)
          /\ IsBreakAt(Popped, Len(Popped), f.prev_break)
          /\ IsContinueAt(Popped, Len(Popped), f.prev_continue)
      BY <2>0, <3>1, <3>2, TargetsPop DEF Popped, Top
    <3>4. Popped \in Seq(FrameType)
      BY <2>0, <3>1, StackedPop, StackedFrames DEF Popped
    <3>5. TargetsOf(Append(Popped, f), current_break_label,
                    current_continue_label)
      BY <3>1, <3>2, <3>3, <3>4, TargetsAppend
    <3> QED
      BY <3>1, <3>5 DEF TargetInv
  <2>5. CASE Starts
    <3>1. PICK f \in FrameType, body \in FrameType :
              /\ frames = <<>>
              /\ f.at = "function" /\ body.at = "compound"
              /\ \A g \in {f, body} :
                    /\ g.prev_break = current_break_label
                    /\ g.prev_continue = current_continue_label
              /\ frames' = <<f, body>>
              /\ UNCHANGED <<current_break_label, current_continue_label>>
      BY <2>5 DEF Starts
    <3>2. \A at \in {"function", "compound"} :
              at \notin Breakable /\ at \notin Loops
      BY DEF Breakable, Loops
    <3> DEFINE b == current_break_label
               c == current_continue_label
    <3>3. /\ TargetsOf(frames, b, c)
          /\ IsBreakAt(frames, Len(frames), b)
          /\ IsContinueAt(frames, Len(frames), c)
      BY <2>0 DEF TargetsOf
    <3> DEFINE one == Append(frames, f)
    <3>4. one \in Seq(FrameType) /\ one = <<f>>
      BY <2>0, <3>1, AppendProperties
    <3>5. TargetsOf(one, b, c)
      BY <2>0, <3>1, <3>2, <3>3, TargetsAppend
    <3>6. frames' = Append(one, body)
      BY <3>1, <3>4
    <3> HIDE DEF one
    <3>7. IsBreakAt(one, Len(one), b) /\ IsContinueAt(one, Len(one), c)
      BY <3>5 DEF TargetsOf
    <3>8. TargetsOf(Append(one, body), b, c)
      BY <3>1, <3>2, <3>4, <3>5, <3>7, TargetsAppend
    <3> QED
      BY <3>1, <3>6, <3>8 DEF TargetInv
  <2> QED
    BY <2>1, <2>2, <2>3, <2>4, <2>5, StepShapes
<1> QED
  BY <1>1, <1>2, ShapeInvariance, PTL DEF Spec

\* The innermost of the numbers in a set.
LEMMA InnermostIs ==
    ASSUME NEW S \in SUBSET Nat, NEW i \in S, \A j \in S : j <= i
    PROVE  Innermost(S) = i
<1>1. \A x, y \in Nat : x <= y /\ y <= x => x = y
  OBVIOUS
<1>2. \A x \in S : (\A j \in S : j <= x) => x = i
  BY <1>1
<1>3. (CHOOSE x \in S : \A j \in S : j <= x) = i
  BY <1>2
<1> QED
  BY <1>3 DEF Innermost

\* In every function, break and continue go to the innermost statement that
\* may be left or continued, however the statements before were nested.
THEOREM TargetsInvariance == Spec => []TargetsAreInnermost
<1>1. ShapeInv /\ TargetInv => TargetsAreInnermost
  <2> SUFFICES ASSUME ShapeInv, TargetInv PROVE TargetsAreInnermost
    OBVIOUS
  <2> DEFINE n == Len(frames)
             b == current_break_label
             c == current_continue_label
  <2>1. n \in Nat /\ DOMAIN frames = 1 .. n
    BY StackedFrames DEF ShapeInv
  <2>2. IsBreakAt(frames, n, b) /\ IsContinueAt(frames, n, c)
    BY DEF TargetInv, TargetsOf
  <2> HIDE DEF n
  <2>3. \A i, j \in 1 .. n : j \in i + 1 .. n \/ j <= i
    BY <2>1
  <2>4. ASSUME NEW ats
        PROVE  /\ (\A i \in 1 .. n : frames[i].at \notin ats) =>
                      Enclosing(ats) = 0
               /\ \A i \in 1 .. n :
                     frames[i].at \in ats
                     /\ (\A j \in i + 1 .. n : frames[j].at \notin ats)
                     => Enclosing(ats) = i
    <3> DEFINE S == {i \in DOMAIN frames : frames[i].at \in ats}
    <3>1. S \in SUBSET Nat
      BY <2>1
    <3>2. ASSUME \A i \in 1 .. n : frames[i].at \notin ats
          PROVE  Enclosing(ats) = 0
      <4>1. S = {}
        BY <2>1, <3>2
      <4> QED
        BY <4>1 DEF Enclosing, Innermost
    <3>3. ASSUME NEW i \in 1 .. n, frames[i].at \in ats,
                 \A j \in i + 1 .. n : frames[j].at \notin ats
          PROVE  Enclosing(ats) = i
      <4>1. i \in S /\ \A j \in S : j <= i
        BY <2>1, <2>3, <3>3
      <4> HIDE DEF S
      <4>2. Innermost(S) = i
        BY <3>1, <4>1, InnermostIs
      <4> QED
        BY <4>2 DEF Enclosing, S
    <3> QED
      BY <3>2, <3>3
  <2>5. b = IF Enclosing(Breakable) = 0 THEN NoLabel
            ELSE BreakTarget(frames[Enclosing(Breakable)])
    <3>1. CASE b = NoLabel /\ \A i \in 1 .. n : frames[i].at \notin Breakable
      BY <2>4, <3>1
    <3>2. ASSUME NEW i \in 1 .. n, frames[i].at \in Breakable,
                 b = BreakTarget(frames[i]),
                 \A j \in i + 1 .. n : frames[j].at \notin Breakable
          PROVE  /\ Enclosing(Breakable) # 0
                 /\ b = BreakTarget(frames[Enclosing(Breakable)])
      <4>1. Enclosing(Breakable) = i
        BY <2>4, <3>2
      <4>2. i # 0
        BY <2>1
      <4> QED
        BY <3>2, <4>1, <4>2
    <3> QED
      BY <2>2, <3>1, <3>2 DEF IsBreakAt
  <2>6. c = IF Enclosing(Loops) = 0 THEN NoLabel
            ELSE ContinueTarget(frames[Enclosing(Loops)])
    <3>1. CASE c = NoLabel /\ \A i \in 1 .. n : frames[i].at \notin Loops
      BY <2>4, <3>1
    <3>2. ASSUME NEW i \in 1 .. n, frames[i].at \in Loops,
                 c = ContinueTarget(frames[i]),
                 \A j \in i + 1 .. n : frames[j].at \notin Loops
          PROVE  /\ Enclosing(Loops) # 0
                 /\ c = ContinueTarget(frames[Enclosing(Loops)])
      <4>1. Enclosing(Loops) = i
        BY <2>4, <3>2
      <4>2. i # 0
        BY <2>1
      <4> QED
        BY <3>2, <4>1, <4>2
    <3> QED
      BY <2>2, <3>1, <3>2 DEF IsContinueAt
  <2>7. /\ Breakable = {"while", "for", "do", "switch"}
        /\ Loops = {"while", "for", "do"}
    BY DEF Breakable, Loops
  <2> QED
    BY <2>5, <2>6, <2>7 DEF TargetsAreInnermost
<1> QED
  BY <1>1, ShapeInvariance, TargetInvariance, PTL

-------------------------------------------------------------------------------
\* The flag.

LEMMA AgreeAppend ==
    ASSUME NEW fs \in Seq(FrameType), NEW f \in FrameType,
           \A i \in DOMAIN fs : FrameAgrees(fs[i]), FrameAgrees(f)
    PROVE  \A i \in DOMAIN Append(fs, f) : FrameAgrees(Append(fs, f)[i])
<1> DEFINE gs == Append(fs, f)
           n == Len(fs)
<1>1. /\ n \in Nat /\ DOMAIN fs = 1 .. n /\ DOMAIN gs = 1 .. n + 1
      /\ \A i \in 1 .. n : gs[i] = fs[i]
      /\ gs[n + 1] = f
  BY AppendProperties, LenProperties
<1> HIDE DEF gs, n
<1>2. \A i \in 1 .. n + 1 : i = n + 1 \/ i \in 1 .. n
  BY <1>1
<1>3. \A i \in DOMAIN gs : FrameAgrees(gs[i])
  BY <1>1, <1>2
<1> QED
  BY <1>3 DEF gs

LEMMA AgreePop ==
    ASSUME ShapeInv, frames # <<>>,
           \A i \in DOMAIN frames : FrameAgrees(frames[i])
    PROVE  /\ FrameAgrees(Top)
           /\ Popped \in Seq(FrameType)
           /\ \A i \in DOMAIN Popped : FrameAgrees(Popped[i])
<1> DEFINE n == Len(frames)
<1>1. /\ n \in Nat /\ n \in DOMAIN frames /\ DOMAIN frames = 1 .. n
      /\ Popped \in Seq(FrameType)
      /\ Len(Popped) = n - 1
      /\ \A i \in 1 .. n - 1 : Popped[i] = frames[i]
  BY StackedTop, StackedFrames, StackedPop
     DEF ShapeInv, ContextTyped, Popped, Stacked
<1>2. DOMAIN Popped = 1 .. n - 1
  BY <1>1, LenProperties
<1> HIDE DEF n
<1>3. \A i \in 1 .. n - 1 : i \in 1 .. n
  BY <1>1
<1> QED
  BY <1>1, <1>2, <1>3 DEF Top, n

\* In a program without switch and labels, the flag is set exactly where the
\* source says that control does not reach.
THEOREM FlagInvariance ==
    ASSUME Kinds \cap {"switch", "case", "label"} = {}
    PROVE  Spec => []FlagIsUnreachability
<1>1. Init => FlagInv
  BY DEF Init, FlagInv, FlagIsUnreachability
<1>2. ShapeInv /\ FlagInv /\ [Next]_vars => FlagInv'
  <2> SUFFICES ASSUME ShapeInv, FlagInv, [Next]_vars PROVE FlagInv'
    OBVIOUS
  <2> USE DEF labels
  <2>0. /\ in_return_block \in BOOLEAN /\ live \in BOOLEAN
        /\ \A i \in DOMAIN frames : FrameAgrees(frames[i])
        /\ frames # <<>> => (in_return_block <=> ~live)
        /\ frames \in Seq(FrameType)
    BY StackedFrames
       DEF ShapeInv, ContextTyped, FlagInv, FlagIsUnreachability
  <2>1. ASSUME UNCHANGED frames,
               frames # <<>> => (in_return_block' <=> ~live')
        PROVE  FlagInv'
    BY <2>0, <2>1 DEF FlagInv, FlagIsUnreachability
  <2>2. CASE Jumps
    <3>1. UNCHANGED frames /\ ~in_return_block /\ frames # <<>>
      BY <2>2, InsideFunction DEF Jumps, Break, Continue, Goto, Return_, Visit,
         JumpsTo, Return
    <3>2. \/ UNCHANGED <<in_return_block, live>>
          \/ in_return_block' = TRUE /\ live' = FALSE
      BY <2>2 DEF Jumps, Break, Continue, Goto, Return_, JumpsTo
    <3>3. in_return_block' <=> ~live'
      BY <2>0, <3>1, <3>2
    <3> QED
      BY <2>1, <3>1, <3>3
  <2>3. CASE Simple
    <3>1. UNCHANGED <<frames, in_return_block>> /\ frames # <<>>
      BY <2>3, InsideFunction DEF Simple, Declaration, Expression, Empty,
         NullStatement, LabelStatement, Case, Return
    <3>2. (UNCHANGED live) \/ (live' = TRUE /\ ~in_return_block)
      BY <2>3 DEF Simple, Declaration, Expression, Empty, NullStatement,
         LabelStatement, Case, Visit
    <3>3. in_return_block' <=> ~live'
      BY <2>0, <3>1, <3>2
    <3> QED
      BY <2>1, <3>1, <3>3
  <2>4. ASSUME NEW f \in FrameType, FrameAgrees(f), frames # <<>>,
               frames' = Append(frames, f), in_return_block' <=> ~live'
        PROVE  FlagInv'
    BY <2>0, <2>4, AgreeAppend DEF FlagInv, FlagIsUnreachability
  <2>5. CASE Nested
    <3>1. frames # <<>>
      BY <2>5, InsideFunction
    <3>2. ~in_return_block /\ live
      BY <2>0, <2>5, <3>1 DEF Nested, Compound, If, While, For, Do, Switch, Visit
    <3>3. label_counter \in Nat /\ ContextTyped
      BY DEF ShapeInv, ContextTyped
    <3>4. in_return_block' <=> ~live'
      <4>1. UNCHANGED live
        BY <2>5 DEF Nested, Compound, If, While, For, Do, Switch, EnterLoop
      <4>2. (UNCHANGED in_return_block) \/ in_return_block' = FALSE
        BY <2>5 DEF Nested, Compound, If, While, For, Do, Switch, EnterLoop
      <4> QED
        BY <2>0, <3>2, <4>1, <4>2
    <3>5. ASSUME NEW at \in FrameKinds \ {"else", "switch"}, NEW base \in Nat
          PROVE  Frame(at, base) \in FrameType /\ FrameAgrees(Frame(at, base))
      <4>1. Frame(at, base) \in FrameType
        BY <3>3, FrameTyped
      <4>2. /\ Frame(at, base).at = at
            /\ Frame(at, base).prev_return_state = in_return_block
            /\ Frame(at, base).live = live
        BY DEF Frame
      <4> QED
        BY <3>2, <3>5, <4>1, <4>2 DEF FrameAgrees
    <3>6. ASSUME NEW at \in FrameKinds \ {"else", "switch"}, NEW base \in Nat,
                 frames' = Append(frames, Frame(at, base))
          PROVE  FlagInv'
      BY <2>4, <3>1, <3>4, <3>5, <3>6
    <3>7. CASE Compound
      <4>1. frames' = Append(frames, Frame("compound", 0))
        BY <3>7 DEF Compound, Call
      <4> QED
        BY <3>6, <4>1 DEF FrameKinds
    <3>8. ASSUME NEW e \in Exprs, NEW has_else \in BOOLEAN, If(e, has_else)
          PROVE  FlagInv'
      <4> DEFINE g == Frame("then", label_counter)
                 f == [g EXCEPT !.has_else = has_else]
      <4>1. frames' = Append(frames, f)
        BY <3>8 DEF If, Call
      <4>2. g \in FrameType /\ FrameAgrees(g) /\ g.at = "then"
        <5>1. g.at = "then"
          BY DEF Frame
        <5> QED
          BY <3>3, <3>5, <5>1 DEF FrameKinds
      <4> HIDE DEF g
      <4>3. f \in FrameType /\ FrameAgrees(f)
        BY <4>2 DEF FrameType, FrameAgrees
      <4> HIDE DEF f
      <4> QED
        BY <2>4, <3>1, <3>4, <4>1, <4>3
    <3>9. ASSUME NEW e \in Exprs, While(e) PROVE FlagInv'
      <4>1. frames' = Append(frames, Frame("while", label_counter))
        BY <3>9 DEF While, EnterLoop, Call
      <4> QED
        BY <3>3, <3>6, <4>1 DEF FrameKinds
    <3>10. ASSUME NEW declared \in SUBSET VarName, NEW init \in Optional,
                  NEW cond \in Optional, For(declared, init, cond, label_counter)
           PROVE  FlagInv'
      <4>1. frames' = Append(frames, Frame("for", label_counter))
        BY <3>10 DEF For, EnterLoop, Call
      <4> QED
        BY <3>3, <3>6, <4>1 DEF FrameKinds
    <3>11. ASSUME Do PROVE FlagInv'
      <4>1. frames' = Append(frames, Frame("do", label_counter))
        BY <3>11 DEF Do, EnterLoop, Call
      <4> QED
        BY <3>3, <3>6, <4>1 DEF FrameKinds
    <3>12. ASSUME NEW e \in Exprs, Switch(e) PROVE FlagInv'
      BY <3>12 DEF Switch, Visit
    <3> QED
      BY <2>5, <3>7, <3>8, <3>9, <3>10, <3>11, <3>12 DEF Nested
  <2>6. CASE Ends
    <3>1. frames # <<>>
      BY <2>6, InsideFunction
    <3>2. /\ FrameAgrees(Top)
          /\ Popped \in Seq(FrameType)
          /\ \A i \in DOMAIN Popped : FrameAgrees(Popped[i])
          /\ Top \in FrameType
          /\ Top.prev_return_state \in BOOLEAN /\ Top.live \in BOOLEAN
          /\ Top.then_terminates \in BOOLEAN /\ Top.then_live \in BOOLEAN
      BY <2>0, <3>1, AgreePop, TopTyped
    <3>3. ASSUME frames' = Popped, in_return_block' <=> ~live' PROVE FlagInv'
      BY <3>2, <3>3 DEF FlagInv, FlagIsUnreachability
    <3>4. ASSUME NEW k \in AllKinds, SkipItem(k) PROVE FlagInv'
      <4>1. UNCHANGED <<frames, in_return_block>> /\ k \notin {"label", "case"}
        BY <3>4 DEF SkipItem
      <4>2. live' <=> live
        BY <3>4, <4>1, <2>0 DEF SkipItem
      <4> QED
        BY <2>0, <2>1, <3>1, <4>1, <4>2
    <3>5. CASE CompoundEnd
      BY <2>0, <3>1, <3>3, <3>5 DEF CompoundEnd, Pop
    <3>6. ASSUME Restored, frames' = Popped,
                 Top.at \notin {"function", "compound"}
          PROVE  FlagInv'
      BY <3>2, <3>3, <3>6 DEF Restored, FrameAgrees
    <3>7. CASE ThenEnd
      BY <3>6, <3>7 DEF ThenEnd, Waiting, Pop
    <3>8. CASE ElseEnd
      <4>1. /\ in_return_block' = (Top.prev_return_state
                                   \/ (Top.then_terminates /\ in_return_block))
            /\ live' = (live \/ Top.then_live)
            /\ frames' = Popped /\ Top.at = "else"
        BY <3>8 DEF ElseEnd, Waiting, Pop
      <4>2. /\ ~Top.prev_return_state
            /\ Top.then_terminates <=> ~Top.then_live
        BY <3>2, <4>1 DEF FrameAgrees
      <4>3. in_return_block' <=> ~live'
        BY <2>0, <3>1, <4>1, <4>2
      <4> QED
        BY <3>3, <4>1, <4>3
    <3>9. CASE ThenElse
      <4> DEFINE f == [Top EXCEPT !.at = "else",
                                  !.then_terminates = in_return_block,
                                  !.then_live = live]
      <4>1. /\ in_return_block' = FALSE /\ live' = Top.live
            /\ Top.at = "then" /\ frames' = Append(Popped, f)
        BY <3>9 DEF ThenElse, Waiting
      <4>2. Top.live /\ ~Top.prev_return_state
        BY <3>2, <4>1 DEF FrameAgrees
      <4>3. f \in FrameType /\ FrameAgrees(f)
        <5>1. /\ f \in FrameType
              /\ f.at = "else" /\ f.prev_return_state = Top.prev_return_state
              /\ f.live = Top.live
              /\ f.then_terminates = in_return_block /\ f.then_live = live
          <6> HIDE DEF Top
          <6> QED
            BY <2>0, <3>2 DEF FrameType, FrameKinds
        <5> HIDE DEF f
        <5> QED
          BY <2>0, <3>1, <4>2, <5>1 DEF FrameAgrees
      <4> HIDE DEF f
      <4>4. \A i \in DOMAIN frames' : FrameAgrees(frames'[i])
        BY <3>2, <4>1, <4>3, AgreeAppend
      <4> QED
        BY <4>1, <4>2, <4>4 DEF FlagInv, FlagIsUnreachability
    <3>10. CASE WhileDone \/ (\E e \in Optional : ForDone(e))
                \/ (\E e \in Exprs : DoDone(e))
      BY <3>6, <3>10 DEF WhileDone, ForDone, DoDone, Waiting, LeaveLoop, Pop
    <3>11. CASE SwitchDone
      BY <3>2, <3>11 DEF SwitchDone, Waiting, FrameAgrees
    <3> QED
      BY <2>6, <3>4, <3>5, <3>7, <3>8, <3>9, <3>10, <3>11 DEF Ends
  <2>7. CASE Unit
    <3>1. CASE \/ (\E f \in FuncName : Prototype(f)) \/ SecondPassEnd
               \/ (\E n \in VarName : GlobalDeclaration(n))
               \/ ProgramEnd \/ Done
      <4>1. UNCHANGED <<frames, in_return_block, live>>
        BY <3>1 DEF Prototype, SecondPassEnd, GlobalDeclaration, ProgramEnd,
           Done, vars
      <4> QED
        BY <2>0, <2>1, <4>1
    <3>2. ASSUME NEW f \in FuncName, NEW params \in SUBSET VarName,
                 Function(f, params)
          PROVE  FlagInv'
      <4> DEFINE g == Frame("function", 0)
                 body == Frame("compound", 0)
      <4>1. /\ in_return_block' = FALSE /\ live' = TRUE
            /\ frames' = <<g, body>>
        BY <3>2 DEF Function
      <4>2. FrameAgrees(g) /\ FrameAgrees(body)
        BY DEF Frame, FrameAgrees
      <4> HIDE DEF g, body
      <4> QED
        BY <4>1, <4>2 DEF FlagInv, FlagIsUnreachability
    <3>3. CASE FunctionEnd
      <4>1. frames # <<>> /\ Top.at = "function" /\ frames' = Popped
        BY <3>3 DEF FunctionEnd, Waiting, Pop
      <4>2. frames' = <<>>
        BY <4>1, StackedPop DEF ShapeInv, ContextTyped, Popped, Top
      <4> QED
        BY <4>2 DEF FlagInv, FlagIsUnreachability
    <3> QED
      BY <2>7, <3>1, <3>2, <3>3 DEF Unit
  <2>8. CASE UNCHANGED vars
    BY <2>0, <2>1, <2>8 DEF vars
  <2> QED
    BY <2>2, <2>3, <2>5, <2>6, <2>7, <2>8 DEF Next
<1>3. FlagInv => FlagIsUnreachability
  BY DEF FlagInv
<1> QED
  BY <1>1, <1>2, <1>3, ShapeInvariance, PTL DEF Spec

-------------------------------------------------------------------------------
\* What each line does to a text that is sound so far.

LEMMA SoundInstr ==
    ASSUME NEW r, NEW P, NEW U, NEW c, Sound(r, P, U, c), r.block = "open"
    PROVE  /\ Sound(Instr(r), P, U, c)
           /\ Instr(r).block = "open" /\ Instr(r).defs = r.defs
<1>1. /\ Instr(r).block = "open" /\ Instr(r).defs = r.defs
      /\ Instr(r).refs = r.refs /\ Instr(r).faults = Orphaned(r)
  BY DEF Instr
<1>2. Orphaned(r) = r.faults
  BY DEF Orphaned
<1> QED
  BY <1>1, <1>2 DEF Sound

\* A branch to labels that are printed or will be, and may be branched to.
LEMMA SoundJump ==
    ASSUME NEW r, NEW P, NEW U, NEW c, Sound(r, P, U, c), r.block = "open",
           NEW T,
           \A l \in T : /\ \/ l \in r.defs \/ l \in P
                           \/ ~Structured /\ Number(l) = 0
                        /\ l \notin U
    PROVE  /\ Sound(Jump(r, T), P, U, c)
           /\ Jump(r, T).block = "closed" /\ Jump(r, T).defs = r.defs
<1> DEFINE q == Jump(r, T)
<1>1. /\ q.block = "closed" /\ q.defs = r.defs
      /\ q.refs = r.refs \cup T /\ q.faults = Orphaned(r)
  BY DEF Jump
<1>2. Orphaned(r) = r.faults
  BY DEF Orphaned
<1> HIDE DEF q
<1>3. c \in Nat /\ 0 \in 0 .. c
  BY DEF Sound
<1>4. \A l \in q.defs \cup q.refs \cup P \cup U : Number(l) \in 0 .. c
  BY <1>1, <1>3 DEF Sound
<1>5. U \cap q.refs = {}
  BY <1>1 DEF Sound
<1>6. \A l \in q.refs : l \in q.defs \/ l \in P \/ Number(l) = 0
  BY <1>1 DEF Sound
<1>7. Structured => \A l \in q.defs \cup q.refs : Number(l) # 0
  BY <1>1 DEF Sound
<1>8. Sound(q, P, U, c)
  BY <1>1, <1>2, <1>3, <1>4, <1>5, <1>6, <1>7 DEF Sound
<1> QED
  BY <1>1, <1>8 DEF q

LEMMA SoundBranch ==
    ASSUME NEW r, NEW P, NEW U, NEW c, Sound(r, P, U, c), r.block = "open",
           NEW l, l \in r.defs \/ l \in P, l \notin U
    PROVE  /\ Sound(Jump(r, {l}), P, U, c)
           /\ Jump(r, {l}).block = "closed"
           /\ Jump(r, {l}).defs = r.defs
<1> DEFINE T == {l}
<1>1. \A k \in T : /\ \/ k \in r.defs \/ k \in P
                      \/ ~Structured /\ Number(k) = 0
                   /\ k \notin U
  OBVIOUS
<1> HIDE DEF T
<1>2. /\ Sound(Jump(r, T), P, U, c)
      /\ Jump(r, T).block = "closed" /\ Jump(r, T).defs = r.defs
  BY <1>1, SoundJump
<1> QED
  BY <1>2 DEF T

LEMMA SoundFork ==
    ASSUME NEW r, NEW P, NEW U, NEW c, Sound(r, P, U, c), r.block = "open",
           NEW yes, yes \in r.defs \/ yes \in P, yes \notin U,
           NEW no, no \in r.defs \/ no \in P, no \notin U
    PROVE  /\ Sound(Jump(r, {yes, no}), P, U, c)
           /\ Jump(r, {yes, no}).block = "closed"
           /\ Jump(r, {yes, no}).defs = r.defs
<1> DEFINE T == {yes, no}
<1>1. \A k \in T : /\ \/ k \in r.defs \/ k \in P
                      \/ ~Structured /\ Number(k) = 0
                   /\ k \notin U
  OBVIOUS
<1> HIDE DEF T
<1>2. /\ Sound(Jump(r, T), P, U, c)
      /\ Jump(r, T).block = "closed" /\ Jump(r, T).defs = r.defs
  BY <1>1, SoundJump
<1> QED
  BY <1>2 DEF T

\* The line of a label that was to be printed, or of one of the program.
LEMMA SoundLabel ==
    ASSUME NEW r, NEW P, NEW U, NEW c, Sound(r, P, U, c),
           Structured => r.block = "closed",
           NEW l, l \in P \/ (~Structured /\ Number(l) = 0)
    PROVE  /\ Sound(Label(r, l), P \ {l}, U, c)
           /\ Label(r, l).block = "open" /\ Label(r, l).defs = r.defs \cup {l}
<1> DEFINE q == Label(r, l)
           open == IF r.block = "open" THEN {<<"unterminated", l>>} ELSE {}
           again == IF l \in r.defs THEN {<<"duplicate", l>>} ELSE {}
<1>1. /\ q.block = "open" /\ q.defs = r.defs \cup {l}
      /\ q.refs = r.refs /\ q.faults = r.faults \cup open \cup again
  BY DEF Label
<1>2. /\ Structured => open = {}
      /\ \A fault \in open : fault[1] = "unterminated"
  OBVIOUS
<1>3. /\ Structured => again = {}
      /\ \A fault \in again : fault[1] = "duplicate" /\ Number(fault[2]) = 0
  BY DEF Sound
<1> HIDE DEF q, open, again
<1>4. c \in Nat /\ 0 \in 0 .. c
  BY DEF Sound
<1>5. \A k \in q.defs \cup q.refs \cup (P \ {l}) \cup U : Number(k) \in 0 .. c
  BY <1>1, <1>4 DEF Sound
<1>6. \A k \in q.refs : k \in q.defs \/ k \in P \ {l} \/ Number(k) = 0
  BY <1>1 DEF Sound
<1>7. Structured => \A k \in q.defs \cup q.refs : Number(k) # 0
  BY <1>1 DEF Sound
<1>8. Tolerated(q.faults)
  BY <1>1, <1>2, <1>3 DEF Sound, Tolerated
<1>9. /\ \A k \in P \ {l} : Number(k) # 0
      /\ (P \ {l}) \cap q.defs = {}
      /\ U \cap q.refs = {}
  BY <1>1 DEF Sound
<1>10. Sound(q, P \ {l}, U, c)
  BY <1>1, <1>4, <1>5, <1>6, <1>7, <1>8, <1>9 DEF Sound
<1> QED
  BY <1>1, <1>10 DEF q

\* After a terminator.
LEMMA SoundAfterJump ==
    ASSUME NEW r, NEW P, NEW U, NEW c, Sound(r, P, U, c), r.block = "closed",
           NEW l \in P
    PROVE  /\ Sound(Label(r, l), P \ {l}, U, c)
           /\ Label(r, l).block = "open" /\ Label(r, l).defs = r.defs \cup {l}
<1>1. Structured => r.block = "closed"
  OBVIOUS
<1>2. l \in P \/ (~Structured /\ Number(l) = 0)
  OBVIOUS
<1> QED
  BY <1>1, <1>2, SoundLabel

\* A label reached by falling into it.
LEMMA SoundFallTo ==
    ASSUME NEW r, NEW P, NEW U, NEW c, Sound(r, P, U, c), r.block = "open",
           NEW l \in P, l \notin U
    PROVE  /\ Sound(FallTo(r, l), P \ {l}, U, c)
           /\ FallTo(r, l).block = "open"
           /\ FallTo(r, l).defs = r.defs \cup {l}
<1> DEFINE q == Jump(r, {l})
<1>1. Sound(q, P, U, c) /\ q.block = "closed" /\ q.defs = r.defs
  BY SoundBranch
<1> HIDE DEF q
<1>2. /\ Sound(Label(q, l), P \ {l}, U, c)
      /\ Label(q, l).block = "open" /\ Label(q, l).defs = q.defs \cup {l}
  BY <1>1, SoundAfterJump
<1> QED
  BY <1>1, <1>2 DEF FallTo, q

\* generate_label: labels that no line mentions yet.
Fresh(Q, c, d) ==
    /\ c \in Nat /\ d \in Nat /\ c <= d
    /\ \A l \in Q : Number(l) \in c + 1 .. d

LEMMA SoundFresh ==
    ASSUME NEW r, NEW P, NEW U, NEW c, Sound(r, P, U, c),
           NEW d, NEW Q, Fresh(Q, c, d)
    PROVE  /\ Sound(r, P \cup Q, U, d)
           /\ \A V \in SUBSET Q : Sound(r, P \cup Q, U \cup V, d)
           /\ \A l \in Q : l \notin P /\ l \notin U /\ l \notin r.defs
<1>1. /\ c \in Nat /\ d \in Nat /\ c <= d
      /\ \A l \in Q : Number(l) \in c + 1 .. d
      /\ \A l \in r.defs \cup r.refs \cup P \cup U : Number(l) \in 0 .. c
  BY DEF Sound, Fresh
<1>2. /\ \A n \in 0 .. c : n \in 0 .. d /\ n \notin c + 1 .. d
      /\ \A n \in c + 1 .. d : n \in 0 .. d /\ n # 0
  BY <1>1
<1>3. \A l \in Q : /\ l \notin P /\ l \notin U
                   /\ l \notin r.defs /\ l \notin r.refs
                   /\ Number(l) \in 0 .. d /\ Number(l) # 0
  BY <1>1, <1>2
<1>4. ASSUME NEW V \in SUBSET Q PROVE Sound(r, P \cup Q, U \cup V, d)
  <2>1. \A l \in r.defs \cup r.refs \cup (P \cup Q) \cup (U \cup V) :
            Number(l) \in 0 .. d
    BY <1>1, <1>2, <1>3
  <2>2. /\ \A l \in P \cup Q : Number(l) # 0
        /\ (P \cup Q) \cap r.defs = {}
        /\ (U \cup V) \cap r.refs = {}
        /\ \A l \in r.refs : l \in r.defs \/ l \in P \cup Q \/ Number(l) = 0
    BY <1>3 DEF Sound
  <2> QED
    BY <1>1, <2>1, <2>2 DEF Sound
<1>5. Sound(r, P \cup Q, U, d)
  <2>1. {} \in SUBSET Q /\ U \cup {} = U
    OBVIOUS
  <2> QED
    BY <1>4, <2>1
<1> QED
  BY <1>3, <1>4, <1>5

LEMMA FreshJoin ==
    ASSUME NEW r, NEW P, NEW U, NEW c, Sound(r, P, U, c),
           NEW d, NEW Q, Fresh(Q, c, d)
    PROVE  /\ Sound(r, P \cup Q, U, d)
           /\ \A l \in Q : l \notin P /\ l \notin U /\ l \notin r.defs
BY SoundFresh, Zenon

\* A label that nothing branches to need not be printed, and one that nothing
\* branched to may be branched to from now on.
LEMMA SoundDropped ==
    ASSUME NEW r, NEW P, NEW U, NEW c, Sound(r, P, U, c),
           NEW V \in SUBSET U, NEW W \in SUBSET U
    PROVE  Sound(r, P \ V, W, c)
BY DEF Sound

-------------------------------------------------------------------------------
\* What an expression and a condition do to it.

LEMMA FreshNumbers ==
    ASSUME NEW c \in Nat
    PROVE  /\ \A p : Number(Generated(p, c, 1)) = c + 1
           /\ \A p : Number(Generated(p, c, 2)) = c + 2
           /\ \A p : Number(Generated(p, c, 3)) = c + 3
           /\ \A p : Number(Generated(p, c, 4)) = c + 4
           /\ \A l \in {One(c), Other(c), Joined(c)} :
                 Number(l) \in c + 1 .. c + 3
           /\ One(c) # Other(c) /\ One(c) # Joined(c) /\ Other(c) # Joined(c)
<1>1. /\ \A p : Number(Generated(p, c, 1)) = c + 1
      /\ \A p : Number(Generated(p, c, 2)) = c + 2
      /\ \A p : Number(Generated(p, c, 3)) = c + 3
      /\ \A p : Number(Generated(p, c, 4)) = c + 4
  BY DEF Number, Generated
<1>2. /\ Number(One(c)) = c + 1
      /\ Number(Other(c)) = c + 2
      /\ Number(Joined(c)) = c + 3
  BY <1>1 DEF One, Other, Joined
<1> QED
  BY <1>1, <1>2

LEMMA SoundEvaluated ==
    ASSUME NEW r, NEW P, NEW U, NEW c, Sound(r, P, U, c), r.block = "open",
           NEW e \in Exprs
    PROVE  /\ Sound(Evaluated(r, e, c), P, U, c + LabelCount(e))
           /\ Evaluated(r, e, c).block = "open"
           /\ r.defs \subseteq Evaluated(r, e, c).defs
<1>0. c \in Nat /\ c + 0 = c
  BY DEF Sound
<1>1. CASE e = "plain"
  <2>1. Evaluated(r, e, c) = Instr(r) /\ LabelCount(e) = 0
    BY <1>1, EvaluatedText DEF LabelCount
  <2> QED
    BY <1>0, <2>1, SoundInstr
<1>2. CASE e # "plain"
  <2> DEFINE one == One(c)
             other == Other(c)
             joined == Joined(c)
             Q == {one, other, joined}
             d == c + 3
             r1 == Instr(r)
             r2 == Jump(r1, {one, other})
             r3 == Label(r2, one)
             r4 == Instr(r3)
             r5 == Jump(r4, {joined})
             r6 == Label(r5, other)
             r7 == Instr(r6)
             r8 == Jump(r7, {joined})
             r9 == Label(r8, joined)
  <2>1. /\ e = "branching" /\ LabelCount(e) = 3
        /\ Evaluated(r, e, c) = Instr(r9)
    <3>1. e = "branching"
      BY <1>2, ExprsAssumption DEF AllExprs
    <3> QED
      BY <3>1, EvaluatedText DEF LabelCount, Joins, Split, FallTo
  <2>2. /\ Sound(r, P \cup Q, U, d)
        /\ \A l \in Q : l \notin P /\ l \notin U /\ l \notin r.defs
        /\ one # other /\ one # joined /\ other # joined
        /\ one \in Q /\ other \in Q /\ joined \in Q
    <3>1. /\ Fresh(Q, c, d)
          /\ one # other /\ one # joined /\ other # joined
      BY <1>0, FreshNumbers DEF Fresh
    <3>2. one \in Q /\ other \in Q /\ joined \in Q
      OBVIOUS
    <3> HIDE DEF Q, d, one, other, joined
    <3>3. /\ Sound(r, P \cup Q, U, d)
          /\ \A l \in Q : l \notin P /\ l \notin U /\ l \notin r.defs
      BY <3>1, FreshJoin
    <3> QED
      BY <3>1, <3>2, <3>3, Zenon
  <2>3. /\ one \in P \cup Q
        /\ other \in (P \cup Q) \ {one}
        /\ joined \in ((P \cup Q) \ {one}) \ {other}
    <3> HIDE DEF one, other, joined
    <3> QED
      BY <2>2
  <2>4. (((P \cup Q) \ {one}) \ {other}) \ {joined} = P
    <3> HIDE DEF one, other, joined
    <3> QED
      BY <2>2
  <2> HIDE DEF one, other, joined, Q, d
  <2>5. Sound(r1, P \cup Q, U, d) /\ r1.block = "open" /\ r1.defs = r.defs
    BY <2>2, SoundInstr
  <2> HIDE DEF r1
  <2>6. Sound(r2, P \cup Q, U, d) /\ r2.block = "closed" /\ r2.defs = r.defs
    BY <2>2, <2>3, <2>5, SoundFork
  <2> HIDE DEF r2
  <2>7. /\ Sound(r3, (P \cup Q) \ {one}, U, d)
        /\ r3.block = "open" /\ r.defs \subseteq r3.defs
    <3>1. /\ Sound(r3, (P \cup Q) \ {one}, U, d)
          /\ r3.block = "open" /\ r3.defs = r2.defs \cup {one}
      BY <2>3, <2>6, SoundAfterJump, Zenon
    <3> HIDE DEF r3
    <3> QED
      BY <2>6, <3>1
  <2> HIDE DEF r3
  <2>8. /\ Sound(r4, (P \cup Q) \ {one}, U, d)
        /\ r4.block = "open" /\ r.defs \subseteq r4.defs
    BY <2>7, SoundInstr
  <2> HIDE DEF r4
  <2>9. /\ Sound(r5, (P \cup Q) \ {one}, U, d)
        /\ r5.block = "closed" /\ r.defs \subseteq r5.defs
    BY <2>2, <2>3, <2>8, SoundBranch
  <2> HIDE DEF r5
  <2>10. /\ Sound(r6, ((P \cup Q) \ {one}) \ {other}, U, d)
         /\ r6.block = "open" /\ r.defs \subseteq r6.defs
    BY <2>2, <2>3, <2>9, SoundAfterJump
  <2> HIDE DEF r6
  <2>11. /\ Sound(r7, ((P \cup Q) \ {one}) \ {other}, U, d)
         /\ r7.block = "open" /\ r.defs \subseteq r7.defs
    BY <2>10, SoundInstr
  <2> HIDE DEF r7
  <2>12. /\ Sound(r8, ((P \cup Q) \ {one}) \ {other}, U, d)
         /\ r8.block = "closed" /\ r.defs \subseteq r8.defs
    BY <2>2, <2>3, <2>11, SoundBranch
  <2> HIDE DEF r8
  <2>13. /\ Sound(r9, (((P \cup Q) \ {one}) \ {other}) \ {joined}, U, d)
         /\ r9.block = "open" /\ r.defs \subseteq r9.defs
    <3>1. /\ Sound(r9, (((P \cup Q) \ {one}) \ {other}) \ {joined}, U, d)
          /\ r9.block = "open" /\ r9.defs = r8.defs \cup {joined}
      BY <2>3, <2>12, SoundAfterJump
    <3> HIDE DEF r9
    <3> QED
      BY <2>12, <3>1
  <2> HIDE DEF r9
  <2>14. /\ Sound(Instr(r9), P, U, d)
         /\ Instr(r9).block = "open" /\ r.defs \subseteq Instr(r9).defs
    BY <2>4, <2>13, SoundInstr
  <2> QED
    BY <2>1, <2>14 DEF d
<1> QED
  BY <1>1, <1>2

LEMMA SoundEvaluatedIfAny ==
    ASSUME NEW r, NEW P, NEW U, NEW c, Sound(r, P, U, c), r.block = "open",
           NEW e \in Optional
    PROVE  /\ Sound(EvaluatedIfAny(r, e, c), P, U, c + LabelCount(e))
           /\ EvaluatedIfAny(r, e, c).block = "open"
           /\ r.defs \subseteq EvaluatedIfAny(r, e, c).defs
<1>1. CASE e = "none"
  <2>1. EvaluatedIfAny(r, e, c) = r /\ LabelCount(e) = 0
    BY <1>1 DEF EvaluatedIfAny, LabelCount
  <2>2. c + 0 = c
    BY DEF Sound
  <2> QED
    BY <2>1, <2>2
<1>2. CASE e # "none"
  BY <1>2, SoundEvaluated DEF EvaluatedIfAny, Optional
<1> QED
  BY <1>1, <1>2

LEMMA SoundChoice ==
    ASSUME NEW r, NEW P, NEW U, NEW c, Sound(r, P, U, c), r.block = "open",
           NEW e \in Exprs,
           NEW yes, yes \in r.defs \/ yes \in P, yes \notin U,
           NEW no, no \in r.defs \/ no \in P, no \notin U
    PROVE  LET q == Choice(r, e, c, yes, no)
           IN  /\ Sound(q, P, U, c + LabelCount(e))
               /\ q.block = "closed"
               /\ r.defs \subseteq q.defs
<1> DEFINE r1 == Evaluated(r, e, c)
           r2 == Instr(r1)
           d == c + LabelCount(e)
<1>1. Sound(r1, P, U, d) /\ r1.block = "open" /\ r.defs \subseteq r1.defs
  BY SoundEvaluated
<1> HIDE DEF r1, d
<1>2. Sound(r2, P, U, d) /\ r2.block = "open" /\ r.defs \subseteq r2.defs
  BY <1>1, SoundInstr
<1> HIDE DEF r2
<1>3. /\ Sound(Jump(r2, {yes, no}), P, U, d)
      /\ Jump(r2, {yes, no}).block = "closed"
      /\ r.defs \subseteq Jump(r2, {yes, no}).defs
  BY <1>2, SoundFork
<1> QED
  BY <1>3 DEF Choice, r1, r2, d


-------------------------------------------------------------------------------
\* The labels of the handlers on the stack.

LEMMA PendingOf ==
    ASSUME NEW f \in FrameType
    PROVE  /\ f.at \in {"function", "compound"} =>
                  Pending(f) = {} /\ Unused(f) = {} /\ Anchors(f) = {}
           /\ f.at = "then" /\ f.has_else =>
                  /\ Pending(f) = {IfElse(f.base), IfEnd(f.base)}
                  /\ Unused(f) = {IfEnd(f.base)} /\ Anchors(f) = {}
           /\ f.at = "then" /\ ~f.has_else =>
                  /\ Pending(f) = {IfEnd(f.base)}
                  /\ Unused(f) = {} /\ Anchors(f) = {}
           /\ f.at = "else" =>
                  /\ Pending(f) = {IfEnd(f.base)} /\ Anchors(f) = {}
                  /\ Unused(f) = IF f.then_terminates THEN {IfEnd(f.base)}
                                 ELSE {}
           /\ f.at = "while" =>
                  /\ Pending(f) = {WhileEnd(f.base)} /\ Unused(f) = {}
                  /\ Anchors(f) = {WhileCond(f.base)}
           /\ f.at = "for" =>
                  /\ Pending(f) = {ForUpdate(f.base), ForEnd(f.base)}
                  /\ Unused(f) = {} /\ Anchors(f) = {ForCond(f.base)}
           /\ f.at = "do" =>
                  /\ Pending(f) = {DoCond(f.base), DoEnd(f.base)}
                  /\ Unused(f) = {} /\ Anchors(f) = {DoBody(f.base)}
           /\ f.at = "switch" =>
                  /\ Pending(f) = {SwitchEnd(f.base)} /\ Unused(f) = {}
                  /\ Anchors(f) = {}
<1>1. f.at \in {"function", "compound"} =>
          Pending(f) = {} /\ Unused(f) = {} /\ Anchors(f) = {}
  BY DEF Pending, Unused, Anchors
<1>2. f.at = "then" =>
          /\ Pending(f) = IF f.has_else THEN {IfElse(f.base), IfEnd(f.base)}
                          ELSE {IfEnd(f.base)}
          /\ Unused(f) = IF f.has_else THEN {IfEnd(f.base)} ELSE {}
          /\ Anchors(f) = {}
  BY DEF Pending, Unused, Anchors
<1>3. f.at = "else" =>
          /\ Pending(f) = {IfEnd(f.base)} /\ Anchors(f) = {}
          /\ Unused(f) = IF f.then_terminates THEN {IfEnd(f.base)} ELSE {}
  BY DEF Pending, Unused, Anchors
<1>4. f.at = "while" =>
          /\ Pending(f) = {WhileEnd(f.base)} /\ Unused(f) = {}
          /\ Anchors(f) = {WhileCond(f.base)}
  BY DEF Pending, Unused, Anchors
<1>5. f.at = "for" =>
          /\ Pending(f) = {ForUpdate(f.base), ForEnd(f.base)}
          /\ Unused(f) = {} /\ Anchors(f) = {ForCond(f.base)}
  BY DEF Pending, Unused, Anchors
<1>6. f.at = "do" =>
          /\ Pending(f) = {DoCond(f.base), DoEnd(f.base)}
          /\ Unused(f) = {} /\ Anchors(f) = {DoBody(f.base)}
  BY DEF Pending, Unused, Anchors
<1>7. f.at = "switch" =>
          /\ Pending(f) = {SwitchEnd(f.base)} /\ Unused(f) = {}
          /\ Anchors(f) = {}
  BY DEF Pending, Unused, Anchors
<1> QED
  BY <1>1, <1>2, <1>3, <1>4, <1>5, <1>6, <1>7

\* Only the end of an if may go unused.
LEMMA UnusedOf ==
    ASSUME NEW f \in FrameType
    PROVE  /\ Unused(f) \subseteq Pending(f)
           /\ Unused(f) \subseteq {IfEnd(f.base)}
<1>1. CASE f.at \in {"then", "else"}
  <2>1. IfEnd(f.base) \in Pending(f)
    BY <1>1, PendingOf
  <2>2. Unused(f) = {} \/ Unused(f) = {IfEnd(f.base)}
    BY DEF Unused
  <2> QED
    BY <2>1, <2>2
<1>2. CASE f.at \notin {"then", "else"}
  BY <1>2 DEF Unused
<1> QED
  BY <1>1, <1>2

LEMMA UnusedInStack ==
    ASSUME NEW fs \in Seq(FrameType)
    PROVE  /\ UnusedIn(fs) \subseteq PendingIn(fs)
           /\ \A l \in UnusedIn(fs) : l[1] = "if_end"
<1> SUFFICES ASSUME NEW l \in UnusedIn(fs)
             PROVE  l \in PendingIn(fs) /\ l[1] = "if_end"
  OBVIOUS
<1>1. PICK i \in DOMAIN fs : l \in Unused(fs[i])
  BY DEF UnusedIn
<1>2. fs[i] \in FrameType
  OBVIOUS
<1>3. l \in Pending(fs[i]) /\ l = IfEnd(fs[i].base)
  BY <1>1, <1>2, UnusedOf
<1>4. l[1] = "if_end"
  BY <1>3 DEF IfEnd, Generated
<1> QED
  BY <1>3, <1>4 DEF PendingIn

LEMMA StackLabelsAppend ==
    ASSUME NEW fs \in Seq(FrameType), NEW f \in FrameType
    PROVE  /\ PendingIn(Append(fs, f)) = PendingIn(fs) \cup Pending(f)
           /\ UnusedIn(Append(fs, f)) = UnusedIn(fs) \cup Unused(f)
<1> DEFINE gs == Append(fs, f)
           n == Len(fs)
<1>1. /\ n \in Nat /\ DOMAIN fs = 1 .. n /\ DOMAIN gs = 1 .. n + 1
      /\ \A i \in 1 .. n : gs[i] = fs[i]
      /\ gs[n + 1] = f
  BY AppendProperties, LenProperties
<1> HIDE DEF gs, n
<1>2. /\ \A i \in 1 .. n + 1 : i = n + 1 \/ i \in 1 .. n
      /\ \A i \in 1 .. n : i \in 1 .. n + 1
      /\ n + 1 \in 1 .. n + 1
  BY <1>1
<1>3. PendingIn(gs) = PendingIn(fs) \cup Pending(f)
  BY <1>1, <1>2 DEF PendingIn
<1>4. UnusedIn(gs) = UnusedIn(fs) \cup Unused(f)
  BY <1>1, <1>2 DEF UnusedIn
<1> QED
  BY <1>3, <1>4 DEF gs

\* A handler is added whose labels no other one will print.
LEMMA StackSoundAppend ==
    ASSUME NEW fs \in Seq(FrameType), NEW f \in FrameType, NEW r, NEW c,
           Sound(r, PendingIn(fs) \cup Pending(f), UnusedIn(fs) \cup Unused(f), c),
           \A i, j \in DOMAIN fs :
               i # j => Pending(fs[i]) \cap Pending(fs[j]) = {},
           \A i \in DOMAIN fs : FrameSound(fs[i], r.defs),
           PendingIn(fs) \cap Pending(f) = {}, FrameSound(f, r.defs)
    PROVE  StackSound(Append(fs, f), r, c)
<1> DEFINE gs == Append(fs, f)
           n == Len(fs)
<1>1. /\ n \in Nat /\ DOMAIN fs = 1 .. n /\ DOMAIN gs = 1 .. n + 1
      /\ \A i \in 1 .. n : gs[i] = fs[i]
      /\ gs[n + 1] = f
  BY AppendProperties, LenProperties
<1>2. Sound(r, PendingIn(gs), UnusedIn(gs), c)
  BY StackLabelsAppend
<1> HIDE DEF gs, n
<1>3. /\ \A i \in 1 .. n + 1 : i = n + 1 \/ i \in 1 .. n
  BY <1>1
<1>4. \A i \in DOMAIN gs : FrameSound(gs[i], r.defs)
  BY <1>1, <1>3
<1>5. \A i \in 1 .. n : Pending(fs[i]) \cap Pending(f) = {}
  BY <1>1 DEF PendingIn
<1>6. \A i, j \in DOMAIN gs : i # j => Pending(gs[i]) \cap Pending(gs[j]) = {}
  BY <1>1, <1>3, <1>5
<1>7. StackSound(gs, r, c)
  BY <1>2, <1>4, <1>6 DEF StackSound
<1> QED
  BY <1>7 DEF gs

\* What the stack below the top says.
LEMMA StackSoundTop ==
    ASSUME ShapeInv, frames # <<>>, NEW r, NEW c, StackSound(frames, r, c)
    PROVE  /\ Top \in FrameType /\ Popped \in Seq(FrameType)
           /\ PendingIn(frames) = PendingIn(Popped) \cup Pending(Top)
           /\ UnusedIn(frames) = UnusedIn(Popped) \cup Unused(Top)
           /\ PendingIn(Popped) \cap Pending(Top) = {}
           /\ FrameSound(Top, r.defs)
           /\ \A i, j \in DOMAIN Popped :
                 i # j => Pending(Popped[i]) \cap Pending(Popped[j]) = {}
           /\ \A i \in DOMAIN Popped : FrameSound(Popped[i], r.defs)
<1> DEFINE n == Len(frames)
<1>1. /\ n \in Nat /\ n \in 1 .. n /\ DOMAIN frames = 1 .. n
      /\ Popped \in Seq(FrameType)
      /\ Len(Popped) = n - 1
      /\ \A i \in 1 .. n - 1 : Popped[i] = frames[i]
      /\ Top \in FrameType /\ Top = frames[n]
  BY StackedTop, StackedFrames, StackedPop
     DEF ShapeInv, ContextTyped, Popped, Stacked, Top
<1>2. DOMAIN Popped = 1 .. n - 1
  BY <1>1, LenProperties
<1> HIDE DEF n
<1>3. /\ \A i \in 1 .. n - 1 : i \in 1 .. n /\ i # n
      /\ \A i \in 1 .. n : i = n \/ i \in 1 .. n - 1
  BY <1>1
<1> HIDE DEF Top, Popped
<1>4. PendingIn(frames) = PendingIn(Popped) \cup Pending(Top)
  BY <1>1, <1>2, <1>3 DEF PendingIn
<1>5. UnusedIn(frames) = UnusedIn(Popped) \cup Unused(Top)
  BY <1>1, <1>2, <1>3 DEF UnusedIn
<1>6. /\ \A i, j \in DOMAIN frames :
             i # j => Pending(frames[i]) \cap Pending(frames[j]) = {}
      /\ \A i \in DOMAIN frames : FrameSound(frames[i], r.defs)
  BY DEF StackSound
<1>7. \A i \in 1 .. n - 1 : Pending(Popped[i]) \cap Pending(Top) = {}
  BY <1>1, <1>3, <1>6
<1>8. PendingIn(Popped) \cap Pending(Top) = {}
  BY <1>2, <1>7 DEF PendingIn
<1>9. /\ \A i, j \in DOMAIN Popped :
             i # j => Pending(Popped[i]) \cap Pending(Popped[j]) = {}
      /\ \A i \in DOMAIN Popped : FrameSound(Popped[i], r.defs)
      /\ FrameSound(Top, r.defs)
  BY <1>1, <1>2, <1>3, <1>6
<1> QED
  BY <1>1, <1>4, <1>5, <1>8, <1>9

\* Nothing is entered or left: the labels to be printed stay the same.
LEMMA TextStays ==
    ASSUME ShapeInv, TextInv, frames # <<>>, UNCHANGED frames,
           Sound(ir', PendingIn(frames), UnusedIn(frames), label_counter'),
           ir.defs \subseteq ir'.defs, BlockFollowsFlag'
    PROVE  TextInv'
<1>1. StackSound(frames, ir, label_counter)
  BY DEF TextInv
<1>2. \A i \in DOMAIN frames : FrameSound(frames[i], ir'.defs)
  BY <1>1 DEF StackSound, FrameSound
<1>3. StackSound(frames, ir', label_counter')
  BY <1>1, <1>2 DEF StackSound
<1> QED
  BY <1>3 DEF TextInv

\* A handler is entered that waits for labels of its own.
LEMMA TextEnters ==
    ASSUME ShapeInv, TextInv, frames # <<>>, NEW f \in FrameType,
           frames' = Append(frames, f),
           Sound(ir', PendingIn(frames) \cup Pending(f),
                 UnusedIn(frames) \cup Unused(f), label_counter'),
           PendingIn(frames) \cap Pending(f) = {}, FrameSound(f, ir'.defs),
           ir.defs \subseteq ir'.defs, BlockFollowsFlag'
    PROVE  TextInv'
<1>1. StackSound(frames, ir, label_counter) /\ frames \in Seq(FrameType)
  BY StackedFrames DEF TextInv, ShapeInv
<1>2. \A i \in DOMAIN frames : FrameSound(frames[i], ir'.defs)
  BY <1>1 DEF StackSound, FrameSound
<1>3. \A i, j \in DOMAIN frames :
          i # j => Pending(frames[i]) \cap Pending(frames[j]) = {}
  BY <1>1 DEF StackSound
<1>4. StackSound(Append(frames, f), ir', label_counter')
  BY <1>1, <1>2, <1>3, StackSoundAppend
<1>5. Append(frames, f) # <<>>
  BY <1>1, AppendProperties
<1> QED
  BY <1>4, <1>5 DEF TextInv

\* A handler ends; another one waits for it.
LEMMA TextLeaves ==
    ASSUME ShapeInv, TextInv, frames # <<>>, frames' = Popped,
           Popped # <<>>,
           Sound(ir', PendingIn(Popped), UnusedIn(Popped), label_counter'),
           ir.defs \subseteq ir'.defs, BlockFollowsFlag'
    PROVE  TextInv'
<1>1. StackSound(frames, ir, label_counter)
  BY DEF TextInv
<1>2. /\ \A i, j \in DOMAIN Popped :
             i # j => Pending(Popped[i]) \cap Pending(Popped[j]) = {}
      /\ \A i \in DOMAIN Popped : FrameSound(Popped[i], ir.defs)
  BY <1>1, StackSoundTop
<1> HIDE DEF Popped
<1>3. \A i \in DOMAIN Popped : FrameSound(Popped[i], ir'.defs)
  BY <1>2 DEF FrameSound
<1>4. StackSound(Popped, ir', label_counter')
  BY <1>2, <1>3 DEF StackSound
<1> QED
  BY <1>4 DEF TextInv

\* What a text says of the text so far, and of the handler on top.
LEMMA TextTop ==
    ASSUME ShapeInv, TextInv, frames # <<>>
    PROVE  /\ Sound(ir, PendingIn(frames), UnusedIn(frames), label_counter)
           /\ BlockFollowsFlag
           /\ Top \in FrameType
           /\ PendingIn(frames) = PendingIn(Popped) \cup Pending(Top)
           /\ UnusedIn(frames) = UnusedIn(Popped) \cup Unused(Top)
           /\ PendingIn(Popped) \cap Pending(Top) = {}
           /\ UnusedIn(Popped) \subseteq PendingIn(Popped)
           /\ FrameSound(Top, ir.defs)
           /\ Sound(ir, PendingIn(frames), UnusedIn(Popped), label_counter)
<1>1. StackSound(frames, ir, label_counter) /\ BlockFollowsFlag
  BY DEF TextInv
<1>2. Sound(ir, PendingIn(frames), UnusedIn(frames), label_counter)
  BY <1>1 DEF StackSound
<1>3. /\ Top \in FrameType /\ Popped \in Seq(FrameType)
      /\ PendingIn(frames) = PendingIn(Popped) \cup Pending(Top)
      /\ UnusedIn(frames) = UnusedIn(Popped) \cup Unused(Top)
      /\ PendingIn(Popped) \cap Pending(Top) = {}
      /\ FrameSound(Top, ir.defs)
  BY <1>1, StackSoundTop
<1>4. UnusedIn(Popped) \subseteq PendingIn(Popped)
  BY <1>3, UnusedInStack
<1>5. UnusedIn(Popped) \subseteq UnusedIn(frames)
  BY <1>3
<1>6. Sound(ir, PendingIn(frames), UnusedIn(Popped), label_counter)
  BY <1>2, <1>5 DEF Sound
<1> QED
  BY <1>1, <1>2, <1>3, <1>4, <1>6

\* The br at the end of a body: printed where the body did not end in a jump.
LEMMA SoundContinued ==
    ASSUME NEW P, NEW U, NEW c, Sound(ir, P, U, c), BlockFollowsFlag,
           NEW l, l \in ir.defs \/ l \in P, in_return_block \/ l \notin U
    PROVE  /\ Sound(Continued(ir, l), P, U, c)
           /\ Structured => Continued(ir, l).block = "closed"
           /\ Continued(ir, l).defs = ir.defs
<1>1. CASE in_return_block
  BY <1>1 DEF Continued, BlockFollowsFlag
<1>2. CASE ~in_return_block
  <2>1. ir.block = "open" /\ l \notin U /\ Continued(ir, l) = Jump(ir, {l})
    BY <1>2 DEF Continued, BlockFollowsFlag
  <2> QED
    BY <2>1, SoundBranch
<1> QED
  BY <1>1, <1>2

\* After a branch back to the loop, or on to the end of the statement.
LEMMA SoundClosing ==
    ASSUME NEW r, NEW P, NEW U, NEW c, Sound(r, P, U, c),
           Structured => r.block = "closed", NEW l \in P
    PROVE  /\ Sound(Label(r, l), P \ {l}, U, c)
           /\ Label(r, l).block = "open" /\ Label(r, l).defs = r.defs \cup {l}
<1>1. l \in P \/ (~Structured /\ Number(l) = 0)
  OBVIOUS
<1> QED
  BY <1>1, SoundLabel

-------------------------------------------------------------------------------
\* The targets of break and continue are labels that will be printed or were.

LEMMA TargetPrefixes ==
    ASSUME NEW base
    PROVE  /\ \A l \in {WhileEnd(base), ForEnd(base), DoEnd(base),
                        SwitchEnd(base), WhileCond(base), ForUpdate(base),
                        DoCond(base)} : l[1] # "if_end"
BY DEF WhileEnd, ForEnd, DoEnd, SwitchEnd, WhileCond, ForUpdate, DoCond,
   Generated

LEMMA BreakIsPending ==
    ASSUME ShapeInv, TargetInv, TextInv, frames # <<>>,
           current_break_label # NoLabel
    PROVE  /\ current_break_label \in PendingIn(frames)
           /\ current_break_label \notin UnusedIn(frames)
<1>1. frames \in Seq(FrameType)
  BY StackedFrames DEF ShapeInv
<1>2. PICK i \in 1 .. Len(frames) :
          /\ frames[i].at \in Breakable
          /\ current_break_label = BreakTarget(frames[i])
  BY DEF TargetInv, TargetsOf, IsBreakAt
<1>3. i \in DOMAIN frames /\ frames[i] \in FrameType
  BY <1>1, <1>2
<1> DEFINE f == frames[i]
<1> HIDE DEF f
<1>4. f \in FrameType /\ f.at \in Breakable
  BY <1>2, <1>3 DEF f
<1>5. BreakTarget(f) \in Pending(f) /\ BreakTarget(f)[1] # "if_end"
  <2>1. CASE f.at = "while"
    BY <1>4, <2>1, PendingOf, TargetPrefixes DEF BreakTarget
  <2>2. CASE f.at = "for"
    BY <1>4, <2>2, PendingOf, TargetPrefixes DEF BreakTarget
  <2>3. CASE f.at = "do"
    BY <1>4, <2>3, PendingOf, TargetPrefixes DEF BreakTarget
  <2>4. CASE f.at = "switch"
    BY <1>4, <2>4, PendingOf, TargetPrefixes DEF BreakTarget
  <2> QED
    BY <1>4, <2>1, <2>2, <2>3, <2>4 DEF Breakable, Loops
<1>6. current_break_label \in PendingIn(frames)
  BY <1>2, <1>3, <1>5 DEF PendingIn, f
<1>7. current_break_label \notin UnusedIn(frames)
  BY <1>1, <1>2, <1>5, UnusedInStack DEF f
<1> QED
  BY <1>6, <1>7

LEMMA ContinueIsPrinted ==
    ASSUME ShapeInv, TargetInv, TextInv, frames # <<>>,
           current_continue_label # NoLabel
    PROVE  /\ \/ current_continue_label \in ir.defs
              \/ current_continue_label \in PendingIn(frames)
           /\ current_continue_label \notin UnusedIn(frames)
<1>1. frames \in Seq(FrameType) /\ StackSound(frames, ir, label_counter)
  BY StackedFrames DEF ShapeInv, TextInv
<1>2. PICK i \in 1 .. Len(frames) :
          /\ frames[i].at \in Loops
          /\ current_continue_label = ContinueTarget(frames[i])
  BY DEF TargetInv, TargetsOf, IsContinueAt
<1>3. /\ i \in DOMAIN frames /\ frames[i] \in FrameType
      /\ FrameSound(frames[i], ir.defs)
  BY <1>1, <1>2 DEF StackSound
<1> DEFINE f == frames[i]
<1> HIDE DEF f
<1>4. f \in FrameType /\ f.at \in Loops /\ Anchors(f) \subseteq ir.defs
  BY <1>2, <1>3 DEF f, FrameSound
<1>5. /\ ContinueTarget(f) \in ir.defs \/ ContinueTarget(f) \in Pending(f)
      /\ ContinueTarget(f)[1] # "if_end"
  <2>1. CASE f.at = "while"
    BY <1>4, <2>1, PendingOf, TargetPrefixes DEF ContinueTarget
  <2>2. CASE f.at = "for"
    BY <1>4, <2>2, PendingOf, TargetPrefixes DEF ContinueTarget
  <2>3. CASE f.at = "do"
    BY <1>4, <2>3, PendingOf, TargetPrefixes DEF ContinueTarget
  <2> QED
    BY <1>4, <2>1, <2>2, <2>3 DEF Loops
<1>6. \/ current_continue_label \in ir.defs
      \/ current_continue_label \in PendingIn(frames)
  BY <1>2, <1>3, <1>5 DEF PendingIn, f
<1>7. current_continue_label \notin UnusedIn(frames)
  BY <1>1, <1>2, <1>5, UnusedInStack DEF f
<1> QED
  BY <1>6, <1>7

-------------------------------------------------------------------------------
\* What each kind of statement does to the text.

LEMMA JumpsText ==
    ASSUME ShapeInv, TargetInv, TextInv, Jumps
    PROVE  TextInv'
<1> DEFINE P == PendingIn(frames)
           U == UnusedIn(frames)
           c == label_counter
<1>1. /\ frames # <<>> /\ UNCHANGED frames /\ ~in_return_block
      /\ ir.block = "open"
      /\ Sound(ir, P, U, c) /\ BlockFollowsFlag
      /\ U \subseteq P /\ \A l \in P : Number(l) # 0
  <2>1. /\ frames # <<>> /\ UNCHANGED frames /\ ~in_return_block
    BY InsideFunction DEF Jumps, Break, Continue, Goto, Return_, Visit,
       JumpsTo, Return
  <2>2. Sound(ir, P, U, c) /\ BlockFollowsFlag /\ frames \in Seq(FrameType)
    BY <2>1, TextTop, StackedFrames DEF ShapeInv
  <2> QED
    BY <2>1, <2>2, UnusedInStack DEF Sound, BlockFollowsFlag
<1> HIDE DEF P, U
<1>2. ASSUME Sound(ir', P, U, label_counter'), ir.defs \subseteq ir'.defs,
             BlockFollowsFlag'
      PROVE  TextInv'
  BY <1>1, <1>2, TextStays DEF P, U
<1>3. ASSUME NEW l, JumpsTo(l),
             \/ l = NoLabel
             \/ /\ \/ l \in ir.defs \/ l \in P
                   \/ ~Structured /\ Number(l) = 0
                /\ l \notin U
      PROVE  TextInv'
  <2>1. UNCHANGED label_counter
    BY <1>3 DEF JumpsTo
  <2>2. CASE l = NoLabel
    <3>1. UNCHANGED <<ir, in_return_block>>
      BY <1>3, <2>2 DEF JumpsTo
    <3> QED
      BY <1>1, <1>2, <2>1, <3>1 DEF BlockFollowsFlag
  <2>3. CASE l # NoLabel
    <3> DEFINE T == {l}
    <3>1. ir' = Jump(ir, T) /\ in_return_block' = TRUE
      BY <1>3, <2>3 DEF JumpsTo
    <3>2. \A k \in T : /\ \/ k \in ir.defs \/ k \in P
                          \/ ~Structured /\ Number(k) = 0
                       /\ k \notin U
      BY <1>3, <2>3
    <3> HIDE DEF T
    <3>3. /\ Sound(ir', P, U, c) /\ ir'.block = "closed"
          /\ ir'.defs = ir.defs
      BY <1>1, <3>1, <3>2, SoundJump
    <3> QED
      BY <1>2, <2>1, <3>1, <3>3 DEF BlockFollowsFlag
  <2> QED
    BY <2>2, <2>3
<1>4. CASE Break
  BY <1>1, <1>3, <1>4, BreakIsPending DEF Break, P, U
<1>5. CASE Continue
  BY <1>1, <1>3, <1>5, ContinueIsPrinted DEF Continue, P, U
<1>6. ASSUME NEW l \in LabelName, Goto(l) PROVE TextInv'
  <2>1. ~Structured /\ JumpsTo(UserLabel(l))
    BY <1>6 DEF Goto, Visit, Structured
  <2>2. Number(UserLabel(l)) = 0
    BY DEF Number, UserLabel
  <2>3. UserLabel(l) \notin U
    BY <1>1, <2>2
  <2> QED
    BY <1>3, <2>1, <2>2, <2>3
<1>7. ASSUME NEW e \in Exprs, Return_(e) PROVE TextInv'
  <2> DEFINE r == Evaluated(ir, e, c)
             T == {}
  <2>1. /\ ir' = Jump(r, T) /\ in_return_block' = TRUE
        /\ label_counter' = c + LabelCount(e)
    BY <1>7 DEF Return_
  <2>2. /\ Sound(r, P, U, label_counter') /\ r.block = "open"
        /\ ir.defs \subseteq r.defs
    BY <1>1, <2>1, SoundEvaluated
  <2>3. \A k \in T : /\ \/ k \in r.defs \/ k \in P
                        \/ ~Structured /\ Number(k) = 0
                     /\ k \notin U
    OBVIOUS
  <2> HIDE DEF r, T
  <2>4. /\ Sound(ir', P, U, label_counter') /\ ir'.block = "closed"
        /\ ir'.defs = r.defs
    BY <2>1, <2>2, <2>3, SoundJump
  <2> QED
    BY <1>2, <2>1, <2>2, <2>4 DEF BlockFollowsFlag
<1> QED
  BY <1>4, <1>5, <1>6, <1>7 DEF Jumps

LEMMA SimpleText ==
    ASSUME ShapeInv, TextInv, Simple
    PROVE  TextInv'
<1> DEFINE P == PendingIn(frames)
           U == UnusedIn(frames)
           c == label_counter
<1>1. /\ frames # <<>> /\ UNCHANGED <<frames, in_return_block>>
      /\ Sound(ir, P, U, c) /\ BlockFollowsFlag
  <2>1. frames # <<>> /\ UNCHANGED <<frames, in_return_block>>
    BY InsideFunction DEF Simple, Declaration, Expression, Empty,
       NullStatement, LabelStatement, Case, Return
  <2> QED
    BY <2>1, TextTop
<1> HIDE DEF P, U
<1>2. ASSUME Sound(ir', P, U, label_counter'), ir.defs \subseteq ir'.defs,
             (UNCHANGED ir) \/ (~in_return_block /\ ir'.block = "open")
      PROVE  TextInv'
  <2>1. BlockFollowsFlag'
    BY <1>1, <1>2 DEF BlockFollowsFlag
  <2> QED
    BY <1>1, <1>2, <2>1, TextStays DEF P, U
<1>3. ASSUME UNCHANGED <<ir, label_counter>> PROVE TextInv'
  BY <1>1, <1>2, <1>3
<1>4. ASSUME NEW n \in VarName, NEW e \in Exprs, Declaration(n, e)
      PROVE  TextInv'
  <2>1. CASE n \in DOMAIN Current(scopes)
    BY <1>3, <1>4, <2>1 DEF Declaration
  <2>2. CASE n \notin DOMAIN Current(scopes)
    <3> DEFINE r == Instr(ir)
    <3>1. /\ ir' = Evaluated(r, e, c)
          /\ label_counter' = c + LabelCount(e) /\ ~in_return_block
      BY <1>4, <2>2 DEF Declaration, Visit
    <3>2. Sound(r, P, U, c) /\ r.block = "open" /\ r.defs = ir.defs
      BY <1>1, <3>1, SoundInstr DEF BlockFollowsFlag
    <3> HIDE DEF r
    <3> QED
      BY <1>2, <3>1, <3>2, SoundEvaluated
  <2> QED
    BY <2>1, <2>2
<1>5. ASSUME NEW e \in Exprs, Expression(e) PROVE TextInv'
  <2>1. /\ ir' = Evaluated(ir, e, c)
        /\ label_counter' = c + LabelCount(e) /\ ~in_return_block
    BY <1>5 DEF Expression, Visit
  <2>2. ir.block = "open"
    BY <1>1, <2>1 DEF BlockFollowsFlag
  <2> QED
    BY <1>1, <1>2, <2>1, <2>2, SoundEvaluated
<1>6. CASE Empty \/ NullStatement \/ Case
  BY <1>3, <1>6 DEF Empty, NullStatement, Case
<1>7. ASSUME NEW l \in LabelName, LabelStatement(l) PROVE TextInv'
  <2> DEFINE u == UserLabel(l)
  <2>1. /\ ~Structured /\ ~in_return_block /\ UNCHANGED label_counter
        /\ ir' = Label(ir, u)
    BY <1>7 DEF LabelStatement, Visit, Structured
  <2>2. Number(u) = 0
    BY DEF Number, UserLabel
  <2> HIDE DEF u
  <2>3. P \ {u} = P
    BY <1>1, <2>2 DEF Sound
  <2>4. u \in P \/ (~Structured /\ Number(u) = 0)
    BY <2>1, <2>2
  <2>5. /\ Sound(ir', P \ {u}, U, c) /\ ir'.block = "open"
        /\ ir'.defs = ir.defs \cup {u}
    BY <1>1, <2>1, <2>4, SoundLabel
  <2> QED
    BY <1>2, <2>1, <2>3, <2>5
<1> QED
  BY <1>4, <1>5, <1>6, <1>7 DEF Simple

\* The labels a statement makes for itself are new, and told apart.
LEMMA FreshLabels ==
    ASSUME NEW c \in Nat
    PROVE  /\ Fresh({IfThen(c), IfElse(c), IfEnd(c)}, c, c + 3)
           /\ Fresh({IfThen(c), IfEnd(c)}, c, c + 3)
           /\ IfThen(c) # IfElse(c) /\ IfThen(c) # IfEnd(c)
           /\ IfElse(c) # IfEnd(c)
           /\ Fresh({WhileCond(c), WhileBody(c), WhileEnd(c)}, c, c + 3)
           /\ WhileCond(c) # WhileBody(c) /\ WhileCond(c) # WhileEnd(c)
           /\ WhileBody(c) # WhileEnd(c)
           /\ Fresh({ForCond(c), ForBody(c), ForUpdate(c), ForEnd(c)}, c, c + 4)
           /\ ForCond(c) # ForBody(c) /\ ForCond(c) # ForUpdate(c)
           /\ ForCond(c) # ForEnd(c) /\ ForBody(c) # ForUpdate(c)
           /\ ForBody(c) # ForEnd(c) /\ ForUpdate(c) # ForEnd(c)
           /\ Fresh({DoBody(c), DoCond(c), DoEnd(c)}, c, c + 3)
           /\ DoBody(c) # DoCond(c) /\ DoBody(c) # DoEnd(c)
           /\ DoCond(c) # DoEnd(c)
           /\ Fresh({SwitchEnd(c), SwitchDefault(c)}, c, c + 2)
           /\ SwitchEnd(c) # SwitchDefault(c)
<1>1. /\ c + 2 \in Nat /\ c <= c + 2 /\ c + 3 \in Nat /\ c <= c + 3
      /\ c + 4 \in Nat /\ c <= c + 4
      /\ c + 1 \in c + 1 .. c + 2 /\ c + 2 \in c + 1 .. c + 2
      /\ c + 1 \in c + 1 .. c + 3 /\ c + 2 \in c + 1 .. c + 3
      /\ c + 3 \in c + 1 .. c + 3
      /\ c + 1 \in c + 1 .. c + 4 /\ c + 2 \in c + 1 .. c + 4
      /\ c + 3 \in c + 1 .. c + 4 /\ c + 4 \in c + 1 .. c + 4
      /\ c + 1 # c + 2 /\ c + 1 # c + 3 /\ c + 1 # c + 4
      /\ c + 2 # c + 3 /\ c + 2 # c + 4 /\ c + 3 # c + 4
  OBVIOUS
<1>2. /\ Number(IfThen(c)) = c + 1 /\ Number(IfElse(c)) = c + 2
      /\ Number(IfEnd(c)) = c + 3
  BY FreshNumbers DEF IfThen, IfElse, IfEnd
<1>3. /\ Number(WhileCond(c)) = c + 1 /\ Number(WhileBody(c)) = c + 2
      /\ Number(WhileEnd(c)) = c + 3
  BY FreshNumbers DEF WhileCond, WhileBody, WhileEnd
<1>4. /\ Number(ForCond(c)) = c + 1 /\ Number(ForBody(c)) = c + 2
      /\ Number(ForUpdate(c)) = c + 3 /\ Number(ForEnd(c)) = c + 4
  BY FreshNumbers DEF ForCond, ForBody, ForUpdate, ForEnd
<1>5. /\ Number(DoBody(c)) = c + 1 /\ Number(DoCond(c)) = c + 2
      /\ Number(DoEnd(c)) = c + 3
  BY FreshNumbers DEF DoBody, DoCond, DoEnd
<1>6. /\ Number(SwitchEnd(c)) = c + 1 /\ Number(SwitchDefault(c)) = c + 2
  BY FreshNumbers DEF SwitchEnd, SwitchDefault
<1>7. /\ Fresh({IfThen(c), IfElse(c), IfEnd(c)}, c, c + 3)
      /\ Fresh({IfThen(c), IfEnd(c)}, c, c + 3)
      /\ IfThen(c) # IfElse(c) /\ IfThen(c) # IfEnd(c)
      /\ IfElse(c) # IfEnd(c)
  BY <1>1, <1>2 DEF Fresh
<1>8. /\ Fresh({WhileCond(c), WhileBody(c), WhileEnd(c)}, c, c + 3)
      /\ WhileCond(c) # WhileBody(c) /\ WhileCond(c) # WhileEnd(c)
      /\ WhileBody(c) # WhileEnd(c)
  BY <1>1, <1>3 DEF Fresh
<1>9. /\ Fresh({ForCond(c), ForBody(c), ForUpdate(c), ForEnd(c)}, c, c + 4)
      /\ ForCond(c) # ForBody(c) /\ ForCond(c) # ForUpdate(c)
      /\ ForCond(c) # ForEnd(c) /\ ForBody(c) # ForUpdate(c)
      /\ ForBody(c) # ForEnd(c) /\ ForUpdate(c) # ForEnd(c)
  BY <1>1, <1>4 DEF Fresh
<1>10. /\ Fresh({DoBody(c), DoCond(c), DoEnd(c)}, c, c + 3)
       /\ DoBody(c) # DoCond(c) /\ DoBody(c) # DoEnd(c)
       /\ DoCond(c) # DoEnd(c)
  BY <1>1, <1>5 DEF Fresh
<1>11. /\ Fresh({SwitchEnd(c), SwitchDefault(c)}, c, c + 2)
       /\ SwitchEnd(c) # SwitchDefault(c)
  BY <1>1, <1>6 DEF Fresh
<1> QED
  BY <1>7, <1>8, <1>9, <1>10, <1>11

\* The handler of a new statement, and the labels it waits for.
LEMMA FrameLabels ==
    ASSUME ContextTyped, NEW at \in FrameKinds, NEW base \in Nat
    PROVE  LET f == Frame(at, base)
           IN  /\ f \in FrameType /\ f.at = at /\ f.base = base
               /\ ~f.has_else /\ ~f.then_terminates
               /\ f.prev_return_state = in_return_block
               /\ at \notin {"then", "else"} => Unused(f) = {}
<1> DEFINE f == Frame(at, base)
<1>1. f \in FrameType
  BY FrameTyped
<1>2. /\ f.at = at /\ f.base = base
      /\ ~f.has_else /\ ~f.then_terminates
      /\ f.prev_return_state = in_return_block
  BY DEF Frame
<1> HIDE DEF f
<1>3. at \notin {"then", "else"} => Unused(f) = {}
  BY <1>2 DEF Unused
<1> QED
  BY <1>1, <1>2, <1>3 DEF f

\* The text before the body of an if: the labels still to be printed, and the
\* one that is not branched to before the end of the first branch.
ToPrint(has_else, base) ==
    IF has_else THEN {IfElse(base), IfEnd(base)} ELSE {IfEnd(base)}
NotYetUsed(has_else, base) == IF has_else THEN {IfEnd(base)} ELSE {}

LEMMA IfText ==
    ASSUME NEW P, NEW U, Sound(ir, P, U, label_counter), ir.block = "open",
           NEW e \in Exprs, NEW has_else \in BOOLEAN, If(e, has_else),
           NEW Q, Q = ToPrint(has_else, label_counter),
           NEW V, V = NotYetUsed(has_else, label_counter)
    PROVE  /\ Sound(ir', P \cup Q, U \cup V, label_counter')
           /\ P \cap Q = {} /\ ir'.block = "open"
           /\ ir.defs \subseteq ir'.defs
<1> DEFINE c == label_counter
           d == c + 3
           yes == IfThen(c)
           no == IF has_else THEN IfElse(c) ELSE IfEnd(c)
           R == Q \cup {yes}
           r == Choice(ir, e, d, yes, no)
<1>0. c \in Nat
  BY DEF Sound
<1>1. ir' = Label(r, yes) /\ label_counter' = d + LabelCount(e)
  BY DEF If
<1>2. /\ Fresh(R, c, d) /\ V \in SUBSET R
      /\ yes \in R /\ yes \notin V /\ yes \notin Q
      /\ no \in R /\ no \notin V
  <2>1. CASE has_else
    BY <1>0, <2>1, FreshLabels DEF ToPrint, NotYetUsed
  <2>2. CASE ~has_else
    BY <1>0, <2>2, FreshLabels DEF ToPrint, NotYetUsed
  <2> QED
    BY <2>1, <2>2
<1> HIDE DEF yes, no, d, R
<1>3. /\ Sound(ir, P \cup R, U \cup V, d)
      /\ \A l \in R : l \notin P /\ l \notin U /\ l \notin ir.defs
  <2> HIDE DEF c
  <2>1. /\ \A W \in SUBSET R : Sound(ir, P \cup R, U \cup W, d)
        /\ \A l \in R : l \notin P /\ l \notin U /\ l \notin ir.defs
    BY <1>2, SoundFresh DEF c
  <2> QED
    BY <1>2, <2>1
<1>4. /\ yes \in P \cup R /\ yes \notin U \cup V
      /\ no \in P \cup R /\ no \notin U \cup V
      /\ (P \cup R) \ {yes} = P \cup Q /\ P \cap Q = {}
  BY <1>2, <1>3 DEF R
<1>5. /\ Sound(r, P \cup R, U \cup V, d + LabelCount(e))
      /\ r.block = "closed" /\ ir.defs \subseteq r.defs
  BY <1>3, <1>4, SoundChoice
<1> HIDE DEF r
<1>6. /\ Sound(ir', (P \cup R) \ {yes}, U \cup V, label_counter')
      /\ ir'.block = "open" /\ ir'.defs = r.defs \cup {yes}
  BY <1>1, <1>4, <1>5, SoundAfterJump
<1> QED
  BY <1>4, <1>5, <1>6

\* The text before the body of a while.
LEMMA WhileText ==
    ASSUME NEW P, NEW U, Sound(ir, P, U, label_counter), ir.block = "open",
           NEW e \in Exprs, While(e), NEW Q, Q = {WhileEnd(label_counter)}
    PROVE  /\ Sound(ir', P \cup Q, U, label_counter')
           /\ P \cap Q = {} /\ ir'.block = "open"
           /\ ir.defs \cup {WhileCond(label_counter)} \subseteq ir'.defs
<1> DEFINE c == label_counter
           d == c + 3
           cond == WhileCond(c)
           body == WhileBody(c)
           end == WhileEnd(c)
           R == {cond, body, end}
           test == FallTo(ir, cond)
           r == Choice(test, e, d, body, end)
<1>0. c \in Nat
  BY DEF Sound
<1>1. ir' = Label(r, body) /\ label_counter' = d + LabelCount(e)
  BY DEF While
<1>2. Fresh(R, c, d) /\ cond # body /\ cond # end /\ body # end /\ Q = {end}
  BY <1>0, FreshLabels
<1> HIDE DEF cond, body, end, d
<1>3. cond \in R /\ body \in R /\ end \in R
  OBVIOUS
<1>4. /\ Sound(ir, P \cup R, U, d)
      /\ \A l \in R : l \notin P /\ l \notin U /\ l \notin ir.defs
  <2>1. Fresh(R, c, d)
    BY <1>2
  <2> HIDE DEF R
  <2> QED
    BY <2>1, FreshJoin
<1>5. /\ ((P \cup R) \ {cond}) \ {body} = P \cup Q /\ P \cap Q = {}
      /\ cond \in P \cup R /\ cond \notin U
      /\ body \in (P \cup R) \ {cond} /\ body \notin U
      /\ end \in (P \cup R) \ {cond} /\ end \notin U
  <2>1. /\ cond \notin P /\ body \notin P /\ end \notin P
        /\ cond \notin U /\ body \notin U /\ end \notin U
    <3> HIDE DEF R
    <3> QED
      BY <1>3, <1>4
  <2>2. ((P \cup R) \ {cond}) \ {body} = P \cup Q
    BY <1>2, <2>1
  <2>3. P \cap Q = {}
    BY <1>2, <2>1
  <2> HIDE DEF R
  <2> QED
    BY <1>2, <1>3, <2>1, <2>2, <2>3
<1> HIDE DEF R
<1>6. /\ Sound(test, (P \cup R) \ {cond}, U, d)
      /\ test.block = "open" /\ test.defs = ir.defs \cup {cond}
  BY <1>4, <1>5, SoundFallTo
<1> HIDE DEF test
<1>7. /\ Sound(r, (P \cup R) \ {cond}, U, d + LabelCount(e))
      /\ r.block = "closed" /\ test.defs \subseteq r.defs
  BY <1>5, <1>6, SoundChoice
<1> HIDE DEF r
<1>8. /\ Sound(ir', ((P \cup R) \ {cond}) \ {body}, U, label_counter')
      /\ ir'.block = "open" /\ ir'.defs = r.defs \cup {body}
  BY <1>1, <1>5, <1>7, SoundAfterJump
<1>9. ir.defs \cup {cond} \subseteq ir'.defs
  BY <1>6, <1>7, <1>8
<1> QED
  BY <1>5, <1>8, <1>9 DEF cond

\* The text before the body of a for, whichever of its parts are absent.
LEMMA ForText ==
    ASSUME NEW P, NEW U, Sound(ir, P, U, label_counter), ir.block = "open",
           NEW declared, NEW init \in Optional, NEW cond \in Optional,
           For(declared, init, cond, label_counter),
           NEW Q, Q = {ForUpdate(label_counter), ForEnd(label_counter)}
    PROVE  /\ Sound(ir', P \cup Q, U, label_counter')
           /\ P \cap Q = {} /\ ir'.block = "open"
           /\ ir.defs \cup {ForCond(label_counter)} \subseteq ir'.defs
<1> DEFINE c == label_counter
           d == c + 4
           d1 == d + LabelCount(init)
           d2 == d1 + LabelCount(cond)
           back == ForCond(c)
           body == ForBody(c)
           update == ForUpdate(c)
           end == ForEnd(c)
           R == {back, body, update, end}
           first == EvaluatedIfAny(ir, init, d)
           test == FallTo(first, back)
           r == IF cond = "none" THEN Jump(test, {body})
                ELSE Choice(test, cond, d1, body, end)
<1>0. c \in Nat
  BY DEF Sound
<1>1. ir' = Label(r, body) /\ label_counter' = d2
  BY DEF For
<1>2. /\ Fresh(R, c, d) /\ back # body /\ back # update /\ back # end
      /\ body # update /\ body # end /\ update # end /\ Q = {update, end}
  BY <1>0, FreshLabels
<1> HIDE DEF back, body, update, end, d
<1>3. back \in R /\ body \in R /\ update \in R /\ end \in R
  OBVIOUS
<1>4. /\ Sound(ir, P \cup R, U, d)
      /\ \A l \in R : l \notin P /\ l \notin U /\ l \notin ir.defs
  <2>1. Fresh(R, c, d)
    BY <1>2
  <2> HIDE DEF R
  <2> QED
    BY <2>1, FreshJoin
<1>5. /\ ((P \cup R) \ {back}) \ {body} = P \cup Q /\ P \cap Q = {}
      /\ back \in P \cup R /\ back \notin U
      /\ body \in (P \cup R) \ {back} /\ body \notin U
      /\ end \in (P \cup R) \ {back} /\ end \notin U
  <2>1. /\ back \notin P /\ body \notin P /\ update \notin P /\ end \notin P
        /\ back \notin U /\ body \notin U /\ end \notin U
    <3> HIDE DEF R
    <3> QED
      BY <1>3, <1>4
  <2>2. ((P \cup R) \ {back}) \ {body} = P \cup Q
    BY <1>2, <2>1
  <2>3. P \cap Q = {}
    BY <1>2, <2>1
  <2> HIDE DEF R
  <2> QED
    BY <1>2, <1>3, <2>1, <2>2, <2>3
<1> HIDE DEF R
<1>6. /\ Sound(first, P \cup R, U, d1)
      /\ first.block = "open" /\ ir.defs \subseteq first.defs
  BY <1>4, SoundEvaluatedIfAny
<1> HIDE DEF first, d1
<1>7. /\ Sound(test, (P \cup R) \ {back}, U, d1)
      /\ test.block = "open" /\ test.defs = first.defs \cup {back}
  BY <1>5, <1>6, SoundFallTo
<1> HIDE DEF test
<1>8. /\ Sound(r, (P \cup R) \ {back}, U, d2)
      /\ r.block = "closed" /\ test.defs \subseteq r.defs
  <2>1. CASE cond = "none"
    <3>1. d2 = d1
      <4>1. LabelCount(cond) = 0
        BY <2>1 DEF LabelCount
      <4>2. d1 \in Nat
        BY <1>6 DEF Sound
      <4> QED
        BY <4>1, <4>2
    <3>2. r = Jump(test, {body})
      BY <2>1
    <3>3. /\ Sound(Jump(test, {body}), (P \cup R) \ {back}, U, d1)
          /\ Jump(test, {body}).block = "closed"
          /\ Jump(test, {body}).defs = test.defs
      BY <1>5, <1>7, SoundBranch
    <3> QED
      BY <3>1, <3>2, <3>3
  <2>2. CASE cond # "none"
    <3> DEFINE q == Choice(test, cond, d1, body, end)
    <3>1. cond \in Exprs /\ r = q
      BY <2>2 DEF Optional
    <3>2. /\ Sound(q, (P \cup R) \ {back}, U, d2)
          /\ q.block = "closed" /\ test.defs \subseteq q.defs
      BY <1>5, <1>7, <3>1, SoundChoice
    <3> QED
      BY <3>1, <3>2
  <2> QED
    BY <2>1, <2>2
<1> HIDE DEF r, d2
<1>9. /\ Sound(ir', ((P \cup R) \ {back}) \ {body}, U, label_counter')
      /\ ir'.block = "open" /\ ir'.defs = r.defs \cup {body}
  BY <1>1, <1>5, <1>8, SoundAfterJump
<1>10. ir.defs \cup {back} \subseteq ir'.defs
  BY <1>6, <1>7, <1>8, <1>9
<1> QED
  BY <1>5, <1>9, <1>10 DEF back

\* The text before the body of a do.
LEMMA DoText ==
    ASSUME NEW P, NEW U, Sound(ir, P, U, label_counter), ir.block = "open",
           Do, NEW Q, Q = {DoCond(label_counter), DoEnd(label_counter)}
    PROVE  /\ Sound(ir', P \cup Q, U, label_counter')
           /\ P \cap Q = {} /\ ir'.block = "open"
           /\ ir.defs \cup {DoBody(label_counter)} \subseteq ir'.defs
<1> DEFINE c == label_counter
           d == c + 3
           body == DoBody(c)
           cond == DoCond(c)
           end == DoEnd(c)
           R == {body, cond, end}
<1>0. c \in Nat
  BY DEF Sound
<1>1. ir' = FallTo(ir, body) /\ label_counter' = d
  BY DEF Do
<1>2. /\ Fresh(R, c, d) /\ body # cond /\ body # end /\ cond # end
      /\ Q = {cond, end}
  BY <1>0, FreshLabels
<1> HIDE DEF body, cond, end, d
<1>3. body \in R /\ cond \in R /\ end \in R
  OBVIOUS
<1>4. /\ Sound(ir, P \cup R, U, d)
      /\ \A l \in R : l \notin P /\ l \notin U /\ l \notin ir.defs
  <2>1. Fresh(R, c, d)
    BY <1>2
  <2> HIDE DEF R
  <2> QED
    BY <2>1, FreshJoin
<1>5. /\ (P \cup R) \ {body} = P \cup Q /\ P \cap Q = {}
      /\ body \in P \cup R /\ body \notin U
  BY <1>2, <1>3, <1>4
<1> HIDE DEF R
<1> DEFINE q == FallTo(ir, body)
           W == P \cup R
<1>s. Sound(ir, W, U, d) /\ body \in W /\ body \notin U
  BY <1>4, <1>5
<1> HIDE DEF W
<1>f. /\ Sound(q, W \ {body}, U, d)
      /\ q.block = "open" /\ q.defs = ir.defs \cup {body}
  BY <1>s, SoundFallTo
<1> HIDE DEF q
<1>6. /\ Sound(ir', (P \cup R) \ {body}, U, label_counter')
      /\ ir'.block = "open" /\ ir'.defs = ir.defs \cup {body}
  BY <1>1, <1>f DEF q, W
<1> QED
  BY <1>5, <1>6 DEF body

\* The text before the body of a switch.
LEMMA SwitchText ==
    ASSUME NEW P, NEW U, Sound(ir, P, U, label_counter), ir.block = "open",
           NEW e \in Exprs, Switch(e), NEW Q, Q = {SwitchEnd(label_counter)}
    PROVE  /\ Sound(ir', P \cup Q, U, label_counter')
           /\ P \cap Q = {} /\ ir'.block = "open"
           /\ ir.defs \subseteq ir'.defs
<1> DEFINE c == label_counter
           d == c + 2
           end == SwitchEnd(c)
           default == SwitchDefault(c)
           R == {end, default}
           r == Evaluated(ir, e, d)
<1>0. c \in Nat
  BY DEF Sound
<1>1. ir' = FallTo(r, default) /\ label_counter' = d + LabelCount(e)
  BY DEF Switch
<1>2. Fresh(R, c, d) /\ end # default /\ Q = {end}
  BY <1>0, FreshLabels
<1> HIDE DEF end, default, d
<1>3. end \in R /\ default \in R
  OBVIOUS
<1>4. /\ Sound(ir, P \cup R, U, d)
      /\ \A l \in R : l \notin P /\ l \notin U /\ l \notin ir.defs
  <2>1. Fresh(R, c, d)
    BY <1>2
  <2> HIDE DEF R
  <2> QED
    BY <2>1, FreshJoin
<1>5. /\ (P \cup R) \ {default} = P \cup Q /\ P \cap Q = {}
      /\ default \in P \cup R /\ default \notin U
  BY <1>2, <1>3, <1>4
<1> HIDE DEF R
<1>6. /\ Sound(r, P \cup R, U, d + LabelCount(e))
      /\ r.block = "open" /\ ir.defs \subseteq r.defs
  BY <1>4, SoundEvaluated
<1> HIDE DEF r
<1>7. /\ Sound(ir', (P \cup R) \ {default}, U, label_counter')
      /\ ir'.block = "open" /\ ir'.defs = r.defs \cup {default}
  BY <1>1, <1>5, <1>6, SoundFallTo
<1> QED
  BY <1>5, <1>6, <1>7

LEMMA NestedText ==
    ASSUME ShapeInv, TextInv, Nested
    PROVE  TextInv'
<1> DEFINE P == PendingIn(frames)
           U == UnusedIn(frames)
           c == label_counter
<1>1. /\ frames # <<>> /\ ~in_return_block /\ ir.block = "open"
      /\ Sound(ir, P, U, c) /\ c \in Nat
  <2>1. frames # <<>> /\ ~in_return_block
    BY InsideFunction DEF Nested, Compound, If, While, For, Do, Switch, Visit
  <2> QED
    BY <2>1, TextTop DEF Sound, BlockFollowsFlag
<1>2. ContextTyped /\ 0 \in Nat
  BY DEF ShapeInv
<1>3. ASSUME NEW f \in FrameType, frames' = Append(frames, f),
             NEW Q, Pending(f) = Q, NEW V, Unused(f) = V,
             Sound(ir', P \cup Q, U \cup V, label_counter'),
             P \cap Q = {}, ir'.block = "open", ir.defs \subseteq ir'.defs,
             in_return_block' = FALSE, FrameSound(f, ir'.defs)
      PROVE  TextInv'
  <2>1. BlockFollowsFlag'
    BY <1>3 DEF BlockFollowsFlag
  <2> QED
    BY <1>1, <1>3, <2>1, TextEnters
<1> HIDE DEF P, U
<1>4. \A Q : U \cup {} = U /\ P \cup {} = P
  OBVIOUS
<1>5. CASE Compound
  <2> DEFINE f == Frame("compound", 0)
  <2>1. /\ frames' = Append(frames, f) /\ UNCHANGED <<ir, label_counter>>
        /\ in_return_block' = FALSE
    BY <1>1, <1>2, <1>5 DEF Compound, Call, ContextTyped
  <2>2. f \in FrameType /\ f.at = "compound"
    BY <1>2, FrameLabels DEF FrameKinds
  <2> HIDE DEF f
  <2>3. Pending(f) = {} /\ Unused(f) = {} /\ Anchors(f) = {}
    BY <2>2, PendingOf
  <2>4. FrameSound(f, ir'.defs)
    BY <2>2, <2>3 DEF FrameSound
  <2>5. Sound(ir', P \cup {}, U \cup {}, label_counter')
    BY <1>1, <1>4, <2>1
  <2> QED
    BY <1>1, <1>3, <2>1, <2>2, <2>3, <2>4, <2>5
<1>6. ASSUME NEW e \in Exprs, NEW has_else \in BOOLEAN, If(e, has_else)
      PROVE  TextInv'
  <2> DEFINE g == Frame("then", c)
             f == [g EXCEPT !.has_else = has_else]
             Q == ToPrint(has_else, c)
             V == NotYetUsed(has_else, c)
  <2>1. frames' = Append(frames, f) /\ in_return_block' = FALSE
    BY <1>6 DEF If, Call
  <2>2. /\ g \in FrameType /\ g.at = "then" /\ g.base = c
        /\ ~g.prev_return_state
    <3>1. "then" \in FrameKinds
      BY DEF FrameKinds
    <3> QED
      BY <1>1, <1>2, <3>1, FrameLabels
  <2> HIDE DEF g
  <2>3. /\ f \in FrameType /\ f.at = "then" /\ f.base = c
        /\ f.has_else = has_else /\ ~f.prev_return_state
    BY <2>2 DEF FrameType
  <2> HIDE DEF f
  <2>4. Pending(f) = Q /\ Unused(f) = V /\ Anchors(f) = {}
    BY <2>3, PendingOf DEF ToPrint, NotYetUsed
  <2>5. FrameSound(f, ir'.defs)
    BY <2>3, <2>4 DEF FrameSound
  <2>6. /\ Sound(ir', P \cup Q, U \cup V, label_counter')
        /\ P \cap Q = {} /\ ir'.block = "open"
        /\ ir.defs \subseteq ir'.defs
    BY <1>1, <1>6, IfText
  <2> HIDE DEF Q, V
  <2> QED
    BY <1>3, <2>1, <2>3, <2>4, <2>5, <2>6
<1>7. ASSUME NEW e \in Exprs, While(e) PROVE TextInv'
  <2> DEFINE f == Frame("while", c)
             Q == {WhileEnd(c)}
  <2>1. frames' = Append(frames, f) /\ in_return_block' = FALSE
    BY <1>7 DEF While, EnterLoop, Call
  <2>2. /\ f \in FrameType /\ f.at = "while" /\ f.base = c
        /\ ~f.prev_return_state
    <3>1. "while" \in FrameKinds
      BY DEF FrameKinds
    <3> QED
      BY <1>1, <1>2, <3>1, FrameLabels
  <2> HIDE DEF f
  <2>3. Pending(f) = Q /\ Unused(f) = {} /\ Anchors(f) = {WhileCond(c)}
    BY <2>2, PendingOf
  <2> HIDE DEF Q
  <2>4. /\ Sound(ir', P \cup Q, U, label_counter')
        /\ P \cap Q = {} /\ ir'.block = "open"
        /\ ir.defs \cup {WhileCond(c)} \subseteq ir'.defs
    BY <1>1, <1>7, WhileText DEF Q
  <2>5. FrameSound(f, ir'.defs)
    BY <2>2, <2>3, <2>4 DEF FrameSound
  <2>6. Sound(ir', P \cup Q, U \cup {}, label_counter')
    BY <1>4, <2>4
  <2> QED
    BY <1>3, <2>1, <2>2, <2>3, <2>4, <2>5, <2>6
<1>8. ASSUME NEW declared \in SUBSET VarName, NEW init \in Optional,
             NEW cond \in Optional, For(declared, init, cond, label_counter)
      PROVE  TextInv'
  <2> DEFINE f == Frame("for", c)
             Q == {ForUpdate(c), ForEnd(c)}
  <2>1. frames' = Append(frames, f) /\ in_return_block' = FALSE
    BY <1>8 DEF For, EnterLoop, Call
  <2>2. /\ f \in FrameType /\ f.at = "for" /\ f.base = c
        /\ ~f.prev_return_state
    <3>1. "for" \in FrameKinds
      BY DEF FrameKinds
    <3> QED
      BY <1>1, <1>2, <3>1, FrameLabels
  <2> HIDE DEF f
  <2>3. Pending(f) = Q /\ Unused(f) = {} /\ Anchors(f) = {ForCond(c)}
    BY <2>2, PendingOf
  <2> HIDE DEF Q
  <2>4. /\ Sound(ir', P \cup Q, U, label_counter')
        /\ P \cap Q = {} /\ ir'.block = "open"
        /\ ir.defs \cup {ForCond(c)} \subseteq ir'.defs
    BY <1>1, <1>8, ForText DEF Q
  <2>5. FrameSound(f, ir'.defs)
    BY <2>2, <2>3, <2>4 DEF FrameSound
  <2>6. Sound(ir', P \cup Q, U \cup {}, label_counter')
    BY <1>4, <2>4
  <2> QED
    BY <1>3, <2>1, <2>2, <2>3, <2>4, <2>5, <2>6
<1>9. ASSUME Do PROVE TextInv'
  <2> DEFINE f == Frame("do", c)
             Q == {DoCond(c), DoEnd(c)}
  <2>1. frames' = Append(frames, f) /\ in_return_block' = FALSE
    BY <1>9 DEF Do, EnterLoop, Call
  <2>2. /\ f \in FrameType /\ f.at = "do" /\ f.base = c
        /\ ~f.prev_return_state
    <3>1. "do" \in FrameKinds
      BY DEF FrameKinds
    <3> QED
      BY <1>1, <1>2, <3>1, FrameLabels
  <2> HIDE DEF f
  <2>3. Pending(f) = Q /\ Unused(f) = {} /\ Anchors(f) = {DoBody(c)}
    BY <2>2, PendingOf
  <2> HIDE DEF Q
  <2>4. /\ Sound(ir', P \cup Q, U, label_counter')
        /\ P \cap Q = {} /\ ir'.block = "open"
        /\ ir.defs \cup {DoBody(c)} \subseteq ir'.defs
    BY <1>1, <1>9, DoText DEF Q
  <2>5. FrameSound(f, ir'.defs)
    BY <2>2, <2>3, <2>4 DEF FrameSound
  <2>6. Sound(ir', P \cup Q, U \cup {}, label_counter')
    BY <1>4, <2>4
  <2> QED
    BY <1>3, <2>1, <2>2, <2>3, <2>4, <2>5, <2>6
<1>10. ASSUME NEW e \in Exprs, Switch(e) PROVE TextInv'
  <2> DEFINE f == Frame("switch", c)
             Q == {SwitchEnd(c)}
  <2>1. /\ frames' = Append(frames, f) /\ in_return_block' = FALSE
        /\ ~Structured
    BY <1>1, <1>2, <1>10
       DEF Switch, Call, Visit, Structured, ContextTyped
  <2>2. /\ f \in FrameType /\ f.at = "switch" /\ f.base = c
        /\ ~f.prev_return_state
    <3>1. "switch" \in FrameKinds
      BY DEF FrameKinds
    <3> QED
      BY <1>1, <1>2, <3>1, FrameLabels
  <2> HIDE DEF f
  <2>3. Pending(f) = Q /\ Unused(f) = {} /\ Anchors(f) = {}
    BY <2>2, PendingOf
  <2> HIDE DEF Q
  <2>4. /\ Sound(ir', P \cup Q, U, label_counter')
        /\ P \cap Q = {} /\ ir'.block = "open"
        /\ ir.defs \subseteq ir'.defs
    BY <1>1, <1>10, SwitchText DEF Q
  <2>5. FrameSound(f, ir'.defs)
    BY <2>1, <2>2, <2>3 DEF FrameSound
  <2>6. Sound(ir', P \cup Q, U \cup {}, label_counter')
    BY <1>4, <2>4
  <2> QED
    BY <1>3, <2>1, <2>2, <2>3, <2>4, <2>5, <2>6
<1> QED
  BY <1>5, <1>6, <1>7, <1>8, <1>9, <1>10 DEF Nested

\* What the end of a loop and of a branch prints.
LEMMA EndsText ==
    ASSUME ShapeInv, TextInv, Ends
    PROVE  TextInv'
<1> DEFINE P == PendingIn(Popped)
           U == UnusedIn(Popped)
           Q == Pending(Top)
           c == label_counter
           base == Top.base
<1>1. /\ frames # <<>> /\ Top.at # "function" /\ Popped # <<>>
  <2>1. frames # <<>> /\ Top.at # "function"
    BY DEF Ends, SkipItem, CompoundEnd, ThenEnd, ThenElse, ElseEnd,
       WhileDone, ForDone, DoDone, SwitchDone, Waiting
  <2>2. Stacked(Popped, label_counter) /\ Popped # <<>>
    BY <2>1, StackedPop DEF ShapeInv, ContextTyped, Popped, Top
  <2> QED
    BY <2>1, <2>2
<1>2. /\ Sound(ir, P \cup Q, U, c) /\ BlockFollowsFlag /\ c \in Nat
      /\ Sound(ir, P \cup Q, U \cup Unused(Top), c)
      /\ P \cap Q = {} /\ U \subseteq P /\ P \cap ir.defs = {}
      /\ Top \in FrameType /\ FrameSound(Top, ir.defs)
      /\ in_return_block \in BOOLEAN
      /\ \A l \in P \cup Q : l \notin ir.defs
  <2>1. in_return_block \in BOOLEAN
    BY DEF ShapeInv, ContextTyped
  <2> QED
    BY <1>1, <2>1, TextTop DEF Sound
<1>3. Top.base \in Nat /\ Top.prev_return_state \in BOOLEAN
  BY <1>1, TopTyped
<1>4. ASSUME frames' = Popped, Sound(ir', P, U, label_counter'),
             ir.defs \subseteq ir'.defs, ir'.block = "open",
             in_return_block' = FALSE \/ ~Structured
      PROVE  TextInv'
  <2>1. BlockFollowsFlag'
    BY <1>4 DEF BlockFollowsFlag
  <2> QED
    BY <1>1, <1>4, <2>1, TextLeaves
<1>5. Top.at \notin {"function", "compound"} => ~Top.prev_return_state
  BY <1>2 DEF FrameSound
<1>6. ASSUME LeaveLoop, Top.at \in Loops
      PROVE  frames' = Popped /\ in_return_block' = FALSE
  BY <1>3, <1>5, <1>6 DEF LeaveLoop, Restored, Pop, Loops
<1> HIDE DEF P, U
<1>7. ASSUME NEW k \in AllKinds, SkipItem(k) PROVE TextInv'
  <2>1. UNCHANGED <<frames, ir, label_counter, in_return_block>>
    BY <1>7 DEF SkipItem
  <2>2. Sound(ir', PendingIn(frames), UnusedIn(frames), label_counter')
    BY <1>1, <2>1, TextTop
  <2>3. BlockFollowsFlag'
    BY <1>2, <2>1 DEF BlockFollowsFlag
  <2> QED
    BY <1>1, <2>1, <2>2, <2>3, TextStays
<1>8. CASE CompoundEnd
  <2>1. /\ Top.at = "compound" /\ frames' = Popped
        /\ UNCHANGED <<ir, label_counter, in_return_block>>
    BY <1>8 DEF CompoundEnd, Waiting, Pop
  <2>2. Q = {}
    BY <1>2, <2>1, PendingOf
  <2> HIDE DEF Q
  <2>3. P \cup Q = P
    BY <2>2
  <2>4. Sound(ir', P, U, label_counter')
    BY <1>2, <2>1, <2>3
  <2>5. BlockFollowsFlag'
    BY <1>2, <2>1 DEF BlockFollowsFlag
  <2> QED
    BY <1>1, <2>1, <2>4, <2>5, TextLeaves DEF P, U
<1>9. CASE ThenEnd
  <2> DEFINE end == IfEnd(base)
             r == Continued(ir, end)
  <2>1. /\ Top.at = "then" /\ ~Top.has_else /\ frames' = Popped
        /\ ir' = Label(r, end) /\ UNCHANGED label_counter
        /\ in_return_block' = Top.prev_return_state
    BY <1>9 DEF ThenEnd, Waiting, Pop, Restored
  <2>2. Q = {end}
    BY <1>2, <2>1, PendingOf
  <2> HIDE DEF end, Q
  <2>3. end \in P \cup Q /\ end \notin U /\ (P \cup Q) \ {end} = P
    BY <1>2, <2>2
  <2>4. /\ Sound(r, P \cup Q, U, c)
        /\ Structured => r.block = "closed"
        /\ r.defs = ir.defs
    BY <1>2, <2>3, SoundContinued
  <2> HIDE DEF r
  <2>5. /\ Sound(ir', (P \cup Q) \ {end}, U, c)
        /\ ir'.block = "open" /\ ir'.defs = r.defs \cup {end}
    BY <2>1, <2>3, <2>4, SoundClosing
  <2>6. in_return_block' = FALSE
    BY <1>3, <1>5, <2>1
  <2> QED
    BY <1>4, <2>1, <2>3, <2>4, <2>5, <2>6
<1>10. CASE ThenElse
  <2> DEFINE end == IfEnd(base)
             other == IfElse(base)
             r == Continued(ir, end)
             f == [Top EXCEPT !.at = "else",
                              !.then_terminates = in_return_block,
                              !.then_live = live]
             V == IF in_return_block THEN {end} ELSE {}
             W == U \cup V
  <2>1. /\ Top.at = "then" /\ Top.has_else /\ frames' = Append(Popped, f)
        /\ ir' = Label(r, other) /\ UNCHANGED label_counter
        /\ in_return_block' = FALSE
    BY <1>10 DEF ThenElse, Waiting
  <2>2. /\ Q = {other, end} /\ Unused(Top) = {end} /\ other # end
    <3>1. other # end
      BY <1>3, FreshLabels
    <3> QED
      BY <1>2, <2>1, <3>1, PendingOf
  <2>3. /\ f \in FrameType /\ f.at = "else" /\ f.base = base
        /\ f.prev_return_state = Top.prev_return_state
        /\ f.then_terminates = in_return_block
    <3>1. live \in BOOLEAN
      BY DEF ShapeInv, ContextTyped
    <3> HIDE DEF Top
    <3> QED
      BY <1>2, <3>1 DEF FrameType, FrameKinds
  <2> HIDE DEF f
  <2>4. Pending(f) = {end} /\ Unused(f) = V /\ Anchors(f) = {}
    BY <2>3, PendingOf
  <2> HIDE DEF end, other, Q
  <2>5. FrameSound(f, ir'.defs)
    BY <1>5, <2>1, <2>3, <2>4 DEF FrameSound
  <2>6. /\ other \in P \cup Q /\ end \in P \cup Q
        /\ in_return_block \/ end \notin W
        /\ (P \cup Q) \ {other} = P \cup {end}
        /\ P \cap {end} = {}
        /\ W \in SUBSET (U \cup {end}) /\ W = U \cup V
    BY <1>2, <2>2
  <2> HIDE DEF V, W
  <2>7. Sound(ir, P \cup Q, W, c)
    BY <1>2, <2>2, <2>6 DEF Sound
  <2>8. /\ Sound(r, P \cup Q, W, c)
        /\ Structured => r.block = "closed"
        /\ r.defs = ir.defs
    BY <1>2, <2>6, <2>7, SoundContinued
  <2> HIDE DEF r
  <2>9. /\ Sound(ir', (P \cup Q) \ {other}, W, c)
        /\ ir'.block = "open" /\ ir'.defs = r.defs \cup {other}
    <3>1. ir' = Label(r, other) /\ other \in P \cup Q
      BY <2>1, <2>6
    <3> QED
      BY <2>8, <3>1, SoundClosing
  <2>10. BlockFollowsFlag'
    BY <2>1, <2>9 DEF BlockFollowsFlag
  <2>11. StackSound(Append(Popped, f), ir', label_counter')
    <3>1. /\ Popped \in Seq(FrameType)
          /\ \A i, j \in DOMAIN Popped :
                i # j => Pending(Popped[i]) \cap Pending(Popped[j]) = {}
          /\ \A i \in DOMAIN Popped : FrameSound(Popped[i], ir.defs)
      BY <1>1, StackSoundTop DEF TextInv
    <3>2. ir.defs \subseteq ir'.defs
      BY <2>8, <2>9
    <3> HIDE DEF Popped
    <3>3. \A i \in DOMAIN Popped : FrameSound(Popped[i], ir'.defs)
      BY <3>1, <3>2 DEF FrameSound
    <3>4. Sound(ir', PendingIn(Popped) \cup Pending(f),
                UnusedIn(Popped) \cup Unused(f), label_counter')
      BY <2>1, <2>4, <2>6, <2>9 DEF P, U
    <3>5. PendingIn(Popped) \cap Pending(f) = {}
      BY <2>4, <2>6 DEF P
    <3> QED
      BY <2>3, <2>5, <3>1, <3>3, <3>4, <3>5, StackSoundAppend
  <2>12. frames' # <<>>
    BY <1>10, InsideFunction
  <2> QED
    BY <2>1, <2>10, <2>11, <2>12 DEF TextInv
<1>11. CASE ElseEnd
  <2> DEFINE end == IfEnd(base)
             r == Continued(ir, end)
             both == Top.then_terminates /\ in_return_block
  <2>1. /\ Top.at = "else" /\ frames' = Popped /\ UNCHANGED label_counter
        /\ ir' = IF both THEN r ELSE Label(r, end)
        /\ in_return_block' = (Top.prev_return_state \/ both)
    BY <1>11 DEF ElseEnd, Waiting, Pop
  <2>2. /\ Q = {end} /\ Unused(Top) = IF Top.then_terminates THEN {end} ELSE {}
    BY <1>2, <2>1, PendingOf
  <2> HIDE DEF end, Q
  <2>3. end \in P \cup Q /\ end \notin U /\ (P \cup Q) \ {end} = P
    BY <1>2, <2>2
  <2>4. CASE both
    <3>1. ir' = ir /\ in_return_block' = TRUE /\ in_return_block
      BY <2>1, <2>4 DEF Continued
    <3>2. Unused(Top) = {end}
      BY <2>2, <2>4
    <3> DEFINE W == U \cup {end}
    <3>3. Sound(ir, P \cup Q, W, c) /\ {end} \in SUBSET W /\ U \in SUBSET W
      BY <1>2, <3>2
    <3> HIDE DEF W
    <3>4. Sound(ir, (P \cup Q) \ {end}, U, c)
      BY <3>3, SoundDropped
    <3>5. Sound(ir', P, U, label_counter')
      BY <2>1, <2>3, <3>1, <3>4
    <3>6. BlockFollowsFlag'
      BY <1>2, <3>1 DEF BlockFollowsFlag
    <3> QED
      BY <1>1, <2>1, <3>1, <3>5, <3>6, TextLeaves DEF P, U
  <2>5. CASE ~both
    <3>1. ir' = Label(r, end)
      BY <2>1, <2>5
    <3>2. in_return_block' = FALSE
      BY <1>3, <1>5, <2>1, <2>5
    <3>3. /\ Sound(r, P \cup Q, U, c)
          /\ Structured => r.block = "closed"
          /\ r.defs = ir.defs
      BY <1>2, <2>3, SoundContinued
    <3> HIDE DEF r
    <3>4. /\ Sound(ir', (P \cup Q) \ {end}, U, c)
          /\ ir'.block = "open" /\ ir'.defs = r.defs \cup {end}
      BY <2>3, <3>1, <3>3, SoundClosing
    <3> QED
      BY <1>4, <2>1, <2>3, <3>2, <3>3, <3>4
  <2> QED
    BY <2>4, <2>5
<1>12. CASE WhileDone
  <2> DEFINE end == WhileEnd(base)
             cond == WhileCond(base)
             r == Continued(ir, cond)
  <2>1. /\ Top.at = "while" /\ ir' = Label(r, end)
        /\ UNCHANGED label_counter /\ LeaveLoop
    BY <1>12 DEF WhileDone, Waiting
  <2>2. Q = {end} /\ Anchors(Top) = {cond}
    BY <1>2, <2>1, PendingOf
  <2> HIDE DEF end, cond, Q
  <2>3. /\ end \in P \cup Q /\ (P \cup Q) \ {end} = P
        /\ cond \in ir.defs /\ cond \notin U
    BY <1>2, <2>2 DEF FrameSound
  <2>4. /\ Sound(r, P \cup Q, U, c)
        /\ Structured => r.block = "closed"
        /\ r.defs = ir.defs
    BY <1>2, <2>3, SoundContinued
  <2> HIDE DEF r
  <2>5. /\ Sound(ir', (P \cup Q) \ {end}, U, c)
        /\ ir'.block = "open" /\ ir'.defs = r.defs \cup {end}
    BY <2>1, <2>3, <2>4, SoundClosing
  <2> QED
    BY <1>4, <1>6, <2>1, <2>3, <2>4, <2>5 DEF Loops
<1>13. ASSUME NEW update \in Optional, ForDone(update) PROVE TextInv'
  <2> DEFINE next == ForUpdate(base)
             end == ForEnd(base)
             cond == ForCond(base)
             r1 == Continued(ir, next)
             r2 == Label(r1, next)
             r3 == EvaluatedIfAny(r2, update, c)
             r4 == Jump(r3, {cond})
  <2>1. /\ Top.at = "for" /\ ir' = Label(r4, end)
        /\ label_counter' = c + LabelCount(update) /\ LeaveLoop
    BY <1>13 DEF ForDone, Waiting
  <2>2. Q = {next, end} /\ Anchors(Top) = {cond} /\ next # end
    <3>1. next # end
      BY <1>3, FreshLabels
    <3> QED
      BY <1>2, <2>1, <3>1, PendingOf
  <2> HIDE DEF next, end, cond, Q
  <2>3. /\ next \in P \cup Q /\ next \notin U
        /\ end \in (P \cup Q) \ {next}
        /\ ((P \cup Q) \ {next}) \ {end} = P
        /\ cond \in ir.defs /\ cond \notin U
    BY <1>2, <2>2 DEF FrameSound
  <2>4. /\ Sound(r1, P \cup Q, U, c)
        /\ Structured => r1.block = "closed"
        /\ r1.defs = ir.defs
    BY <1>2, <2>3, SoundContinued
  <2> HIDE DEF r1
  <2>5. /\ Sound(r2, (P \cup Q) \ {next}, U, c)
        /\ r2.block = "open" /\ r2.defs = r1.defs \cup {next}
    BY <2>3, <2>4, SoundClosing
  <2> HIDE DEF r2
  <2>6. /\ Sound(r3, (P \cup Q) \ {next}, U, label_counter')
        /\ r3.block = "open" /\ r2.defs \subseteq r3.defs
    BY <2>1, <2>5, SoundEvaluatedIfAny
  <2> HIDE DEF r3
  <2>7. cond \in r3.defs
    BY <2>3, <2>4, <2>5, <2>6
  <2>8. /\ Sound(r4, (P \cup Q) \ {next}, U, label_counter')
        /\ r4.block = "closed" /\ r4.defs = r3.defs
    BY <2>3, <2>6, <2>7, SoundBranch
  <2> HIDE DEF r4
  <2>9. /\ Sound(ir', ((P \cup Q) \ {next}) \ {end}, U, label_counter')
        /\ ir'.block = "open" /\ ir'.defs = r4.defs \cup {end}
    BY <2>1, <2>3, <2>8, SoundClosing
  <2>10. ir.defs \subseteq ir'.defs
    BY <2>4, <2>5, <2>6, <2>8, <2>9
  <2> QED
    BY <1>4, <1>6, <2>1, <2>3, <2>9, <2>10 DEF Loops
<1>14. ASSUME NEW e \in Exprs, DoDone(e) PROVE TextInv'
  <2> DEFINE cond == DoCond(base)
             end == DoEnd(base)
             body == DoBody(base)
             r1 == Continued(ir, cond)
             r2 == Label(r1, cond)
             r3 == Choice(r2, e, c, body, end)
  <2>1. /\ Top.at = "do" /\ ir' = Label(r3, end)
        /\ label_counter' = c + LabelCount(e) /\ LeaveLoop
    BY <1>14 DEF DoDone, Waiting
  <2>2. Q = {cond, end} /\ Anchors(Top) = {body} /\ cond # end
    <3>1. cond # end
      BY <1>3, FreshLabels
    <3> QED
      BY <1>2, <2>1, <3>1, PendingOf
  <2> HIDE DEF cond, end, body, Q
  <2>3. /\ cond \in P \cup Q /\ cond \notin U
        /\ end \in (P \cup Q) \ {cond} /\ end \notin U
        /\ ((P \cup Q) \ {cond}) \ {end} = P
        /\ body \in ir.defs /\ body \notin U
    BY <1>2, <2>2 DEF FrameSound
  <2>4. /\ Sound(r1, P \cup Q, U, c)
        /\ Structured => r1.block = "closed"
        /\ r1.defs = ir.defs
    BY <1>2, <2>3, SoundContinued
  <2> HIDE DEF r1
  <2>5. /\ Sound(r2, (P \cup Q) \ {cond}, U, c)
        /\ r2.block = "open" /\ r2.defs = r1.defs \cup {cond}
    BY <2>3, <2>4, SoundClosing
  <2> HIDE DEF r2
  <2>6. body \in r2.defs
    BY <2>3, <2>4, <2>5
  <2>7. /\ Sound(r3, (P \cup Q) \ {cond}, U, label_counter')
        /\ r3.block = "closed" /\ r2.defs \subseteq r3.defs
    BY <2>1, <2>3, <2>5, <2>6, SoundChoice
  <2> HIDE DEF r3
  <2>8. /\ Sound(ir', ((P \cup Q) \ {cond}) \ {end}, U, label_counter')
        /\ ir'.block = "open" /\ ir'.defs = r3.defs \cup {end}
    BY <2>1, <2>3, <2>7, SoundClosing
  <2>9. ir.defs \subseteq ir'.defs
    BY <2>4, <2>5, <2>7, <2>8
  <2> QED
    BY <1>4, <1>6, <2>1, <2>3, <2>8, <2>9 DEF Loops
<1>15. CASE SwitchDone
  <2> DEFINE end == SwitchEnd(base)
             r == Continued(ir, end)
  <2>1. /\ Top.at = "switch" /\ frames' = Popped
        /\ ir' = Label(r, end) /\ UNCHANGED label_counter
    BY <1>15 DEF SwitchDone, Waiting, Pop
  <2>2. Q = {end} /\ ~Structured
    BY <1>2, <2>1, PendingOf DEF FrameSound
  <2> HIDE DEF end, Q
  <2>3. end \in P \cup Q /\ end \notin U /\ (P \cup Q) \ {end} = P
    BY <1>2, <2>2
  <2>4. /\ Sound(r, P \cup Q, U, c)
        /\ Structured => r.block = "closed"
        /\ r.defs = ir.defs
    BY <1>2, <2>3, SoundContinued
  <2> HIDE DEF r
  <2>5. /\ Sound(ir', (P \cup Q) \ {end}, U, c)
        /\ ir'.block = "open" /\ ir'.defs = r.defs \cup {end}
    BY <2>1, <2>3, <2>4, SoundClosing
  <2> QED
    BY <1>4, <2>1, <2>2, <2>3, <2>4, <2>5
<1> QED
  BY <1>7, <1>8, <1>9, <1>10, <1>11, <1>12, <1>13, <1>14, <1>15 DEF Ends

\* A function starts with no label, and ends with all of its labels printed.
LEMMA UnitText ==
    ASSUME ShapeInv, TextInv, Unit
    PROVE  TextInv'
<1>1. CASE \/ (\E f \in FuncName : Prototype(f)) \/ SecondPassEnd
           \/ (\E n \in VarName : GlobalDeclaration(n))
           \/ ProgramEnd \/ Done
  <2>1. UNCHANGED <<frames, ir, label_counter, in_return_block>>
    BY <1>1 DEF Prototype, SecondPassEnd, GlobalDeclaration, ProgramEnd,
       Done, vars
  <2> QED
    BY <2>1 DEF TextInv, BlockFollowsFlag
<1>2. ASSUME NEW f \in FuncName, NEW params \in SUBSET VarName,
             Function(f, params)
      PROVE  TextInv'
  <2> DEFINE g == Frame("function", 0)
             body == Frame("compound", 0)
             fs == <<g, body>>
  <2>1. /\ frames = <<>> /\ in_return_block' = FALSE
        /\ frames' = fs /\ UNCHANGED label_counter
        /\ ir' = IF params = {} THEN Entered(ir) ELSE Instr(Entered(ir))
    BY <1>2 DEF Function, AtGlobalLevel
  <2>2. ContextTyped /\ label_counter \in Nat /\ Tolerated(ir.faults)
    BY <2>1 DEF ShapeInv, ContextTyped, TextInv
  <2>3. /\ g \in FrameType /\ g.at = "function"
        /\ body \in FrameType /\ body.at = "compound"
    <3>1. "function" \in FrameKinds /\ "compound" \in FrameKinds
      BY DEF FrameKinds
    <3> QED
      BY <2>2, <3>1, FrameLabels
  <2> HIDE DEF g, body
  <2>4. /\ Pending(g) = {} /\ Unused(g) = {} /\ Anchors(g) = {}
        /\ Pending(body) = {} /\ Unused(body) = {} /\ Anchors(body) = {}
    BY <2>3, PendingOf
  <2>5. /\ DOMAIN fs = {1, 2} /\ fs[1] = g /\ fs[2] = body /\ fs # <<>>
    OBVIOUS
  <2> HIDE DEF fs
  <2>6. PendingIn(fs) = {} /\ UnusedIn(fs) = {}
    BY <2>4, <2>5 DEF PendingIn, UnusedIn
  <2>7. Sound(Entered(ir), {}, {}, label_counter)
    BY <2>2 DEF Entered, Sound, Tolerated
  <2>8. Sound(ir', {}, {}, label_counter) /\ ir'.block = "open"
    <3>1. Entered(ir).block = "open"
      BY BlockKinds
    <3> QED
      BY <2>1, <2>7, <3>1, SoundInstr
  <2>9. StackSound(fs, ir', label_counter')
    <3>1. FrameSound(g, ir'.defs) /\ FrameSound(body, ir'.defs)
      BY <2>3, <2>4 DEF FrameSound
    <3>2. \A i \in DOMAIN fs : Pending(fs[i]) = {} /\ FrameSound(fs[i], ir'.defs)
      BY <2>4, <2>5, <3>1
    <3> QED
      BY <2>1, <2>6, <2>8, <3>2 DEF StackSound
  <2>10. BlockFollowsFlag'
    BY <2>1, <2>8 DEF BlockFollowsFlag
  <2> QED
    BY <2>1, <2>5, <2>9, <2>10 DEF TextInv
<1>3. CASE FunctionEnd
  <2> DEFINE T == {}
             r == IF in_return_block THEN ir ELSE Jump(ir, T)
  <2>1. /\ frames # <<>> /\ Top.at = "function" /\ frames' = Popped
        /\ ir' = Left(r)
    BY <1>3 DEF FunctionEnd, Waiting, Pop
  <2>2. Stacked(Popped, label_counter) /\ Popped = <<>>
    BY <2>1, StackedPop DEF ShapeInv, ContextTyped, Popped, Top
  <2>3. /\ Sound(ir, {}, {}, label_counter) /\ BlockFollowsFlag
    <3>1. /\ Sound(ir, PendingIn(frames), UnusedIn(Popped), label_counter)
          /\ PendingIn(frames) = PendingIn(Popped) \cup Pending(Top)
          /\ Top \in FrameType /\ BlockFollowsFlag
      BY <2>1, TextTop
    <3>2. PendingIn(<<>>) = {} /\ UnusedIn(<<>>) = {}
      BY DEF PendingIn, UnusedIn
    <3>3. Pending(Top) = {}
      BY <2>1, <3>1, PendingOf
    <3> HIDE DEF Top, Popped
    <3> QED
      BY <2>2, <3>1, <3>2, <3>3
  <2>4. /\ Sound(r, {}, {}, label_counter)
        /\ Structured => r.block = "closed"
    <3>1. CASE in_return_block
      BY <2>3, <3>1 DEF BlockFollowsFlag
    <3>2. CASE ~in_return_block
      <4>1. ir.block = "open" /\ r = Jump(ir, T)
        BY <2>3, <3>2 DEF BlockFollowsFlag
      <4>2. \A l \in T : /\ \/ l \in ir.defs \/ l \in {}
                            \/ ~Structured /\ Number(l) = 0
                         /\ l \notin {}
        OBVIOUS
      <4> HIDE DEF T, r
      <4>3. Sound(Jump(ir, T), {}, {}, label_counter)
            /\ Jump(ir, T).block = "closed"
        BY <2>3, <4>1, <4>2, SoundJump
      <4> QED
        BY <4>1, <4>3
    <3> QED
      BY <3>1, <3>2
  <2> HIDE DEF r
  <2> DEFINE open == IF r.block = "open" THEN {<<"unterminated", NoLabel>>}
                     ELSE {}
             absent == {<<"undefined", l>> : l \in r.refs \ r.defs}
  <2>5. ir'.faults = r.faults \cup open \cup absent
    BY <2>1 DEF Left
  <2>6. /\ Structured => open = {}
        /\ \A fault \in open : fault[1] = "unterminated"
    BY <2>4
  <2>7. /\ \A l \in r.refs \ r.defs : Number(l) = 0
        /\ Structured => r.refs \ r.defs = {}
        /\ Tolerated(r.faults)
    BY <2>4 DEF Sound
  <2>8. /\ Structured => absent = {}
        /\ \A fault \in absent : fault[1] = "undefined" /\ Number(fault[2]) = 0
    BY <2>7
  <2> HIDE DEF open, absent
  <2>9. Tolerated(ir'.faults)
    BY <2>5, <2>6, <2>7, <2>8 DEF Tolerated
  <2> QED
    BY <2>1, <2>2, <2>9 DEF TextInv
<1> QED
  BY <1>1, <1>2, <1>3 DEF Unit

\* Of everything printed so far no label is printed twice or missing, other
\* than those of the program.
LEMMA TextInvariance == Spec => []TextInv
<1>1. Init => TextInv
  BY DEF Init, Blank, TextInv, Tolerated
<1>2. ShapeInv /\ TargetInv /\ TextInv /\ [Next]_vars => TextInv'
  <2>1. ASSUME ShapeInv, TextInv, UNCHANGED vars PROVE TextInv'
    BY <2>1 DEF vars, TextInv, BlockFollowsFlag
  <2> QED
    BY <2>1, JumpsText, SimpleText, NestedText, EndsText, UnitText DEF Next
<1> QED
  BY <1>1, <1>2, ShapeInvariance, TargetInvariance, PTL DEF Spec

LEMMA FaultsAreTolerated ==
    ASSUME TextInv
    PROVE  Tolerated(ir.faults)
<1>1. CASE frames = <<>>
  BY <1>1 DEF TextInv
<1>2. CASE frames # <<>>
  BY <1>2 DEF TextInv, StackSound, Sound
<1> QED
  BY <1>1, <1>2

\* Whatever the program, with goto, switch and labels in it: the labels that
\* generate_label made are printed once, those branched to are printed, and no
\* line follows a terminator without a label.
THEOREM GeneratedLabelsAreSoundInvariance == Spec => []GeneratedLabelsAreSound
<1>1. TextInv => GeneratedLabelsAreSound
  BY FaultsAreTolerated DEF Tolerated, GeneratedLabelsAreSound, Number
<1> QED
  BY <1>1, TextInvariance, PTL

\* For programs without switch, goto and labels, what generate_statement prints
\* is a function: every block ends in one terminator and every label branched
\* to is printed once.
THEOREM WellFormedInvariance ==
    ASSUME Kinds \cap {"switch", "goto", "label"} = {}
    PROVE  Spec => []FunctionsAreWellFormed
<1>1. TextInv => FunctionsAreWellFormed
  BY FaultsAreTolerated DEF Tolerated, Structured, FunctionsAreWellFormed
<1> QED
  BY <1>1, TextInvariance, PTL
===============================================================================
