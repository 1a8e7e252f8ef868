------------------------------ MODULE ScopedMap ------------------------------
(***************************************************************************)
(* What the symbol table promises its clients (the semantic analysis and   *)
(* the code generator): a stack of maps in which only the current scope    *)
(* ever changes, a declaration never replaces another one of its scope,    *)
(* and every variable or function gets a name in the generated code that   *)
(* no symbol ever had before.  SymbolTable implements it.                  *)
(***************************************************************************)
EXTENDS Scopes

CONSTANTS
    Name,      \* identifiers
    NeedsName  \* the kinds of symbol that become named LLVM values

VARIABLES
    stack,  \* the scopes, global first
    used    \* the LLVM names given out so far

vars == <<stack, used>>

Init ==
    /\ stack = GlobalOnly
    /\ used = {}

Open ==
    /\ stack # <<>>
    /\ stack' = Opened(stack)
    /\ UNCHANGED used

Close ==
    /\ stack # <<>>
    /\ stack' = Closed(stack)
    /\ UNCHANGED used

\* The new symbol is whatever the implementation stored under the name.
Declare(n) ==
    /\ stack # <<>>
    /\ n \notin DOMAIN Current(stack)
    /\ stack' # <<>>
    /\ n \in DOMAIN Current(stack')
    /\ LET s == Current(stack')[n]
       IN  /\ s.name = n
           /\ stack' = Bound(stack, n, s)
           /\ IF s.kind \in NeedsName
              THEN /\ s.llvm_name \notin used
                   /\ used' = used \cup {s.llvm_name}
              ELSE UNCHANGED used

Discard ==
    /\ stack # <<>>
    /\ stack' = <<>>
    /\ UNCHANGED used

Next ==
    \/ Open
    \/ Close
    \/ \E n \in Name : Declare(n)
    \/ Discard

Spec == Init /\ [][Next]_vars
===============================================================================
