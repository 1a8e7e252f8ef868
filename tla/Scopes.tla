-------------------------------- MODULE Scopes --------------------------------
(***************************************************************************)
(* Pure operators on a stack of nested scopes: a sequence of partial maps  *)
(* from names to symbols, the global scope first and the current scope     *)
(* last.  This is what symbol_table.c offers the passes above it, without  *)
(* its hash buckets, chains and counters.                                  *)
(***************************************************************************)
EXTENDS Naturals, Sequences

\* The map with no name in it, and the stack holding only a global scope.
EmptyScope == [n \in {} |-> {}]
GlobalOnly == <<EmptyScope>>

Current(stack) == stack[Len(stack)]

\* enter_scope and exit_scope; the global scope is never left.
Opened(stack) == Append(stack, EmptyScope)
Closed(stack) ==
    IF Len(stack) = 1 THEN stack ELSE SubSeq(stack, 1, Len(stack) - 1)

\* A successful add_symbol: one more name in the current scope.
Extended(scope, n, s) ==
    [m \in DOMAIN scope \cup {n} |-> IF m = n THEN s ELSE scope[m]]
Bound(stack, n, s) == [stack EXCEPT ![Len(stack)] = Extended(@, n, s)]

\* add_symbol as called: a name already in the current scope is refused.
Declared(stack, n, s) ==
    IF n \in DOMAIN Current(stack) THEN stack ELSE Bound(stack, n, s)

\* find_symbol: the innermost scope that declares the name decides.
Declares(stack, n) == {i \in DOMAIN stack : n \in DOMAIN stack[i]}
IsVisible(stack, n) == Declares(stack, n) # {}
Resolve(stack, n) ==
    LET inner == CHOOSE i \in Declares(stack, n) :
                     \A j \in Declares(stack, n) : j <= i
    IN  stack[inner][n]
===============================================================================
