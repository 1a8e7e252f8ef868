----------------------------- MODULE SymbolTable -----------------------------
(***************************************************************************)
(* The symbol table of symbol_table.c: a chain of scopes, each a hash      *)
(* table of buckets whose symbols are linked newest first, two counters,   *)
(* and the name of the function being compiled, which prefixes the LLVM    *)
(* names of its variables.  The clients are ast.c (semantic analysis) and  *)
(* codegen.c, which each drive a table of their own.                       *)
(***************************************************************************)
EXTENDS Naturals, Sequences

CONSTANTS
    Name,        \* identifiers
    LongName,    \* identifiers that fill generate_unique_name's 256 bytes
    Bucket,      \* bucket indices of a scope
    Hash,        \* the bucket of a name
    DeclKind,    \* the kinds add_symbol is called with
    EnumValue,   \* values given to enum constants
    NoFunction,  \* current_function when it is NULL
    NoSymbol,    \* a NULL symbol
    MaxScopes,   \* bound: scopes open at once
    MaxNames     \* bound: LLVM names generated

\* The kinds of symbol that get a generated LLVM name, and the others.
NamedKind == {"VARIABLE", "FUNCTION"}
Kind == NamedKind \cup
        {"TYPEDEF", "STRUCT", "UNION", "ENUM", "ENUM_CONSTANT", "LABEL"}

ASSUME NameAssumption == NoFunction \notin Name
ASSUME LongAssumption == LongName \subseteq Name
ASSUME HashAssumption == Hash \in [Name -> Bucket]
ASSUME KindAssumption == DeclKind \subseteq Kind \ {"ENUM_CONSTANT", "LABEL"}
ASSUME BoundAssumption == MaxScopes \in Nat /\ MaxNames \in Nat

VARIABLES
    scopes,            \* parent chain, global first; <<>> once destroyed
    scope_counter,
    temp_counter,
    current_function,
    issued,            \* history: every LLVM name generated, in order
    meant              \* history: what each name meant when each open scope
                       \* but the global one was entered

vars == <<scopes, scope_counter, temp_counter, current_function, issued, meant>>

-------------------------------------------------------------------------------
\* Reading the table.

current_scope == scopes[Len(scopes)]
AtGlobal == Len(scopes) = 1
IsLive == scopes # <<>>

\* find_symbol_in_scope: the first match in the bucket of the name.
FirstNamed(chain, n) ==
    CHOOSE i \in DOMAIN chain :
        chain[i].name = n /\ \A j \in 1 .. i - 1 : chain[j].name # n

\* Mutant: only the head of the chain is compared.
find_symbol_in_scope_HeadOnly(scope, n) ==
    LET chain == scope.buckets[Hash[n]]
    IN  IF chain # <<>> /\ chain[1].name = n THEN chain[1] ELSE NoSymbol

find_symbol_in_scope(scope, n) ==
    LET chain == scope.buckets[Hash[n]]
    IN  IF \E i \in DOMAIN chain : chain[i].name = n
        THEN chain[FirstNamed(chain, n)]
        ELSE NoSymbol

\* Mutant: the outermost declaration wins.
find_symbol_Outermost(n) ==
    LET found == {i \in DOMAIN scopes :
                     find_symbol_in_scope(scopes[i], n) # NoSymbol}
    IN  IF found = {} THEN NoSymbol
        ELSE find_symbol_in_scope(
                 scopes[CHOOSE i \in found : \A j \in found : i <= j], n)

\* find_symbol: from the current scope out to the global one.
find_symbol(n) ==
    LET found == {i \in DOMAIN scopes :
                     find_symbol_in_scope(scopes[i], n) # NoSymbol}
    IN  IF found = {} THEN NoSymbol
        ELSE find_symbol_in_scope(
                 scopes[CHOOSE i \in found : \A j \in found : j <= i], n)

-------------------------------------------------------------------------------
\* Writing the table.

EmptyBuckets == [b \in Bucket |-> <<>>]
NewScope(lvl) == [level |-> lvl, symbol_count |-> 0, buckets |-> EmptyBuckets]

PlainName(n) ==
    [form |-> "plain", fn |-> NoFunction, base |-> n, level |-> 0, id |-> 0]

\* What snprintf leaves in the 256 bytes: function, name, level and counter,
\* or only as much of the text as comes before the cut.
generate_unique_name(n, id) ==
    IF n \in LongName
    THEN [form |-> "cut", fn |-> current_function, base |-> n,
          level |-> 0, id |-> 0]
    ELSE [form |-> "unique", fn |-> current_function, base |-> n,
          level |-> IF current_function = NoFunction THEN 0
                    ELSE current_scope.level,
          id |-> id]

NewSymbol(n, k, llvm) ==
    [name |-> n, kind |-> k, llvm_name |-> llvm,
     scope_level |-> current_scope.level, is_global |-> AtGlobal,
     enum_value |-> 0, label_defined |-> 0]

Pushed(scope, s) ==
    [level |-> scope.level,
     symbol_count |-> scope.symbol_count + 1,
     buckets |-> [scope.buckets EXCEPT ![Hash[s.name]] = <<s>> \o @]]

\* Mutant: a name that is declared already gets its new symbol in the scope of
\* the old one.
Push_WhereFound(s) ==
    LET found == {i \in DOMAIN scopes :
                     find_symbol_in_scope(scopes[i], s.name) # NoSymbol}
        i == IF found = {} THEN Len(scopes)
             ELSE CHOOSE j \in found : \A k \in found : k <= j
    IN  scopes' = [scopes EXCEPT ![i] = Pushed(@, s)]

Push(s) == scopes' = [scopes EXCEPT ![Len(scopes)] = Pushed(@, s)]

\* Mutant: the counter is printed but not incremented.
AddNamed_SameCounter(n, k) ==
    LET llvm == generate_unique_name(n, temp_counter)
    IN  /\ Len(issued) < MaxNames
        /\ issued' = Append(issued, llvm)
        /\ Push(NewSymbol(n, k, llvm))
        /\ UNCHANGED temp_counter

\* add_symbol for a kind that is given a generated name.
AddNamed(n, k) ==
    LET llvm == generate_unique_name(n, temp_counter + 1)
    IN  /\ temp_counter < MaxNames
        /\ temp_counter' = temp_counter + 1
        /\ issued' = Append(issued, llvm)
        /\ Push(NewSymbol(n, k, llvm))

\* add_symbol for a kind that keeps its name.
AddPlain(s) ==
    /\ Push(s)
    /\ UNCHANGED <<temp_counter, issued>>

\* Mutant: the bucket is not searched before the push.
IsNew_Unchecked(n) == current_scope.symbol_count < 2

IsNew(n) == find_symbol_in_scope(current_scope, n) = NoSymbol

\* A name already in the current scope is refused and nothing changes.
add_symbol(n, k) ==
    /\ IsLive
    /\ IsNew(n)
    /\ IF k \in NamedKind
       THEN AddNamed(n, k)
       ELSE AddPlain(NewSymbol(n, k, PlainName(n)))
    /\ UNCHANGED <<scope_counter, current_function, meant>>

add_enum_constant(n, v) ==
    /\ IsLive
    /\ IsNew(n)
    /\ AddPlain([NewSymbol(n, "ENUM_CONSTANT", PlainName(n))
                    EXCEPT !.enum_value = v])
    /\ UNCHANGED <<scope_counter, current_function, meant>>

add_label(l) ==
    /\ IsLive
    /\ IsNew(l)
    /\ AddPlain([NewSymbol(l, "LABEL", PlainName(l))
                    EXCEPT !.label_defined = 1])
    /\ UNCHANGED <<scope_counter, current_function, meant>>

enter_scope ==
    /\ IsLive
    /\ Len(scopes) < MaxScopes
    /\ scope_counter' = scope_counter + 1
    /\ scopes' = Append(scopes, NewScope(scope_counter + 1))
    /\ meant' = Append(meant, [n \in Name |-> find_symbol(n)])
    /\ UNCHANGED <<temp_counter, current_function, issued>>

\* Mutants: the global scope is left too; the counter is not decremented.
exit_scope_EvenGlobal ==
    /\ IsLive
    /\ scopes' = SubSeq(scopes, 1, Len(scopes) - 1)
    /\ meant' = SubSeq(meant, 1, Len(meant) - 1)
    /\ scope_counter' = scope_counter - 1
    /\ UNCHANGED <<temp_counter, current_function, issued>>
exit_scope_KeepsCounter ==
    /\ IsLive
    /\ ~AtGlobal
    /\ scopes' = SubSeq(scopes, 1, Len(scopes) - 1)
    /\ meant' = SubSeq(meant, 1, Len(meant) - 1)
    /\ UNCHANGED <<scope_counter, temp_counter, current_function, issued>>

exit_scope ==
    /\ IsLive
    /\ ~AtGlobal
    /\ scopes' = SubSeq(scopes, 1, Len(scopes) - 1)
    /\ meant' = SubSeq(meant, 1, Len(meant) - 1)
    /\ scope_counter' = scope_counter - 1
    /\ UNCHANGED <<temp_counter, current_function, issued>>

\* The clients name the function whose declaration they have just tried to add
\* to the global scope: the name is there, as this function or, where add_symbol
\* refused it, as what was declared before.  codegen.c does so before it enters
\* the function's scope; ast.c after, and it names none before it leaves.
set_current_function(f) ==
    /\ IsLive
    /\ IF f = NoFunction
       THEN Len(scopes) = 2
       ELSE /\ find_symbol_in_scope(scopes[1], f) # NoSymbol
            /\ Len(scopes) <= 2
            /\ AtGlobal \/ current_scope.symbol_count = 0
    /\ current_function' = f
    /\ UNCHANGED <<scopes, scope_counter, temp_counter, issued, meant>>

\* Leaves every scope, then frees the global one and the table.
destroy_symbol_table ==
    /\ IsLive
    /\ scopes' = <<>>
    /\ scope_counter' = 0
    /\ current_function' = NoFunction
    /\ meant' = <<>>
    /\ UNCHANGED <<temp_counter, issued>>

Init ==
    /\ scopes = <<NewScope(0)>>
    /\ scope_counter = 0
    /\ temp_counter = 0
    /\ current_function = NoFunction
    /\ issued = <<>>
    /\ meant = <<>>

Next ==
    \/ enter_scope
    \/ exit_scope
    \/ \E n \in Name, k \in DeclKind : add_symbol(n, k)
    \/ \E n \in Name, v \in EnumValue : add_enum_constant(n, v)
    \/ \E l \in Name : add_label(l)
    \/ \E f \in Name \cup {NoFunction} : set_current_function(f)
    \/ destroy_symbol_table

Spec == Init /\ [][Next]_vars
-------------------------------------------------------------------------------
\* Properties.

LlvmName == [form : {"plain", "unique", "cut"}, fn : Name \cup {NoFunction},
             base : Name, level : Nat, id : Nat]
Symbol == [name : Name, kind : Kind, llvm_name : LlvmName,
           scope_level : Nat, is_global : BOOLEAN,
           enum_value : {0} \cup EnumValue, label_defined : {0, 1}]
ASSUME NoSymbolAssumption == NoSymbol \notin Symbol
Scope == [level : Nat, symbol_count : Nat, buckets : [Bucket -> Seq(Symbol)]]

\* Type invariant: the shapes of scope_t, symbol_t and symbol_table_t.
TypeOK ==
    /\ scopes \in Seq(Scope)
    /\ scope_counter \in Nat
    /\ temp_counter \in Nat
    /\ current_function \in Name \cup {NoFunction}
    /\ issued \in Seq(LlvmName)
    /\ meant \in Seq([Name -> Symbol \cup {NoSymbol}])

\* scope_counter is decremented by exit_scope and read by enter_scope, so
\* sibling scopes get the same level: the level of a scope is its depth, and
\* the symbols in it carry that level.  generate_unique_name prints it.
LevelsAreDepths ==
    /\ IsLive => scope_counter = Len(scopes) - 1
    /\ \A i \in DOMAIN scopes : scopes[i].level = i - 1

\* Chains are consistent: every symbol sits in the bucket its name hashes to
\* (else no lookup would find it), a scope holds a name once, and a symbol
\* remembers the scope it was added to.
ChainsAreSound ==
    \A i \in DOMAIN scopes : \A b \in Bucket :
        LET chain == scopes[i].buckets[b]
        IN  /\ \A j \in DOMAIN chain :
                  /\ Hash[chain[j].name] = b
                  /\ chain[j].scope_level = scopes[i].level
                  /\ chain[j].is_global = (i = 1)
            /\ \A j, k \in DOMAIN chain :
                  chain[j].name = chain[k].name => j = k

\* generate_unique_name never returns the same text twice in the life of a
\* table, although levels are reused and current_function changes: two
\* variables of the generated code never share an alloca.
UniqueNames ==
    \A i, j \in DOMAIN issued : issued[i] = issued[j] => i = j

\* Whatever was declared in a scope and in the scopes nested in it, leaving it
\* gives back what every name meant when it was entered: a name it shadowed
\* finds the outer symbol again, a name it brought in finds none, and no other
\* name has changed.
ExitRevealsOuter ==
    [][(scopes' # <<>> /\ Len(scopes') < Len(scopes)) =>
         \A n \in Name : find_symbol(n)' = meant[Len(meant)][n]]_vars

\* The detailed table implements the scoped map.
NamesIn(scope) ==
    UNION {{scope.buckets[b][j].name : j \in DOMAIN scope.buckets[b]} :
               b \in Bucket}
AsMap(scope) == [n \in NamesIn(scope) |-> find_symbol_in_scope(scope, n)]
AbstractStack == [i \in DOMAIN scopes |-> AsMap(scopes[i])]
IssuedNames == {issued[i] : i \in DOMAIN issued}

Map == INSTANCE ScopedMap WITH
           NeedsName <- NamedKind,
           stack <- AbstractStack,
           used <- IssuedNames

\* Seen through its lookups, every operation of the hash table is an operation
\* of the scoped map, or none.
ImplementsScopedMap == Map!Spec

\* find_symbol walks chains, not maps: it answers what the innermost scope
\* declaring the name says.
LookupAgrees ==
    \A n \in Name :
        find_symbol(n) = IF Map!IsVisible(AbstractStack, n)
                         THEN Map!Resolve(AbstractStack, n) ELSE NoSymbol
===============================================================================
