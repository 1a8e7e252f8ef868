-------------------------- MODULE SymbolTableProofs --------------------------
(***************************************************************************)
(* Theorems about SymbolTable, for every set of names, number of buckets,  *)
(* hash function and bound.                                                *)
(***************************************************************************)
EXTENDS SymbolTable, SequenceTheorems, WellFoundedInduction, TLAPS

USE DEF IsLive, AtGlobal, current_scope

-------------------------------------------------------------------------------
\* The operators that build scopes and symbols.

\* A table that is not destroyed has a scope.
LEMMA LiveLength ==
    ASSUME scopes \in Seq(Scope), IsLive
    PROVE  Len(scopes) \in Nat /\ Len(scopes) >= 1
<1>1. Len(scopes) \in Nat \ {0}
  BY EmptySeq
<1> QED
  BY <1>1

\* A new scope has the shape of a scope_t.
LEMMA NewScopeType ==
    ASSUME NEW lvl \in Nat
    PROVE  NewScope(lvl) \in Scope
<1>1. <<>> \in Seq(Symbol)
  OBVIOUS
<1>2. EmptyBuckets \in [Bucket -> Seq(Symbol)]
  BY <1>1 DEF EmptyBuckets
<1> QED
  BY <1>2 DEF NewScope, Scope

\* create_symbol and the lines of add_symbol after it fill in every field.
LEMMA NewSymbolType ==
    ASSUME TypeOK, IsLive,
           NEW n \in Name, NEW k \in Kind, NEW llvm \in LlvmName
    PROVE  NewSymbol(n, k, llvm) \in Symbol
<1>1. scopes[Len(scopes)] \in Scope
  BY DEF TypeOK
<1>2. scopes[Len(scopes)].level \in Nat
  BY <1>1 DEF Scope
<1> QED
  BY <1>2 DEF NewSymbol, Symbol

\* Both kinds of LLVM name have the shape of one.
LEMMA LlvmNameType ==
    ASSUME TypeOK, IsLive, NEW n \in Name, NEW id \in Nat
    PROVE  /\ PlainName(n) \in LlvmName
           /\ generate_unique_name(n, id) \in LlvmName
<1>1. scopes[Len(scopes)] \in Scope
  BY DEF TypeOK
<1>2. scopes[Len(scopes)].level \in Nat
  BY <1>1 DEF Scope
<1>3. current_function \in Name \cup {NoFunction}
  BY DEF TypeOK
<1>4. PlainName(n) \in LlvmName
  BY DEF PlainName, LlvmName
<1>5. generate_unique_name(n, id) \in LlvmName
  BY <1>2, <1>3 DEF generate_unique_name, LlvmName
<1> QED
  BY <1>4, <1>5

\* Pushing a symbol on its chain keeps the shape of the scope, and leaves the
\* scope's level alone.
LEMMA PushedType ==
    ASSUME NEW scope \in Scope, NEW s \in Symbol
    PROVE  /\ Pushed(scope, s) \in Scope
           /\ Pushed(scope, s).level = scope.level
<1>1. s.name \in Name
  BY DEF Symbol
<1>2. Hash[s.name] \in Bucket
  BY <1>1, HashAssumption
<1>3. scope.buckets[Hash[s.name]] \in Seq(Symbol)
  BY <1>2 DEF Scope
<1> DEFINE chain == <<s>> \o scope.buckets[Hash[s.name]]
           buckets == [scope.buckets EXCEPT ![Hash[s.name]] = chain]
<1>4. chain \in Seq(Symbol)
  BY <1>3
<1>5. buckets \in [Bucket -> Seq(Symbol)]
  BY <1>2, <1>4 DEF Scope
<1>6. Pushed(scope, s) = [level |-> scope.level,
                          symbol_count |-> scope.symbol_count + 1,
                          buckets |-> buckets]
  BY DEF Pushed, Scope
<1> QED
  <2> HIDE DEF buckets
  <2> QED
    BY <1>5, <1>6 DEF Scope

\* Pushing a symbol changes the current scope only.
LEMMA PushType ==
    ASSUME TypeOK, IsLive, NEW s \in Symbol, Push(s)
    PROVE  /\ scopes' \in Seq(Scope)
           /\ Len(scopes') = Len(scopes)
           /\ \A i \in DOMAIN scopes : scopes'[i].level = scopes[i].level
<1>1. scopes \in Seq(Scope) /\ Len(scopes) \in DOMAIN scopes
  BY DEF TypeOK
<1>2. scopes[Len(scopes)] \in Scope
  BY <1>1
<1>3. /\ Pushed(scopes[Len(scopes)], s) \in Scope
      /\ Pushed(scopes[Len(scopes)], s).level = scopes[Len(scopes)].level
  BY <1>2, PushedType
<1>4. scopes' = [scopes EXCEPT ![Len(scopes)] = Pushed(scopes[Len(scopes)], s)]
  BY DEF Push
<1>5. scopes' \in Seq(Scope) /\ Len(scopes') = Len(scopes)
  BY <1>1, <1>3, <1>4, ExceptSeq
<1>6. \A i \in DOMAIN scopes : scopes'[i].level = scopes[i].level
  BY <1>1, <1>3, <1>4
<1> QED
  BY <1>5, <1>6

-------------------------------------------------------------------------------
\* What a lookup answers is a symbol or nothing.

\* A set of numbers with an element has a least one.
LEMMA LeastElement ==
    ASSUME NEW T \in SUBSET Nat, T # {}
    PROVE  \E x \in T : \A y \in T : x <= y
<1> DEFINE R == OpToRel(<, Nat)
<1>1. IsWellFoundedOn(R, Nat)
  BY NatLessThanWellFounded
<1>2. \A x, y \in Nat : y < x => <<y, x>> \in R
  BY DEF OpToRel
<1> HIDE DEF R
<1>3. PICK x \in T : \A y \in T : ~ (<<y, x>> \in R)
  BY <1>1, WFMin
<1>4. ASSUME NEW y \in T PROVE x <= y
  <2>1. x \in Nat /\ y \in Nat
    OBVIOUS
  <2>2. ~ (y < x)
    BY <1>2, <1>3, <2>1
  <2> QED
    BY <2>1, <2>2
<1> QED
  BY <1>4

\* If some symbol of a chain has the name, FirstNamed is such a symbol.
LEMMA FirstNamedFinds ==
    ASSUME NEW chain \in Seq(Symbol), NEW n,
           \E i \in DOMAIN chain : chain[i].name = n
    PROVE  /\ FirstNamed(chain, n) \in DOMAIN chain
           /\ chain[FirstNamed(chain, n)].name = n
<1> DEFINE hits == {i \in DOMAIN chain : chain[i].name = n}
<1>1. hits \in SUBSET Nat /\ hits # {}
  OBVIOUS
<1>2. PICK least \in hits : \A j \in hits : least <= j
  BY <1>1, LeastElement
<1>3. \A j \in 1 .. least - 1 : chain[j].name # n
  <2> SUFFICES ASSUME NEW j \in 1 .. least - 1, chain[j].name = n
               PROVE  FALSE
    OBVIOUS
  <2>1. least \in 1 .. Len(chain) /\ Len(chain) \in Nat
    BY <1>2
  <2>2. j \in hits /\ j < least
    BY <2>1
  <2> QED
    BY <1>2, <2>1, <2>2
<1> QED
  BY <1>2, <1>3 DEF FirstNamed

\* Of the indices in a set there is a largest one.
LEMMA GreatestElement ==
    ASSUME NEW n \in Nat, NEW T \in SUBSET (1 .. n), T # {}
    PROVE  \E x \in T : \A y \in T : y <= x
<1> DEFINE U == {n - x : x \in T}
<1>1. U \in SUBSET Nat /\ U # {}
  <2>1. \A x \in 1 .. n : n - x \in Nat
    OBVIOUS
  <2>2. \A x \in T : x \in 1 .. n
    OBVIOUS
  <2>3. PICK x : x \in T
    OBVIOUS
  <2>4. n - x \in U
    BY <2>3
  <2> QED
    BY <2>1, <2>2, <2>4
<1>2. PICK u \in U : \A v \in U : u <= v
  BY <1>1, LeastElement
<1>3. PICK x \in T : u = n - x
  BY <1>2
<1>4. ASSUME NEW y \in T PROVE y <= x
  <2>1. n - y \in U /\ x \in 1 .. n /\ y \in 1 .. n
    OBVIOUS
  <2>2. n - x <= n - y
    BY <1>2, <1>3, <2>1
  <2> QED
    BY <2>1, <2>2
<1> QED
  BY <1>4

\* The scopes in which find_symbol finds the name.
Found(ss, n) ==
    {i \in DOMAIN ss : find_symbol_in_scope(ss[i], n) # NoSymbol}
Inner(T) == CHOOSE i \in T : \A j \in T : j <= i

LEMMA InnerFound ==
    ASSUME NEW ss \in Seq(Scope), NEW n, Found(ss, n) # {}
    PROVE  Inner(Found(ss, n)) \in Found(ss, n)
<1> DEFINE T == Found(ss, n)
<1>1. Len(ss) \in Nat /\ T \in SUBSET (1 .. Len(ss)) /\ T # {}
  BY DEF Found
<1> HIDE DEF T
<1>2. \E x \in T : \A y \in T : y <= x
  BY <1>1, GreatestElement
<1>3. Inner(T) \in T
  BY <1>2 DEF Inner
<1> QED
  BY <1>3 DEF T

\* What find_symbol answers in a chain of scopes.
Seen(ss, n) ==
    IF Found(ss, n) = {} THEN NoSymbol
    ELSE find_symbol_in_scope(ss[Inner(Found(ss, n))], n)

LEMMA FindSymbol ==
    ASSUME NEW n
    PROVE  /\ find_symbol(n) = Seen(scopes, n)
           /\ find_symbol(n)' = Seen(scopes', n)
BY DEF find_symbol, Seen, Found, Inner

LEMMA SeenType ==
    ASSUME NEW ss \in Seq(Scope), NEW n \in Name
    PROVE  Seen(ss, n) \in Symbol \cup {NoSymbol}
<1>1. CASE Found(ss, n) = {}
  BY <1>1 DEF Seen
<1>2. CASE Found(ss, n) # {}
  <2> DEFINE scope == ss[Inner(Found(ss, n))]
             chain == scope.buckets[Hash[n]]
  <2>1. Inner(Found(ss, n)) \in DOMAIN ss
    BY <1>2, InnerFound DEF Found
  <2>2. scope \in Scope
    BY <2>1
  <2>3. Hash[n] \in Bucket
    BY HashAssumption
  <2>4. chain \in Seq(Symbol)
    BY <2>2, <2>3 DEF Scope
  <2>5. Seen(ss, n) = find_symbol_in_scope(scope, n)
    BY <1>2 DEF Seen
  <2> HIDE DEF scope
  <2>6. CASE \E i \in DOMAIN chain : chain[i].name = n
    <3>1. find_symbol_in_scope(scope, n) = chain[FirstNamed(chain, n)]
      BY <2>6 DEF find_symbol_in_scope
    <3> HIDE DEF chain
    <3>2. FirstNamed(chain, n) \in DOMAIN chain
      BY <2>4, <2>6, FirstNamedFinds
    <3> QED
      BY <2>4, <2>5, <3>1, <3>2
  <2>7. CASE ~ \E i \in DOMAIN chain : chain[i].name = n
    BY <2>5, <2>7 DEF find_symbol_in_scope
  <2> QED
    BY <2>6, <2>7
<1> QED
  BY <1>1, <1>2


-------------------------------------------------------------------------------
\* The shape of the table, and the levels of its scopes.

LevelInv == TypeOK /\ LevelsAreDepths

\* A successful add_symbol, whatever the kind, pushes one symbol and touches
\* neither the scope counter nor the current function.
LEMMA AddNamedType ==
    ASSUME TypeOK, IsLive, NEW n \in Name, NEW k \in Kind, AddNamed(n, k)
    PROVE  /\ temp_counter' \in Nat
           /\ issued' \in Seq(LlvmName)
           /\ \E s \in Symbol : Push(s)
<1> DEFINE llvm == generate_unique_name(n, temp_counter + 1)
<1>1. llvm \in LlvmName
  BY LlvmNameType DEF TypeOK
<1>2. issued' = Append(issued, llvm) /\ temp_counter' = temp_counter + 1
  BY DEF AddNamed
<1>3. NewSymbol(n, k, llvm) \in Symbol /\ Push(NewSymbol(n, k, llvm))
  BY <1>1, NewSymbolType DEF AddNamed
<1> HIDE DEF llvm
<1> QED
  BY <1>1, <1>2, <1>3 DEF TypeOK

\* One step of add_symbol, add_enum_constant or add_label.
Adds(s) ==
    /\ IsLive
    /\ IsNew(s.name)
    /\ Push(s)
    /\ s.scope_level = current_scope.level
    /\ s.is_global = AtGlobal
    /\ UNCHANGED <<scope_counter, current_function, meant>>

LEMMA AddPlainType ==
    ASSUME TypeOK, IsLive, NEW n \in Name, NEW k \in Kind
    PROVE  LET s == NewSymbol(n, k, PlainName(n))
           IN  /\ s \in Symbol
               /\ [s EXCEPT !.label_defined = 1] \in Symbol
               /\ \A v \in EnumValue : [s EXCEPT !.enum_value = v] \in Symbol
<1> DEFINE s == NewSymbol(n, k, PlainName(n))
<1>1. s \in Symbol
  BY LlvmNameType, NewSymbolType DEF TypeOK
<1> HIDE DEF s
<1>2. [s EXCEPT !.label_defined = 1] \in Symbol
  BY <1>1 DEF Symbol
<1>3. \A v \in EnumValue : [s EXCEPT !.enum_value = v] \in Symbol
  BY <1>1 DEF Symbol
<1> QED
  BY <1>1, <1>2, <1>3 DEF s

\* The three ways to add a symbol are one step shape.
LEMMA AddingSteps ==
    ASSUME TypeOK,
           \/ \E n \in Name, k \in DeclKind : add_symbol(n, k)
           \/ \E n \in Name, v \in EnumValue : add_enum_constant(n, v)
           \/ \E l \in Name : add_label(l)
    PROVE  /\ temp_counter' \in Nat
           /\ issued' \in Seq(LlvmName)
           /\ \E s \in Symbol : Adds(s)
<1>1. ASSUME NEW n \in Name, NEW k \in DeclKind, add_symbol(n, k),
             k \in NamedKind
      PROVE  /\ temp_counter' \in Nat
             /\ issued' \in Seq(LlvmName)
             /\ \E s \in Symbol : Adds(s)
  <2> DEFINE llvm == generate_unique_name(n, temp_counter + 1)
             s == NewSymbol(n, k, llvm)
  <2>1. k \in Kind /\ IsLive /\ AddNamed(n, k)
    BY <1>1, KindAssumption DEF add_symbol
  <2>2. llvm \in LlvmName
    BY <2>1, LlvmNameType DEF TypeOK
  <2>3. s \in Symbol
    BY <2>1, <2>2, NewSymbolType
  <2>4. s.name = n /\ s.scope_level = current_scope.level
          /\ s.is_global = AtGlobal
    BY DEF NewSymbol
  <2>5. Push(s)
    BY <2>1 DEF AddNamed
  <2> HIDE DEF s
  <2>6. Adds(s)
    BY <1>1, <2>4, <2>5 DEF Adds, add_symbol
  <2> QED
    BY <2>1, <2>3, <2>6, AddNamedType
<1>2. ASSUME NEW n \in Name, NEW k \in DeclKind, add_symbol(n, k),
             k \notin NamedKind
      PROVE  /\ temp_counter' \in Nat
             /\ issued' \in Seq(LlvmName)
             /\ \E s \in Symbol : Adds(s)
  <2> DEFINE s == NewSymbol(n, k, PlainName(n))
  <2>1. IsLive /\ IsNew(n) /\ AddPlain(s)
    BY <1>2 DEF add_symbol
  <2>2. s \in Symbol
    BY <2>1, KindAssumption, AddPlainType
  <2>3. s.name = n /\ s.scope_level = current_scope.level
          /\ s.is_global = AtGlobal
    BY DEF NewSymbol
  <2> HIDE DEF s
  <2>4. Adds(s)
    BY <1>2, <2>1, <2>3 DEF Adds, AddPlain, add_symbol
  <2> QED
    BY <2>1, <2>2, <2>4 DEF AddPlain, TypeOK
<1>3. ASSUME NEW n \in Name, NEW v \in EnumValue, add_enum_constant(n, v)
      PROVE  /\ temp_counter' \in Nat
             /\ issued' \in Seq(LlvmName)
             /\ \E s \in Symbol : Adds(s)
  <2> DEFINE e == NewSymbol(n, "ENUM_CONSTANT", PlainName(n))
             s == [e EXCEPT !.enum_value = v]
  <2>1. IsLive /\ IsNew(n) /\ AddPlain(s)
    BY <1>3 DEF add_enum_constant
  <2>2. s \in Symbol
    BY <2>1, AddPlainType DEF Kind
  <2>3. s.name = n /\ s.scope_level = current_scope.level
          /\ s.is_global = AtGlobal
    BY DEF NewSymbol
  <2> HIDE DEF s
  <2>4. Adds(s)
    BY <1>3, <2>1, <2>3 DEF Adds, AddPlain, add_enum_constant
  <2> QED
    BY <2>1, <2>2, <2>4 DEF AddPlain, TypeOK
<1>4. ASSUME NEW n \in Name, add_label(n)
      PROVE  /\ temp_counter' \in Nat
             /\ issued' \in Seq(LlvmName)
             /\ \E s \in Symbol : Adds(s)
  <2> DEFINE e == NewSymbol(n, "LABEL", PlainName(n))
             s == [e EXCEPT !.label_defined = 1]
  <2>1. IsLive /\ IsNew(n) /\ AddPlain(s)
    BY <1>4 DEF add_label
  <2>2. s \in Symbol
    BY <2>1, AddPlainType DEF Kind
  <2>3. s.name = n /\ s.scope_level = current_scope.level
          /\ s.is_global = AtGlobal
    BY DEF NewSymbol
  <2> HIDE DEF s
  <2>4. Adds(s)
    BY <1>4, <2>1, <2>3 DEF Adds, AddPlain, add_label
  <2> QED
    BY <2>1, <2>2, <2>4 DEF AddPlain, TypeOK
<1> QED
  BY <1>1, <1>2, <1>3, <1>4

\* exit_scope drops the last scope of at least two.
LEMMA ExitDropsLast ==
    ASSUME scopes \in Seq(Scope), exit_scope
    PROVE  /\ Len(scopes) \in Nat /\ Len(scopes) > 1
           /\ scopes' \in Seq(Scope)
           /\ Len(scopes') = Len(scopes) - 1
           /\ \A i \in 1 .. Len(scopes) - 1 : scopes'[i] = scopes[i]
           /\ scope_counter' = scope_counter - 1
<1>1. scopes # <<>> /\ Len(scopes) # 1
  BY DEF exit_scope
<1>2. Len(scopes) \in Nat /\ Len(scopes) > 1
  <2>1. Len(scopes) \in Nat /\ Len(scopes) >= 1
    BY <1>1, LiveLength
  <2>2. \A n \in Nat : n >= 1 /\ n # 1 => n > 1
    OBVIOUS
  <2> QED
    BY <1>1, <2>1, <2>2
<1>3. /\ scopes' \in Seq(Scope)
      /\ Len(scopes') = Len(scopes) - 1
      /\ \A i \in 1 .. Len(scopes) - 1 : scopes'[i] = scopes[i]
  BY <1>2, SubSeqProperties DEF exit_scope
<1>4. scope_counter' = scope_counter - 1
  BY DEF exit_scope
<1> QED
  BY <1>2, <1>3, <1>4

\* A sequence without its last element, or an empty one.
LEMMA WithoutLast ==
    ASSUME NEW S, NEW s \in Seq(S)
    PROVE  SubSeq(s, 1, Len(s) - 1) \in Seq(S)
<1>1. CASE Len(s) = 0
  <2>1. SubSeq(s, 1, Len(s) - 1) = <<>>
    BY <1>1
  <2> QED
    BY <2>1
<1>2. CASE Len(s) # 0
  BY <1>2, SubSeqProperties
<1> QED
  BY <1>1, <1>2

\* The table and its scopes keep their shape, and the level of a scope is its
\* depth, although exit_scope only decrements a counter.
THEOREM LevelInvariance == Spec => [](TypeOK /\ LevelsAreDepths)
<1>1. Init => LevelInv
  <2> SUFFICES ASSUME Init PROVE LevelInv
    OBVIOUS
  <2>1. NewScope(0) \in Scope /\ NewScope(0).level = 0
    BY NewScopeType DEF NewScope
  <2> QED
    BY <2>1 DEF Init, LevelInv, TypeOK, LevelsAreDepths
<1>2. LevelInv /\ [Next]_vars => LevelInv'
  <2> SUFFICES ASSUME LevelInv, [Next]_vars PROVE LevelInv'
    OBVIOUS
  <2> USE DEF LevelInv
  <2>1. CASE enter_scope
    <3>1. NewScope(scope_counter + 1) \in Scope
          /\ NewScope(scope_counter + 1).level = scope_counter + 1
      BY NewScopeType DEF TypeOK, NewScope
    <3>2. scopes' = Append(scopes, NewScope(scope_counter + 1))
      BY <2>1 DEF enter_scope
    <3>3. TypeOK'
      <4> DEFINE now == [n \in Name |-> find_symbol(n)]
      <4>1. \A n \in Name : find_symbol(n) \in Symbol \cup {NoSymbol}
        BY FindSymbol, SeenType DEF TypeOK
      <4>2. now \in [Name -> Symbol \cup {NoSymbol}]
        BY <4>1
      <4>3. meant' = Append(meant, now)
        BY <2>1 DEF enter_scope
      <4> HIDE DEF now
      <4>4. meant' \in Seq([Name -> Symbol \cup {NoSymbol}])
        BY <4>2, <4>3 DEF TypeOK
      <4> QED
        BY <2>1, <3>1, <3>2, <4>4 DEF enter_scope, TypeOK
    <3>4. LevelsAreDepths'
      BY <2>1, <3>1, <3>2 DEF enter_scope, TypeOK, LevelsAreDepths
    <3> QED
      BY <3>3, <3>4
  <2>2. CASE exit_scope
    <3>1. scopes \in Seq(Scope) /\ scope_counter = Len(scopes) - 1
      <4>1. scopes # <<>>
        BY <2>2 DEF exit_scope
      <4> QED
        BY <4>1 DEF TypeOK, LevelsAreDepths
    <3>2. /\ Len(scopes) \in Nat /\ Len(scopes) > 1
          /\ scopes' \in Seq(Scope)
          /\ Len(scopes') = Len(scopes) - 1
          /\ \A i \in 1 .. Len(scopes) - 1 : scopes'[i] = scopes[i]
          /\ scope_counter' = scope_counter - 1
      BY <2>2, <3>1, ExitDropsLast
    <3>3. UNCHANGED <<temp_counter, current_function, issued>>
      BY <2>2 DEF exit_scope
    <3>4. TypeOK'
      <4>1. meant' = SubSeq(meant, 1, Len(meant) - 1)
        BY <2>2 DEF exit_scope
      <4>2. meant' \in Seq([Name -> Symbol \cup {NoSymbol}])
        BY <4>1, WithoutLast DEF TypeOK
      <4> QED
        BY <3>1, <3>2, <3>3, <4>2 DEF TypeOK
    <3>5. LevelsAreDepths'
      <4>0. DOMAIN scopes' = 1 .. Len(scopes) - 1
        BY <3>2
      <4>1. \A i \in DOMAIN scopes' : scopes'[i].level = i - 1
        <5> SUFFICES ASSUME NEW i \in DOMAIN scopes'
                     PROVE  scopes'[i].level = i - 1
          OBVIOUS
        <5>1. i \in DOMAIN scopes /\ scopes'[i] = scopes[i]
          BY <3>1, <3>2, <4>0
        <5> QED
          BY <5>1 DEF LevelsAreDepths
      <4>2. scope_counter' = Len(scopes') - 1
        BY <3>1, <3>2
      <4> QED
        BY <4>1, <4>2 DEF LevelsAreDepths
    <3> QED
      BY <3>4, <3>5
  <2>3. CASE \/ \E n \in Name, k \in DeclKind : add_symbol(n, k)
             \/ \E n \in Name, v \in EnumValue : add_enum_constant(n, v)
             \/ \E l \in Name : add_label(l)
    <3>1. PICK s \in Symbol : Adds(s)
      BY <2>3, AddingSteps
    <3>2. temp_counter' \in Nat /\ issued' \in Seq(LlvmName)
      BY <2>3, AddingSteps
    <3>3. /\ scopes' \in Seq(Scope)
          /\ Len(scopes') = Len(scopes)
          /\ \A i \in DOMAIN scopes : scopes'[i].level = scopes[i].level
      BY <3>1, PushType DEF Adds
    <3>4. TypeOK'
      BY <3>1, <3>2, <3>3 DEF Adds, TypeOK
    <3>5. LevelsAreDepths'
      <4>1. scopes # <<>> /\ UNCHANGED scope_counter
        BY <3>1 DEF Adds
      <4>2. DOMAIN scopes' = DOMAIN scopes
        BY <3>3 DEF TypeOK
      <4> QED
        BY <3>3, <4>1, <4>2 DEF LevelsAreDepths
    <3> QED
      BY <3>4, <3>5
  <2>4. CASE \E f \in Name \cup {NoFunction} : set_current_function(f)
    BY <2>4 DEF set_current_function, TypeOK, LevelsAreDepths
  <2>5. CASE destroy_symbol_table
    BY <2>5 DEF destroy_symbol_table, TypeOK, LevelsAreDepths
  <2>6. CASE UNCHANGED vars
    BY <2>6 DEF vars, TypeOK, LevelsAreDepths
  <2> QED
    BY <2>1, <2>2, <2>3, <2>4, <2>5, <2>6 DEF Next
<1> QED
  BY <1>1, <1>2, PTL DEF Spec, LevelInv

-------------------------------------------------------------------------------
\* What a lookup that finds nothing says about the chain it walked.

\* A scope in which find_symbol_in_scope answers NULL has no such name in the
\* bucket of the name.
LEMMA NotFoundIsAbsent ==
    ASSUME NEW scope \in Scope, NEW n \in Name,
           find_symbol_in_scope(scope, n) = NoSymbol
    PROVE  \A i \in DOMAIN scope.buckets[Hash[n]] :
               scope.buckets[Hash[n]][i].name # n
<1> DEFINE chain == scope.buckets[Hash[n]]
<1>1. chain \in Seq(Symbol)
  BY HashAssumption DEF Scope
<1> SUFFICES ASSUME \E i \in DOMAIN chain : chain[i].name = n PROVE FALSE
  OBVIOUS
<1>2. find_symbol_in_scope(scope, n) = chain[FirstNamed(chain, n)]
  BY DEF find_symbol_in_scope
<1> HIDE DEF chain
<1>3. chain[FirstNamed(chain, n)] \in Symbol
  BY <1>1, FirstNamedFinds
<1> QED
  BY <1>2, <1>3, NoSymbolAssumption

-------------------------------------------------------------------------------
\* Chains.

\* ChainsAreSound for one scope.
SoundScope(scope, global) ==
    \A b \in Bucket :
        LET chain == scope.buckets[b]
        IN  /\ \A j \in DOMAIN chain :
                  /\ Hash[chain[j].name] = b
                  /\ chain[j].scope_level = scope.level
                  /\ chain[j].is_global = global
            /\ \A j, k \in DOMAIN chain :
                  chain[j].name = chain[k].name => j = k

LEMMA SoundScopes ==
    ChainsAreSound <=> \A i \in DOMAIN scopes : SoundScope(scopes[i], i = 1)
BY DEF ChainsAreSound, SoundScope

\* Pushing a symbol whose name the scope does not hold keeps the scope sound.
LEMMA PushedIsSound ==
    ASSUME NEW scope \in Scope, NEW s \in Symbol, NEW global \in BOOLEAN,
           SoundScope(scope, global),
           find_symbol_in_scope(scope, s.name) = NoSymbol,
           s.scope_level = scope.level, s.is_global = global
    PROVE  SoundScope(Pushed(scope, s), global)
<1> DEFINE h == Hash[s.name]
           old == scope.buckets[h]
           new == <<s>> \o old
<1>1. s.name \in Name /\ h \in Bucket
  BY HashAssumption DEF Symbol
<1>2. old \in Seq(Symbol)
  BY <1>1 DEF Scope
<1>3. /\ Pushed(scope, s).level = scope.level
      /\ Pushed(scope, s).buckets[h] = new
      /\ \A b \in Bucket : b # h =>
             Pushed(scope, s).buckets[b] = scope.buckets[b]
  BY <1>1 DEF Pushed, Scope
<1>4. /\ DOMAIN new = 1 .. Len(old) + 1
      /\ new[1] = s
      /\ \A i \in 2 .. Len(old) + 1 : i - 1 \in DOMAIN old /\ new[i] = old[i - 1]
  BY <1>2
<1>5. \A i \in DOMAIN old : old[i].name # s.name
  BY <1>1, NotFoundIsAbsent
<1>6. /\ \A j \in DOMAIN old :
             /\ Hash[old[j].name] = h
             /\ old[j].scope_level = scope.level
             /\ old[j].is_global = global
      /\ \A j, k \in DOMAIN old : old[j].name = old[k].name => j = k
  BY <1>1 DEF SoundScope
<1>7. Len(old) \in Nat
  BY <1>2
<1> HIDE DEF old, new
<1>8. ASSUME NEW j \in DOMAIN new
      PROVE  /\ Hash[new[j].name] = h
             /\ new[j].scope_level = scope.level
             /\ new[j].is_global = global
  <2>1. CASE j = 1
    BY <2>1, <1>4
  <2>2. CASE j # 1
    <3>1. j \in 2 .. Len(old) + 1
      BY <2>2, <1>4, <1>7
    <3> QED
      BY <3>1, <1>4, <1>6
  <2> QED
    BY <2>1, <2>2
<1>9. ASSUME NEW j \in DOMAIN new, NEW k \in DOMAIN new,
             new[j].name = new[k].name
      PROVE  j = k
  <2>1. \A i \in DOMAIN new : i = 1 \/ i \in 2 .. Len(old) + 1
    BY <1>4, <1>7
  <2>2. CASE j = 1 /\ k # 1
    BY <2>1, <2>2, <1>4, <1>5, <1>9
  <2>3. CASE j # 1 /\ k = 1
    BY <2>1, <2>3, <1>4, <1>5, <1>9
  <2>4. CASE j # 1 /\ k # 1
    <3>1. j - 1 = k - 1
      BY <2>1, <2>4, <1>4, <1>6, <1>9
    <3>2. j \in Int /\ k \in Int
      BY <1>4, <1>7
    <3> QED
      BY <3>1, <3>2
  <2> QED
    BY <2>2, <2>3, <2>4
<1> QED
  <2> SUFFICES ASSUME NEW b \in Bucket
               PROVE  LET chain == Pushed(scope, s).buckets[b]
                      IN  /\ \A j \in DOMAIN chain :
                                /\ Hash[chain[j].name] = b
                                /\ chain[j].scope_level = scope.level
                                /\ chain[j].is_global = global
                          /\ \A j, k \in DOMAIN chain :
                                chain[j].name = chain[k].name => j = k
    BY <1>3 DEF SoundScope
  <2>1. CASE b = h
    BY <2>1, <1>3, <1>8, <1>9
  <2>2. CASE b # h
    BY <2>2, <1>3 DEF SoundScope
  <2> QED
    BY <2>1, <2>2

\* In every reachable table, each symbol is in the bucket of its name, no scope
\* holds a name twice, and symbols know their scope.
THEOREM ChainInvariance == Spec => []ChainsAreSound
<1>1. Init => ChainsAreSound
  BY DEF Init, ChainsAreSound, NewScope, EmptyBuckets
<1>2. LevelInv /\ ChainsAreSound /\ [Next]_vars => ChainsAreSound'
  <2> SUFFICES ASSUME LevelInv, ChainsAreSound, [Next]_vars
               PROVE  \A i \in DOMAIN scopes' : SoundScope(scopes'[i], i = 1)
    BY DEF ChainsAreSound, SoundScope
  <2>0. /\ scopes \in Seq(Scope)
        /\ \A i \in DOMAIN scopes : SoundScope(scopes[i], i = 1)
    BY SoundScopes DEF LevelInv, TypeOK
  <2>1. CASE enter_scope
    <3> DEFINE new == NewScope(scope_counter + 1)
    <3>1. new \in Scope
      BY NewScopeType DEF LevelInv, TypeOK
    <3>2. SoundScope(new, FALSE)
      BY DEF SoundScope, NewScope, EmptyBuckets
    <3>3. scopes' = Append(scopes, new) /\ scopes # <<>>
      BY <2>1 DEF enter_scope
    <3> HIDE DEF new
    <3>4. /\ DOMAIN scopes' = 1 .. Len(scopes) + 1
          /\ \A i \in DOMAIN scopes : scopes'[i] = scopes[i]
          /\ scopes'[Len(scopes) + 1] = new
          /\ Len(scopes) \in Nat \ {0}
      BY <2>0, <3>1, <3>3, AppendProperties, EmptySeq
    <3> SUFFICES ASSUME NEW i \in DOMAIN scopes'
                 PROVE  SoundScope(scopes'[i], i = 1)
      OBVIOUS
    <3>5. CASE i = Len(scopes) + 1
      <4>1. (i = 1) = FALSE
        BY <3>4, <3>5
      <4> QED
        BY <3>2, <3>4, <3>5, <4>1
    <3>6. CASE i # Len(scopes) + 1
      <4>1. i \in DOMAIN scopes
        BY <3>4, <3>6, <2>0
      <4> QED
        BY <2>0, <3>4, <4>1
    <3> QED
      BY <3>5, <3>6
  <2>2. CASE exit_scope
    <3>1. /\ Len(scopes) \in Nat
          /\ scopes' \in Seq(Scope)
          /\ Len(scopes') = Len(scopes) - 1
          /\ \A i \in 1 .. Len(scopes) - 1 : scopes'[i] = scopes[i]
      BY <2>0, <2>2, ExitDropsLast
    <3>2. DOMAIN scopes' = 1 .. Len(scopes) - 1
      BY <3>1
    <3> QED
      BY <2>0, <3>1, <3>2
  <2>3. CASE \/ \E n \in Name, k \in DeclKind : add_symbol(n, k)
             \/ \E n \in Name, v \in EnumValue : add_enum_constant(n, v)
             \/ \E l \in Name : add_label(l)
    <3>1. PICK s \in Symbol : Adds(s)
      BY <2>3, AddingSteps DEF LevelInv
    <3> DEFINE n == Len(scopes)
               cur == scopes[n]
    <3>2. n \in DOMAIN scopes /\ cur \in Scope
      BY <2>0, <3>1, EmptySeq DEF Adds
    <3>3. SoundScope(cur, n = 1)
      BY <2>0, <3>2
    <3>4. SoundScope(Pushed(cur, s), n = 1)
      BY <3>1, <3>2, <3>3, PushedIsSound DEF Adds, IsNew
    <3>5. /\ scopes' = [scopes EXCEPT ![n] = Pushed(cur, s)]
      BY <3>1 DEF Adds, Push
    <3> HIDE DEF n, cur
    <3> QED
      BY <2>0, <3>2, <3>4, <3>5
  <2>4. CASE \E f \in Name \cup {NoFunction} : set_current_function(f)
    BY <2>0, <2>4 DEF set_current_function
  <2>5. CASE destroy_symbol_table
    BY <2>5 DEF destroy_symbol_table
  <2>6. CASE UNCHANGED vars
    BY <2>0, <2>6 DEF vars
  <2> QED
    BY <2>1, <2>2, <2>3, <2>4, <2>5, <2>6 DEF Next
<1> QED
  BY <1>1, <1>2, LevelInvariance, PTL DEF Spec, LevelInv

-------------------------------------------------------------------------------
\* Generated names.

\* The inductive form of UniqueNames: the counter is the number of names, and
\* a name that was not cut carries its own number.
Numbered ==
    /\ Len(issued) = temp_counter
    /\ \A i \in DOMAIN issued : issued[i].base \in LongName \/ issued[i].id = i

\* Every name that fits its buffer ends in the number of its place in the
\* order of generation: temp_counter is never reset, not by exit_scope nor by
\* a change of function.
THEOREM NamesAreNumbered == Spec => []Numbered
<1>1. Init => Numbered
  BY DEF Init, Numbered
<1>2. TypeOK /\ Numbered /\ [Next]_vars => Numbered'
  <2> SUFFICES ASSUME TypeOK, Numbered, [Next]_vars PROVE Numbered'
    OBVIOUS
  <2>1. CASE UNCHANGED <<temp_counter, issued>>
    BY <2>1 DEF Numbered
  <2>2. ASSUME NEW n \in Name, NEW k \in DeclKind, AddNamed(n, k)
        PROVE  Numbered'
    <3> DEFINE id == temp_counter + 1
               llvm == generate_unique_name(n, id)
    <3>1. temp_counter' = id /\ issued' = Append(issued, llvm)
      BY <2>2 DEF AddNamed
    <3>2. llvm.base = n /\ (n \in LongName \/ llvm.id = id)
      BY DEF generate_unique_name
    <3>3. id \in Nat /\ issued \in Seq(LlvmName) /\ Len(issued) + 1 = id
      BY DEF TypeOK, Numbered
    <3> HIDE DEF llvm, id
    <3>4. /\ Len(issued') = id
          /\ \A i \in 1 .. Len(issued) : issued'[i] = issued[i]
          /\ issued'[id] = llvm
      BY <3>1, <3>3
    <3>5. DOMAIN issued' = 1 .. Len(issued) + 1
      BY <3>1, <3>3
    <3> QED
      BY <3>1, <3>2, <3>3, <3>4, <3>5 DEF Numbered
  <2>3. ASSUME NEW n \in Name, NEW k \in DeclKind, add_symbol(n, k)
        PROVE  AddNamed(n, k) \/ UNCHANGED <<temp_counter, issued>>
    BY <2>3 DEF add_symbol, AddPlain
  <2> QED
    BY <2>1, <2>2, <2>3 DEF Next, vars, enter_scope, exit_scope, AddPlain,
       add_enum_constant, add_label, set_current_function, destroy_symbol_table
<1> QED
  BY <1>1, <1>2, LevelInvariance, PTL DEF Spec

\* Where no identifier fills the buffer, no two variables share a name.
THEOREM NameUniqueness ==
    ASSUME LongName = {}
    PROVE  Spec => []UniqueNames
<1>1. Numbered => UniqueNames
  BY DEF Numbered, UniqueNames
<1> QED
  BY <1>1, NamesAreNumbered, PTL

\* The counter, and with it every generated name, keeps its type.
THEOREM TypeInvariance == Spec => []TypeOK
BY LevelInvariance, PTL

-------------------------------------------------------------------------------
\* What a lookup answers.

\* In a sound scope, a lookup answers the symbol of that name, if there is one.
LEMMA LookupInScope ==
    ASSUME NEW scope \in Scope, NEW global, SoundScope(scope, global),
           NEW n \in Name
    PROVE  /\ find_symbol_in_scope(scope, n) # NoSymbol <=> n \in NamesIn(scope)
           /\ n \in NamesIn(scope) =>
                  /\ find_symbol_in_scope(scope, n) \in Symbol
                  /\ find_symbol_in_scope(scope, n).name = n
<1> DEFINE chain == scope.buckets[Hash[n]]
<1>1. Hash[n] \in Bucket /\ chain \in Seq(Symbol)
  BY HashAssumption DEF Scope
<1>2. ASSUME \E i \in DOMAIN chain : chain[i].name = n
      PROVE  /\ find_symbol_in_scope(scope, n) \in Symbol
             /\ find_symbol_in_scope(scope, n).name = n
  <2>1. find_symbol_in_scope(scope, n) = chain[FirstNamed(chain, n)]
    BY <1>2 DEF find_symbol_in_scope
  <2> HIDE DEF chain
  <2> QED
    BY <1>1, <1>2, <2>1, FirstNamedFinds
<1>3. ASSUME ~ \E i \in DOMAIN chain : chain[i].name = n
      PROVE  find_symbol_in_scope(scope, n) = NoSymbol
  BY <1>3 DEF find_symbol_in_scope
<1>4. (\E i \in DOMAIN chain : chain[i].name = n) <=> n \in NamesIn(scope)
  <2>1. ASSUME NEW i \in DOMAIN chain, chain[i].name = n
        PROVE  n \in NamesIn(scope)
    BY <1>1, <2>1 DEF NamesIn
  <2>2. ASSUME n \in NamesIn(scope)
        PROVE  \E i \in DOMAIN chain : chain[i].name = n
    <3>1. PICK b \in Bucket : \E j \in DOMAIN scope.buckets[b] :
              n = scope.buckets[b][j].name
      BY <2>2 DEF NamesIn
    <3>2. Hash[n] = b
      BY <3>1 DEF SoundScope
    <3> QED
      BY <3>1, <3>2
  <2> QED
    BY <2>1, <2>2
<1> HIDE DEF chain
<1> QED
  BY <1>2, <1>3, <1>4, NoSymbolAssumption

\* find_symbol answers what the innermost map that has the name says, for every
\* hash function: symbols of other names in the same bucket do not matter.
THEOREM LookupInvariance == Spec => []LookupAgrees
<1>1. LevelInv /\ ChainsAreSound => LookupAgrees
  <2> SUFFICES ASSUME LevelInv, ChainsAreSound, NEW n \in Name
               PROVE  find_symbol(n) =
                          IF Map!IsVisible(AbstractStack, n)
                          THEN Map!Resolve(AbstractStack, n) ELSE NoSymbol
    BY DEF LookupAgrees
  <2> DEFINE T == Found(scopes, n)
  <2>1. /\ scopes \in Seq(Scope)
        /\ \A i \in DOMAIN scopes : SoundScope(scopes[i], i = 1)
    BY SoundScopes DEF LevelInv, TypeOK
  <2>2. /\ DOMAIN AbstractStack = DOMAIN scopes
        /\ \A i \in DOMAIN scopes : AbstractStack[i] = AsMap(scopes[i])
    BY DEF AbstractStack
  <2>3. \A i \in DOMAIN scopes :
            find_symbol_in_scope(scopes[i], n) # NoSymbol
                <=> n \in DOMAIN AsMap(scopes[i])
    <3> SUFFICES ASSUME NEW i \in DOMAIN scopes
                 PROVE  find_symbol_in_scope(scopes[i], n) # NoSymbol
                            <=> n \in DOMAIN AsMap(scopes[i])
      OBVIOUS
    <3>1. scopes[i] \in Scope /\ SoundScope(scopes[i], i = 1)
      BY <2>1
    <3>2. find_symbol_in_scope(scopes[i], n) # NoSymbol
              <=> n \in NamesIn(scopes[i])
      BY <3>1, LookupInScope
    <3> QED
      BY <3>2 DEF AsMap
  <2>4. Map!Declares(AbstractStack, n) = T
    BY <2>2, <2>3 DEF Map!Declares, Found
  <2>5. CASE T = {}
    BY <2>4, <2>5, FindSymbol DEF Seen, Map!IsVisible
  <2>6. CASE T # {}
    <3>1. Inner(T) \in DOMAIN scopes /\ n \in DOMAIN AsMap(scopes[Inner(T)])
      <4>1. Inner(T) \in T
        BY <2>1, <2>6, InnerFound, Zenon
      <4> QED
        BY <2>3, <4>1 DEF Found
    <3>2. Map!IsVisible(AbstractStack, n)
      BY <2>4, <2>6 DEF Map!IsVisible
    <3>3. Map!Resolve(AbstractStack, n) = AbstractStack[Inner(T)][n]
      BY <2>4 DEF Map!Resolve, Inner
    <3>4. AbstractStack[Inner(T)][n] =
              find_symbol_in_scope(scopes[Inner(T)], n)
      BY <2>2, <3>1 DEF AsMap
    <3>5. find_symbol(n) = find_symbol_in_scope(scopes[Inner(T)], n)
      BY <2>6, FindSymbol DEF Seen
    <3> QED
      BY <3>2, <3>3, <3>4, <3>5
  <2> QED
    BY <2>5, <2>6
<1> QED
  BY <1>1, LevelInvariance, ChainInvariance, PTL DEF LevelInv

\* The chain as it was when its i innermost scopes had not been entered.
Outer(ss, i) == SubSeq(ss, 1, i)

\* Only the scopes of the prefix matter to it.
LEMMA SameOuter ==
    ASSUME NEW ss \in Seq(Scope), NEW tt \in Seq(Scope), NEW i \in Nat,
           i <= Len(ss), i <= Len(tt),
           \A j \in 1 .. i : ss[j] = tt[j]
    PROVE  Outer(ss, i) = Outer(tt, i)
BY DEF Outer

LEMMA AllOuter ==
    ASSUME NEW ss \in Seq(Scope)
    PROVE  Outer(ss, Len(ss)) = ss
BY DEF Outer

\* The inductive form of ExitRevealsOuter: what was noted at the entry of a
\* scope is still what a lookup in the scopes around it answers, because every
\* declaration goes to the current scope.
Remembered ==
    scopes # <<>> =>
        /\ Len(meant) = Len(scopes) - 1
        /\ \A i \in 1 .. Len(scopes) - 1 :
              meant[i] = [n \in Name |-> Seen(Outer(scopes, i), n)]

\* No operation inside a scope, nor in the scopes nested in it, changes what the
\* names meant when it was entered.
THEOREM EntriesAreRemembered == Spec => []Remembered
<1>1. Init => Remembered
  BY DEF Init, Remembered
<1>2. LevelInv /\ Remembered /\ [Next]_vars => Remembered'
  <2> SUFFICES ASSUME LevelInv, Remembered, [Next]_vars PROVE Remembered'
    OBVIOUS
  <2>0. /\ scopes \in Seq(Scope) /\ Len(scopes) \in Nat
        /\ meant \in Seq([Name -> Symbol \cup {NoSymbol}])
    BY DEF LevelInv, TypeOK
  <2>1. CASE enter_scope
    <3> DEFINE new == NewScope(scope_counter + 1)
               now == [n \in Name |-> find_symbol(n)]
    <3>1. /\ scopes # <<>> /\ new \in Scope
          /\ scopes' = Append(scopes, new) /\ meant' = Append(meant, now)
      BY <2>1, NewScopeType DEF enter_scope, LevelInv, TypeOK
    <3>2. Len(meant) = Len(scopes) - 1
      BY <3>1 DEF Remembered
    <3>3. now = [n \in Name |-> Seen(scopes, n)]
      BY FindSymbol
    <3> HIDE DEF new, now
    <3>4. /\ scopes' \in Seq(Scope) /\ Len(scopes') = Len(scopes) + 1
          /\ \A j \in 1 .. Len(scopes) : scopes'[j] = scopes[j]
      BY <2>0, <3>1
    <3>5. /\ Len(meant') = Len(scopes)
          /\ meant'[Len(scopes)] = now
          /\ \A i \in 1 .. Len(scopes) - 1 : meant'[i] = meant[i]
      BY <2>0, <3>1, <3>2
    <3>6. ASSUME NEW i \in 1 .. Len(scopes)
          PROVE  Outer(scopes', i) = Outer(scopes, i)
      <4>1. /\ i \in Nat /\ i <= Len(scopes) /\ i <= Len(scopes')
            /\ \A j \in 1 .. i : scopes'[j] = scopes[j]
        BY <2>0, <3>4
      <4> QED
        BY <2>0, <3>4, <4>1, SameOuter
    <3>7. Outer(scopes, Len(scopes)) = scopes
      BY <2>0, AllOuter
    <3>8. ASSUME NEW i \in 1 .. Len(scopes)
          PROVE  meant'[i] = [n \in Name |-> Seen(Outer(scopes', i), n)]
      <4>1. CASE i = Len(scopes)
        BY <3>3, <3>5, <3>6, <3>7, <4>1
      <4>2. CASE i # Len(scopes)
        <5>1. i \in 1 .. Len(scopes) - 1
          BY <2>0, <4>2
        <5> QED
          BY <3>1, <3>5, <3>6, <5>1 DEF Remembered
      <4> QED
        BY <4>1, <4>2
    <3> QED
      BY <2>0, <3>4, <3>5, <3>8 DEF Remembered
  <2>2. CASE exit_scope
    <3>1. /\ Len(scopes) > 1 /\ scopes' \in Seq(Scope)
          /\ Len(scopes') = Len(scopes) - 1
          /\ \A i \in 1 .. Len(scopes) - 1 : scopes'[i] = scopes[i]
      BY <2>0, <2>2, ExitDropsLast
    <3>2. scopes # <<>> /\ meant' = SubSeq(meant, 1, Len(meant) - 1)
      BY <2>2 DEF exit_scope
    <3>3. Len(meant) = Len(scopes) - 1
      BY <3>2 DEF Remembered
    <3>4. /\ Len(meant') = Len(scopes) - 2
          /\ \A i \in 1 .. Len(scopes) - 2 : meant'[i] = meant[i]
      BY <2>0, <3>1, <3>2, <3>3
    <3>5. ASSUME NEW i \in 1 .. Len(scopes) - 2
          PROVE  Outer(scopes', i) = Outer(scopes, i)
      <4>1. /\ i \in Nat /\ i <= Len(scopes) /\ i <= Len(scopes')
            /\ \A j \in 1 .. i : scopes'[j] = scopes[j]
        BY <2>0, <3>1
      <4> QED
        BY <2>0, <3>1, <4>1, SameOuter
    <3>6. \A i \in 1 .. Len(scopes) - 2 : i \in 1 .. Len(scopes) - 1
      BY <2>0
    <3>7. \A i \in 1 .. Len(scopes) - 2 :
              meant'[i] = [n \in Name |-> Seen(Outer(scopes', i), n)]
      BY <3>2, <3>4, <3>5, <3>6 DEF Remembered
    <3> QED
      BY <2>0, <3>1, <3>4, <3>7 DEF Remembered
  <2>3. CASE \/ \E n \in Name, k \in DeclKind : add_symbol(n, k)
             \/ \E n \in Name, v \in EnumValue : add_enum_constant(n, v)
             \/ \E l \in Name : add_label(l)
    <3>1. PICK s \in Symbol : Adds(s)
      BY <2>3, AddingSteps DEF LevelInv
    <3>2. /\ scopes' \in Seq(Scope) /\ Len(scopes') = Len(scopes)
          /\ scopes # <<>> /\ UNCHANGED meant
      BY <3>1, PushType DEF Adds, LevelInv
    <3>3. \A i \in 1 .. Len(scopes) - 1 : scopes'[i] = scopes[i]
      BY <2>0, <3>1 DEF Adds, Push
    <3>4. ASSUME NEW i \in 1 .. Len(scopes) - 1
          PROVE  Outer(scopes', i) = Outer(scopes, i)
      <4>1. /\ i \in Nat /\ i <= Len(scopes) /\ i <= Len(scopes')
            /\ \A j \in 1 .. i : scopes'[j] = scopes[j]
        BY <2>0, <3>2, <3>3
      <4> QED
        BY <2>0, <3>2, <4>1, SameOuter
    <3> QED
      BY <3>2, <3>4 DEF Remembered
  <2>4. CASE UNCHANGED <<scopes, meant>>
    BY <2>4 DEF Remembered
  <2>5. CASE destroy_symbol_table
    BY <2>5 DEF destroy_symbol_table, Remembered
  <2> QED
    BY <2>1, <2>2, <2>3, <2>4, <2>5 DEF Next, vars, set_current_function
<1> QED
  BY <1>1, <1>2, LevelInvariance, PTL DEF Spec, LevelInv

\* Only exit_scope shortens a chain that is not destroyed.
LEMMA OnlyExitShortens ==
    ASSUME LevelInv, Next, scopes' # <<>>, Len(scopes') < Len(scopes)
    PROVE  exit_scope
<1>1. scopes \in Seq(Scope) /\ Len(scopes) \in Nat
  BY DEF LevelInv, TypeOK
<1>2. ~ enter_scope
  <2> SUFFICES ASSUME enter_scope PROVE FALSE
    OBVIOUS
  <2> DEFINE new == NewScope(scope_counter + 1)
  <2>1. scopes' = Append(scopes, new)
    BY DEF enter_scope
  <2> HIDE DEF new
  <2>2. Len(scopes') = Len(scopes) + 1
    BY <1>1, <2>1
  <2> QED
    BY <1>1, <2>2
<1>3. ~ \/ \E m \in Name, k \in DeclKind : add_symbol(m, k)
        \/ \E m \in Name, v \in EnumValue : add_enum_constant(m, v)
        \/ \E l \in Name : add_label(l)
  <2> SUFFICES ASSUME \/ \E m \in Name, k \in DeclKind : add_symbol(m, k)
                      \/ \E m \in Name, v \in EnumValue :
                             add_enum_constant(m, v)
                      \/ \E l \in Name : add_label(l)
               PROVE  FALSE
    OBVIOUS
  <2>1. PICK s \in Symbol : Adds(s)
    BY AddingSteps DEF LevelInv
  <2>2. Len(scopes') = Len(scopes)
    BY <2>1, PushType DEF Adds, LevelInv
  <2> QED
    BY <1>1, <2>2
<1>4. ~ \E f \in Name \cup {NoFunction} : set_current_function(f)
  BY <1>1 DEF set_current_function
<1>5. ~ destroy_symbol_table
  BY DEF destroy_symbol_table
<1> QED
  BY <1>2, <1>3, <1>4, <1>5 DEF Next

\* Where a scope is left, every name means again what it meant when the scope
\* was entered.
THEOREM ExitReveals == Spec => ExitRevealsOuter
<1> DEFINE Reveals ==
        (scopes' # <<>> /\ Len(scopes') < Len(scopes)) =>
            \A n \in Name : find_symbol(n)' = meant[Len(meant)][n]
<1>1. LevelInv /\ Remembered /\ [Next]_vars => [Reveals]_vars
  <2> SUFFICES ASSUME LevelInv, Remembered, Next, scopes' # <<>>,
                      Len(scopes') < Len(scopes), NEW n \in Name
               PROVE  find_symbol(n)' = meant[Len(meant)][n]
    OBVIOUS
  <2> DEFINE last == Len(scopes) - 1
  <2>1. exit_scope /\ scopes \in Seq(Scope)
    BY OnlyExitShortens DEF LevelInv, TypeOK
  <2>2. /\ Len(scopes) \in Nat /\ Len(scopes) > 1 /\ scopes # <<>>
        /\ scopes' = Outer(scopes, last)
    BY <2>1, ExitDropsLast DEF exit_scope, Outer
  <2>3. Len(meant) = last /\ last \in 1 .. last
    BY <2>2 DEF Remembered
  <2>4. meant[last] = [m \in Name |-> Seen(Outer(scopes, last), m)]
    BY <2>2, <2>3 DEF Remembered
  <2>5. find_symbol(n)' = Seen(scopes', n)
    BY FindSymbol
  <2> QED
    BY <2>2, <2>3, <2>4, <2>5
<1> QED
  BY <1>1, LevelInvariance, EntriesAreRemembered, PTL
     DEF Spec, LevelInv, ExitRevealsOuter

-------------------------------------------------------------------------------
\* The table as a stack of maps.

Maps(ss) == [i \in DOMAIN ss |-> AsMap(ss[i])]
ScopeMap == {AsMap(scope) : scope \in Scope}

LEMMA MapsProperties ==
    ASSUME NEW ss \in Seq(Scope)
    PROVE  /\ Maps(ss) \in Seq(ScopeMap)
           /\ Len(Maps(ss)) = Len(ss)
           /\ \A i \in 1 .. Len(ss) : Maps(ss)[i] = AsMap(ss[i])
           /\ ss = <<>> <=> Maps(ss) = <<>>
<1> DEFINE f == Maps(ss)
<1>1. Len(ss) \in Nat /\ DOMAIN ss = 1 .. Len(ss)
  OBVIOUS
<1>2. f = [i \in 1 .. Len(ss) |-> AsMap(ss[i])]
  BY <1>1 DEF Maps
<1>3. \A i \in 1 .. Len(ss) : AsMap(ss[i]) \in ScopeMap
  BY <1>1 DEF ScopeMap
<1>4. f \in Seq(ScopeMap)
  BY <1>1, <1>2, <1>3, IsASeq
<1>5. DOMAIN f = 1 .. Len(ss)
  BY <1>2
<1>6. Len(f) = Len(ss)
  BY <1>1, <1>4, <1>5, LenProperties
<1>7. \A i \in 1 .. Len(ss) : f[i] = AsMap(ss[i])
  BY <1>2
<1> HIDE DEF f
<1>8. ss = <<>> <=> f = <<>>
  BY <1>4, <1>6, EmptySeq
<1> QED
  BY <1>4, <1>6, <1>7, <1>8 DEF f

\* A new scope is a map with no name in it.
LEMMA NewScopeMap ==
    ASSUME NEW lvl
    PROVE  AsMap(NewScope(lvl)) = Map!EmptyScope
<1>1. NamesIn(NewScope(lvl)) = {}
  BY DEF NamesIn, NewScope, EmptyBuckets
<1> QED
  BY <1>1 DEF AsMap, Map!EmptyScope

LEMMA MapsAppend ==
    ASSUME NEW ss \in Seq(Scope), NEW lvl \in Nat
    PROVE  Maps(Append(ss, NewScope(lvl))) = Append(Maps(ss), Map!EmptyScope)
<1> DEFINE new == NewScope(lvl)
           ts == Append(ss, new)
           n == Len(ss)
           e == Map!EmptyScope
<1>1. new \in Scope /\ AsMap(new) = e
  BY NewScopeType, NewScopeMap
<1> HIDE DEF new, e
<1>2. /\ ts \in Seq(Scope) /\ Len(ts) = n + 1 /\ n \in Nat
      /\ \A i \in 1 .. n : ts[i] = ss[i]
      /\ ts[n + 1] = new
  BY <1>1, AppendProperties
<1>3. e \in ScopeMap
  BY <1>1 DEF ScopeMap
<1> DEFINE f == Maps(ss)
           g == Maps(ts)
<1> HIDE DEF ts, n
<1>4. /\ f \in Seq(ScopeMap) /\ Len(f) = n
      /\ \A i \in 1 .. n : f[i] = AsMap(ss[i])
  BY MapsProperties DEF n
<1>5. /\ g \in Seq(ScopeMap) /\ Len(g) = n + 1
      /\ \A i \in 1 .. n + 1 : g[i] = AsMap(ts[i])
  BY <1>2, MapsProperties
<1> HIDE DEF f, g
<1> DEFINE h == Append(f, e)
<1>6. /\ h \in Seq(ScopeMap) /\ Len(h) = n + 1
      /\ \A i \in 1 .. n : h[i] = f[i]
      /\ h[n + 1] = e
  BY <1>3, <1>4, AppendProperties
<1> HIDE DEF h
<1>7. \A i \in 1 .. n + 1 : g[i] = h[i]
  <2> SUFFICES ASSUME NEW i \in 1 .. n + 1 PROVE g[i] = h[i]
    OBVIOUS
  <2>1. CASE i = n + 1
    BY <1>1, <1>2, <1>5, <1>6, <2>1
  <2>2. CASE i # n + 1
    <3>1. i \in 1 .. n
      BY <1>2, <2>2
    <3> QED
      BY <1>2, <1>4, <1>5, <1>6, <3>1
  <2> QED
    BY <2>1, <2>2
<1>8. g = h
  BY <1>5, <1>6, <1>7, SeqEqual
<1> QED
  BY <1>8 DEF g, h, f, ts, new, e

LEMMA MapsDropLast ==
    ASSUME NEW ss \in Seq(Scope), NEW ts \in Seq(Scope), Len(ss) > 1,
           Len(ts) = Len(ss) - 1,
           \A i \in 1 .. Len(ss) - 1 : ts[i] = ss[i]
    PROVE  Maps(ts) = Map!Closed(Maps(ss))
<1> DEFINE n == Len(ss)
           f == Maps(ss)
           g == Maps(ts)
           h == SubSeq(f, 1, n - 1)
<1>1. n \in Nat /\ n > 1
  OBVIOUS
<1>2. /\ f \in Seq(ScopeMap) /\ Len(f) = n
      /\ \A i \in 1 .. n : f[i] = AsMap(ss[i])
      /\ g \in Seq(ScopeMap) /\ Len(g) = n - 1
      /\ \A i \in 1 .. n - 1 : g[i] = AsMap(ts[i])
  BY MapsProperties
<1>3. \A i \in 1 .. n - 1 : ts[i] = ss[i] /\ i \in 1 .. n
  BY <1>1
<1>4. Map!Closed(f) = h
  BY <1>1, <1>2 DEF Map!Closed
<1> HIDE DEF n, f, g
<1>5. /\ h \in Seq(ScopeMap) /\ Len(h) = n - 1
      /\ \A i \in 1 .. n - 1 : h[i] = f[i]
  BY <1>1, <1>2, SubSeqProperties
<1> HIDE DEF h
<1>6. \A i \in 1 .. Len(g) : g[i] = h[i]
  BY <1>2, <1>3, <1>5
<1>7. g = h
  BY <1>2, <1>5, <1>6, SeqEqual
<1> QED
  BY <1>4, <1>7 DEF f, g

\* A symbol of a sound scope is what a lookup of its name answers.
LEMMA LookupIs ==
    ASSUME NEW scope \in Scope, NEW global, SoundScope(scope, global),
           NEW b \in Bucket, NEW j \in DOMAIN scope.buckets[b]
    PROVE  find_symbol_in_scope(scope, scope.buckets[b][j].name) =
               scope.buckets[b][j]
<1> DEFINE chain == scope.buckets[b]
           n == chain[j].name
           i == FirstNamed(chain, n)
<1>1. Hash[n] = b /\ chain \in Seq(Symbol)
  BY DEF SoundScope, Scope
<1>2. find_symbol_in_scope(scope, n) = chain[i]
  BY <1>1 DEF find_symbol_in_scope
<1>3. \A k, l \in DOMAIN chain : chain[k].name = chain[l].name => k = l
  BY DEF SoundScope
<1> HIDE DEF chain
<1>4. i \in DOMAIN chain /\ chain[i].name = n
  BY <1>1, FirstNamedFinds DEF chain
<1> HIDE DEF i
<1>5. i = j
  BY <1>3, <1>4 DEF chain
<1> QED
  BY <1>2, <1>5 DEF chain

\* Pushing a symbol adds one name to the map, and answers no other name anew.
LEMMA PushedMap ==
    ASSUME NEW scope \in Scope, NEW s \in Symbol, NEW global \in BOOLEAN,
           SoundScope(scope, global),
           find_symbol_in_scope(scope, s.name) = NoSymbol,
           s.scope_level = scope.level, s.is_global = global
    PROVE  /\ s.name \notin NamesIn(scope)
           /\ AsMap(Pushed(scope, s)) = Map!Extended(AsMap(scope), s.name, s)
<1> DEFINE h == Hash[s.name]
           old == scope.buckets[h]
           new == <<s>> \o old
           q == Pushed(scope, s)
<1>1. s.name \in Name /\ h \in Bucket
  BY HashAssumption DEF Symbol
<1>2. old \in Seq(Symbol)
  BY <1>1 DEF Scope
<1>3. q \in Scope /\ SoundScope(q, global)
  BY PushedType, PushedIsSound
<1>4. /\ q.buckets[h] = new
      /\ \A b \in Bucket : b # h => q.buckets[b] = scope.buckets[b]
  BY <1>1 DEF Pushed, Scope
<1>5. /\ DOMAIN new = 1 .. Len(old) + 1 /\ DOMAIN old = 1 .. Len(old)
      /\ new[1] = s /\ 1 \in DOMAIN new /\ Len(old) \in Nat
      /\ \A i \in 2 .. Len(old) + 1 : i - 1 \in DOMAIN old /\ new[i] = old[i - 1]
      /\ \A i \in DOMAIN old : i + 1 \in DOMAIN new /\ new[i + 1] = old[i]
  <2>1. DOMAIN old = 1 .. Len(old) /\ Len(old) \in Nat
    BY <1>2
  <2>2. /\ DOMAIN new = 1 .. Len(old) + 1 /\ new[1] = s
        /\ \A i \in 1 .. Len(old) : new[i + 1] = old[i]
    BY <1>2
  <2> HIDE DEF new, old
  <2>3. \A i \in 2 .. Len(old) + 1 : i - 1 \in 1 .. Len(old) /\ (i - 1) + 1 = i
    BY <2>1
  <2>4. \A i \in 1 .. Len(old) : i + 1 \in 1 .. Len(old) + 1
    BY <2>1
  <2> QED
    BY <2>1, <2>2, <2>3, <2>4
<1> HIDE DEF old, new, q
<1>6. s.name \notin NamesIn(scope)
  BY <1>1, LookupInScope
<1>7. find_symbol_in_scope(q, s.name) = s
  BY <1>1, <1>3, <1>4, <1>5, LookupIs
<1>8. s.name \in NamesIn(q)
  <2>1. 1 \in DOMAIN q.buckets[h] /\ q.buckets[h][1] = s /\ h \in Bucket
    BY <1>1, <1>4, <1>5
  <2> HIDE DEF h
  <2>2. s.name \in {q.buckets[h][j].name : j \in DOMAIN q.buckets[h]}
    BY <2>1
  <2> QED
    BY <2>1, <2>2 DEF NamesIn
<1>9. ASSUME NEW n \in NamesIn(scope)
      PROVE  /\ n \in NamesIn(q)
             /\ find_symbol_in_scope(q, n) = find_symbol_in_scope(scope, n)
  <2>1. PICK b \in Bucket : \E j \in DOMAIN scope.buckets[b] :
            n = scope.buckets[b][j].name
    BY DEF NamesIn
  <2>2. PICK j \in DOMAIN scope.buckets[b] : n = scope.buckets[b][j].name
    BY <2>1
  <2>3. \E k \in DOMAIN q.buckets[b] : q.buckets[b][k] = scope.buckets[b][j]
    <3>1. CASE b = h
      BY <1>4, <1>5, <2>2, <3>1 DEF old
    <3>2. CASE b # h
      BY <1>4, <2>2, <3>2
    <3> QED
      BY <3>1, <3>2
  <2>4. PICK k \in DOMAIN q.buckets[b] : q.buckets[b][k] = scope.buckets[b][j]
    BY <2>3
  <2>5. n \in NamesIn(q)
    BY <2>2, <2>4 DEF NamesIn
  <2>6. find_symbol_in_scope(q, n) = q.buckets[b][k]
    BY <1>3, <2>2, <2>4, LookupIs
  <2>7. find_symbol_in_scope(scope, n) = scope.buckets[b][j]
    BY <2>2, LookupIs
  <2> QED
    BY <2>4, <2>5, <2>6, <2>7
<1>10. ASSUME NEW n \in NamesIn(q)
       PROVE  n = s.name \/ n \in NamesIn(scope)
  <2>1. PICK b \in Bucket : \E j \in DOMAIN q.buckets[b] :
            n = q.buckets[b][j].name
    BY DEF NamesIn
  <2>2. PICK j \in DOMAIN q.buckets[b] : n = q.buckets[b][j].name
    BY <2>1
  <2>3. CASE b # h
    BY <1>4, <2>2, <2>3 DEF NamesIn
  <2>4. CASE b = h
    <3>1. j = 1 \/ j \in 2 .. Len(old) + 1
      BY <1>4, <1>5, <2>2, <2>4
    <3>2. CASE j = 1
      BY <1>4, <1>5, <2>2, <2>4, <3>2
    <3>3. CASE j \in 2 .. Len(old) + 1
      <4>1. j - 1 \in DOMAIN old /\ n = old[j - 1].name
        BY <1>4, <1>5, <2>2, <2>4, <3>3
      <4> QED
        BY <1>1, <4>1 DEF NamesIn, old
    <3> QED
      BY <3>1, <3>2, <3>3
  <2> QED
    BY <2>3, <2>4
<1>11. NamesIn(q) = NamesIn(scope) \cup {s.name}
  BY <1>8, <1>9, <1>10
<1>12. DOMAIN AsMap(scope) = NamesIn(scope)
  BY DEF AsMap
<1>13. \A n \in NamesIn(scope) \cup {s.name} :
           find_symbol_in_scope(q, n) =
               IF n = s.name THEN s ELSE AsMap(scope)[n]
  BY <1>6, <1>7, <1>9 DEF AsMap
<1>14. AsMap(q) = Map!Extended(AsMap(scope), s.name, s)
  BY <1>11, <1>12, <1>13 DEF AsMap, Map!Extended
<1> QED
  BY <1>6, <1>14 DEF q

-------------------------------------------------------------------------------
\* Every operation of the table is one of the map.

LEMMA StackIsMaps == AbstractStack = Maps(scopes)
BY DEF AbstractStack, Maps

\* A name that was not given out before, where none is cut.
LEMMA FreshName ==
    ASSUME TypeOK, IsLive, Numbered, LongName = {},
           NEW n \in Name, NEW k \in Kind, AddNamed(n, k)
    PROVE  LET llvm == generate_unique_name(n, temp_counter + 1)
           IN  llvm \notin IssuedNames /\ IssuedNames' = IssuedNames \cup {llvm}
<1> DEFINE id == temp_counter + 1
           llvm == generate_unique_name(n, id)
<1>1. llvm \in LlvmName /\ issued' = Append(issued, llvm)
  BY LlvmNameType DEF AddNamed, TypeOK
<1>2. llvm.id = id
  BY DEF generate_unique_name
<1> HIDE DEF llvm
<1>3. /\ Len(issued) \in Nat /\ DOMAIN issued = 1 .. Len(issued)
      /\ DOMAIN issued' = 1 .. Len(issued) + 1
      /\ \A i \in 1 .. Len(issued) : issued'[i] = issued[i]
      /\ issued'[Len(issued) + 1] = llvm
  BY <1>1, AppendProperties DEF TypeOK
<1>4. id = Len(issued) + 1 /\ \A i \in DOMAIN issued : issued[i].id = i
  BY DEF Numbered
<1>5. \A i \in DOMAIN issued : issued[i] # llvm
  BY <1>2, <1>3, <1>4
<1>6. llvm \notin IssuedNames
  BY <1>5 DEF IssuedNames
<1>7. IssuedNames' = IssuedNames \cup {llvm}
  <2>1. /\ \A i \in 1 .. Len(issued) : i \in 1 .. Len(issued) + 1
        /\ \A i \in 1 .. Len(issued) + 1 :
               i = Len(issued) + 1 \/ i \in 1 .. Len(issued)
        /\ Len(issued) + 1 \in 1 .. Len(issued) + 1
    BY <1>3
  <2> QED
    BY <1>3, <2>1 DEF IssuedNames
<1> QED
  BY <1>6, <1>7 DEF llvm

\* Whether the symbol that is added takes a generated name.
NamesOnce(s) ==
    IF s.kind \in NamedKind
    THEN /\ s.llvm_name \notin IssuedNames
         /\ IssuedNames' = IssuedNames \cup {s.llvm_name}
    ELSE UNCHANGED IssuedNames

LEMMA AddingNames ==
    ASSUME TypeOK, Numbered, LongName = {},
           \/ \E n \in Name, k \in DeclKind : add_symbol(n, k)
           \/ \E n \in Name, v \in EnumValue : add_enum_constant(n, v)
           \/ \E l \in Name : add_label(l)
    PROVE  \E s \in Symbol : Adds(s) /\ NamesOnce(s)
<1>1. ASSUME NEW n \in Name, NEW k \in DeclKind, add_symbol(n, k),
             k \in NamedKind
      PROVE  \E s \in Symbol : Adds(s) /\ NamesOnce(s)
  <2> DEFINE llvm == generate_unique_name(n, temp_counter + 1)
             s == NewSymbol(n, k, llvm)
  <2>1. k \in Kind /\ IsLive /\ AddNamed(n, k)
    BY <1>1, KindAssumption DEF add_symbol
  <2>2. llvm \in LlvmName
    BY <2>1, LlvmNameType DEF TypeOK
  <2>3. s \in Symbol
    BY <2>1, <2>2, NewSymbolType
  <2>4. /\ s.name = n /\ s.scope_level = current_scope.level
        /\ s.is_global = AtGlobal /\ s.llvm_name = llvm
    BY DEF NewSymbol
  <2>5. Push(s)
    BY <2>1 DEF AddNamed
  <2>6. llvm \notin IssuedNames /\ IssuedNames' = IssuedNames \cup {llvm}
    BY <2>1, FreshName
  <2> HIDE DEF s, llvm
  <2>7. Adds(s)
    BY <1>1, <2>4, <2>5 DEF Adds, add_symbol
  <2>8. NamesOnce(s)
    <3>1. s.kind = k
      BY DEF NewSymbol, s
    <3> QED
      BY <1>1, <2>4, <2>6, <3>1 DEF NamesOnce
  <2> QED
    BY <2>3, <2>7, <2>8
<1>2. ASSUME NEW s \in Symbol, NEW n \in Name, s.name = n,
             s.kind \notin NamedKind, IsLive, IsNew(n), AddPlain(s),
             s.scope_level = current_scope.level, s.is_global = AtGlobal,
             UNCHANGED <<scope_counter, current_function, meant>>
      PROVE  \E t \in Symbol : Adds(t) /\ NamesOnce(t)
  <2>1. Adds(s)
    BY <1>2 DEF Adds, AddPlain
  <2>2. UNCHANGED IssuedNames
    BY <1>2 DEF AddPlain, IssuedNames
  <2> QED
    BY <1>2, <2>1, <2>2 DEF NamesOnce
<1>3. ASSUME NEW n \in Name, NEW k \in DeclKind, add_symbol(n, k),
             k \notin NamedKind
      PROVE  \E s \in Symbol : Adds(s) /\ NamesOnce(s)
  <2> DEFINE s == NewSymbol(n, k, PlainName(n))
  <2>1. /\ IsLive /\ IsNew(n) /\ AddPlain(s)
        /\ UNCHANGED <<scope_counter, current_function, meant>>
    BY <1>3 DEF add_symbol
  <2>2. s \in Symbol
    BY <2>1, KindAssumption, AddPlainType
  <2>3. /\ s.name = n /\ s.scope_level = current_scope.level
        /\ s.is_global = AtGlobal /\ s.kind = k
    BY DEF NewSymbol
  <2> HIDE DEF s
  <2> QED
    BY <1>2, <1>3, <2>1, <2>2, <2>3
<1>4. ASSUME NEW n \in Name, NEW v \in EnumValue, add_enum_constant(n, v)
      PROVE  \E s \in Symbol : Adds(s) /\ NamesOnce(s)
  <2> DEFINE e == NewSymbol(n, "ENUM_CONSTANT", PlainName(n))
             s == [e EXCEPT !.enum_value = v]
  <2>1. /\ IsLive /\ IsNew(n) /\ AddPlain(s)
        /\ UNCHANGED <<scope_counter, current_function, meant>>
    BY <1>4 DEF add_enum_constant
  <2>2. s \in Symbol
    BY <2>1, AddPlainType DEF Kind
  <2>3. /\ s.name = n /\ s.scope_level = current_scope.level
        /\ s.is_global = AtGlobal /\ s.kind = "ENUM_CONSTANT"
    BY DEF NewSymbol
  <2> HIDE DEF s
  <2>4. s.kind \notin NamedKind
    BY <2>3 DEF NamedKind
  <2> QED
    BY <1>2, <2>1, <2>2, <2>3, <2>4
<1>5. ASSUME NEW n \in Name, add_label(n)
      PROVE  \E s \in Symbol : Adds(s) /\ NamesOnce(s)
  <2> DEFINE e == NewSymbol(n, "LABEL", PlainName(n))
             s == [e EXCEPT !.label_defined = 1]
  <2>1. /\ IsLive /\ IsNew(n) /\ AddPlain(s)
        /\ UNCHANGED <<scope_counter, current_function, meant>>
    BY <1>5 DEF add_label
  <2>2. s \in Symbol
    BY <2>1, AddPlainType DEF Kind
  <2>3. /\ s.name = n /\ s.scope_level = current_scope.level
        /\ s.is_global = AtGlobal /\ s.kind = "LABEL"
    BY DEF NewSymbol
  <2> HIDE DEF s
  <2>4. s.kind \notin NamedKind
    BY <2>3 DEF NamedKind
  <2> QED
    BY <1>2, <2>1, <2>2, <2>3, <2>4
<1> QED
  BY <1>1, <1>3, <1>4, <1>5

\* Adding a symbol is a declaration of the map.
LEMMA AddingDeclares ==
    ASSUME LevelInv, ChainsAreSound, NEW s \in Symbol, Adds(s), NamesOnce(s)
    PROVE  Map!Declare(s.name)
<1> DEFINE n == Len(scopes)
           cur == scopes[n]
           new == Pushed(cur, s)
           f == Maps(scopes)
           g == Maps(scopes')
           e == Map!Extended(f[n], s.name, s)
<1>1. /\ scopes \in Seq(Scope) /\ n \in Nat \ {0} /\ n \in 1 .. n
      /\ Len(scopes) = n /\ DOMAIN scopes = 1 .. n /\ cur = scopes[n]
      /\ cur \in Scope /\ SoundScope(cur, n = 1)
  <2>1. /\ scopes \in Seq(Scope) /\ scopes # <<>>
        /\ \A i \in DOMAIN scopes : SoundScope(scopes[i], i = 1)
    BY SoundScopes DEF LevelInv, TypeOK, Adds
  <2>2. n \in Nat \ {0}
    BY <2>1, EmptySeq
  <2>3. n \in 1 .. n /\ DOMAIN scopes = 1 .. n
    BY <2>1, <2>2
  <2>4. cur \in Scope
    BY <2>1, <2>3
  <2>5. SoundScope(cur, n = 1)
    BY <2>1, <2>3
  <2> QED
    BY <2>1, <2>2, <2>3, <2>4, <2>5
<1>2. /\ scopes' = [scopes EXCEPT ![n] = new]
      /\ find_symbol_in_scope(cur, s.name) = NoSymbol
      /\ s.scope_level = cur.level /\ s.is_global = (n = 1)
  BY DEF Adds, IsNew, Push
<1>3. /\ s.name \notin NamesIn(cur)
      /\ AsMap(new) = Map!Extended(AsMap(cur), s.name, s)
      /\ new \in Scope
  BY <1>1, <1>2, PushedMap, PushedType
<1> HIDE DEF new, n, cur
<1>4. /\ scopes' \in Seq(Scope) /\ Len(scopes') = n
      /\ scopes'[n] = new
      /\ \A i \in 1 .. n : i # n => scopes'[i] = scopes[i]
  BY <1>1, <1>2, <1>3, ExceptSeq
<1>5. /\ f \in Seq(ScopeMap) /\ Len(f) = n /\ f # <<>>
      /\ \A i \in 1 .. n : f[i] = AsMap(scopes[i])
  <2>1. scopes # <<>>
    BY DEF Adds
  <2> QED
    BY <1>1, <2>1, MapsProperties
<1>6. /\ g \in Seq(ScopeMap) /\ Len(g) = n /\ g # <<>>
      /\ \A i \in 1 .. n : g[i] = AsMap(scopes'[i])
  <2>1. scopes' # <<>>
    <3>1. Len(<<>>) = 0 /\ n # 0
      BY <1>1
    <3> QED
      BY <1>4, <3>1
  <2> QED
    BY <1>4, <2>1, MapsProperties
<1> HIDE DEF f, g
<1>7. f[n] = AsMap(cur) /\ g[n] = e /\ DOMAIN f[n] = NamesIn(cur)
  <2>1. f[n] = AsMap(cur) /\ g[n] = AsMap(new)
    BY <1>1, <1>4, <1>5, <1>6
  <2>2. DOMAIN AsMap(cur) = NamesIn(cur)
    BY DEF AsMap
  <2>3. g[n] = Map!Extended(AsMap(cur), s.name, s)
    BY <1>3, <2>1
  <2> QED
    BY <2>1, <2>2, <2>3
<1> HIDE DEF e
<1>8. e \in ScopeMap
  BY <1>1, <1>6, <1>7
<1>9. g = [f EXCEPT ![n] = e]
  <2> DEFINE h == [f EXCEPT ![n] = e]
  <2>1. DOMAIN f = 1 .. n
    BY <1>5
  <2>2. /\ h \in Seq(ScopeMap) /\ Len(h) = n
        /\ h[n] = e /\ \A i \in 1 .. n : i # n => h[i] = f[i]
    BY <1>1, <1>5, <1>8, <2>1, ExceptSeq
  <2> HIDE DEF h
  <2>3. \A i \in 1 .. Len(g) : g[i] = h[i]
    BY <1>4, <1>5, <1>6, <1>7, <2>2
  <2>4. g = h
    BY <1>6, <2>2, <2>3, SeqEqual
  <2> QED
    BY <2>4 DEF h
<1>10. /\ s.name \in DOMAIN g[n] /\ g[n][s.name] = s
  BY <1>7 DEF e, Map!Extended
<1>11. g = Map!Bound(f, s.name, s)
  <2>1. e = Map!Extended(f[n], s.name, s)
    BY DEF e
  <2> QED
    BY <1>5, <1>9, <2>1 DEF Map!Bound
<1>12. AbstractStack = f /\ AbstractStack' = g
  BY DEF AbstractStack, Maps, f, g
<1>13. Map!Current(f) = f[n] /\ Map!Current(g) = g[n]
  BY <1>5, <1>6 DEF Map!Current
<1>14. s.name \notin DOMAIN f[n]
  BY <1>3, <1>7
<1>15. IF s.kind \in NamedKind
       THEN /\ s.llvm_name \notin IssuedNames
            /\ IssuedNames' = IssuedNames \cup {s.llvm_name}
       ELSE UNCHANGED IssuedNames
  BY DEF NamesOnce
<1> HIDE DEF f, g, e, n
<1> QED
  BY <1>5, <1>6, <1>10, <1>11, <1>12, <1>13, <1>14, <1>15 DEF Map!Declare

\* The hash table of chains implements the stack of maps: seen through its
\* lookups, every step of the table opens or closes a scope, declares one name
\* that the current scope did not have, with an LLVM name never given out
\* before, discards everything, or changes nothing.  (Where no identifier fills
\* the buffer of its LLVM name.)
THEOREM Refinement ==
    ASSUME LongName = {}
    PROVE  Spec => ImplementsScopedMap
<1>1. Init => Map!Init
  <2> SUFFICES ASSUME Init PROVE Map!Init
    OBVIOUS
  <2> DEFINE e == Map!EmptyScope
             new == NewScope(0)
             none == <<>>
  <2>1. none \in Seq(Scope) /\ scopes = Append(none, new) /\ Len(none) = 0
    BY DEF Init
  <2>2. AbstractStack = Append(Maps(none), e)
    <3>1. Maps(Append(none, new)) = Append(Maps(none), e)
      BY <2>1, MapsAppend
    <3> QED
      BY <2>1, <3>1, StackIsMaps
  <2>3. Maps(none) = <<>>
    <3>1. none = <<>>
      OBVIOUS
    <3> HIDE DEF none
    <3> QED
      BY <2>1, <3>1, MapsProperties
  <2> HIDE DEF e
  <2>4. AbstractStack = <<e>>
    <3>1. AbstractStack = Append(<<>>, e)
      BY <2>2, <2>3
    <3>2. Append(<<>>, e) = <<e>>
      OBVIOUS
    <3> QED
      BY <3>1, <3>2
  <2>5. IssuedNames = {}
    BY DEF Init, IssuedNames
  <2> QED
    BY <2>4, <2>5 DEF Map!Init, Map!GlobalOnly, e
<1>2. LevelInv /\ ChainsAreSound /\ Numbered /\ [Next]_vars
          => [Map!Next]_(Map!vars)
  <2> SUFFICES ASSUME LevelInv, ChainsAreSound, Numbered, [Next]_vars
               PROVE  Map!Next \/ UNCHANGED <<AbstractStack, IssuedNames>>
    BY DEF Map!vars
  <2>0. scopes \in Seq(Scope) /\ scope_counter + 1 \in Nat
    BY DEF LevelInv, TypeOK
  <2>1. CASE UNCHANGED <<scopes, issued>>
    BY <2>1 DEF AbstractStack, AsMap, NamesIn, IssuedNames
  <2>2. CASE enter_scope
    <3>1. /\ scopes' = Append(scopes, NewScope(scope_counter + 1))
          /\ scopes # <<>> /\ UNCHANGED issued
      BY <2>2 DEF enter_scope
    <3>2. AbstractStack # <<>>
      BY <2>0, <3>1, MapsProperties, StackIsMaps
    <3>3. AbstractStack' = Append(AbstractStack, Map!EmptyScope)
      <4>1. AbstractStack' = Maps(scopes')
        BY DEF AbstractStack, Maps
      <4> QED
        BY <2>0, <3>1, <4>1, MapsAppend, StackIsMaps
    <3>4. UNCHANGED IssuedNames
      BY <3>1 DEF IssuedNames
    <3> QED
      BY <3>2, <3>3, <3>4 DEF Map!Next, Map!Open, Map!Opened
  <2>3. CASE exit_scope
    <3>1. /\ Len(scopes) > 1 /\ scopes' \in Seq(Scope)
          /\ Len(scopes') = Len(scopes) - 1
          /\ \A i \in 1 .. Len(scopes) - 1 : scopes'[i] = scopes[i]
      BY <2>0, <2>3, ExitDropsLast
    <3>2. scopes # <<>> /\ UNCHANGED issued
      BY <2>3 DEF exit_scope
    <3>3. AbstractStack # <<>>
      BY <2>0, <3>2, MapsProperties, StackIsMaps
    <3>4. AbstractStack' = Map!Closed(AbstractStack)
      <4>1. AbstractStack' = Maps(scopes')
        BY DEF AbstractStack, Maps
      <4> QED
        BY <2>0, <3>1, <4>1, MapsDropLast, StackIsMaps
    <3>5. UNCHANGED IssuedNames
      BY <3>2 DEF IssuedNames
    <3> QED
      BY <3>3, <3>4, <3>5 DEF Map!Next, Map!Close
  <2>4. CASE \/ \E n \in Name, k \in DeclKind : add_symbol(n, k)
             \/ \E n \in Name, v \in EnumValue : add_enum_constant(n, v)
             \/ \E l \in Name : add_label(l)
    <3>1. PICK s \in Symbol : Adds(s) /\ NamesOnce(s)
      BY <2>4, AddingNames DEF LevelInv
    <3>2. s.name \in Name /\ Map!Declare(s.name)
      BY <3>1, AddingDeclares DEF Symbol
    <3> QED
      BY <3>2 DEF Map!Next
  <2>5. CASE \E f \in Name \cup {NoFunction} : set_current_function(f)
    BY <2>1, <2>5 DEF set_current_function
  <2>6. CASE destroy_symbol_table
    <3>1. scopes # <<>> /\ scopes' = <<>> /\ UNCHANGED issued
      BY <2>6 DEF destroy_symbol_table
    <3>2. AbstractStack # <<>>
      BY <2>0, <3>1, MapsProperties, StackIsMaps
    <3>3. AbstractStack' = <<>>
      <4>1. AbstractStack' = Maps(scopes')
        BY DEF AbstractStack, Maps
      <4>2. Maps(<<>>) = <<>>
        <5> DEFINE none == <<>>
        <5>1. none \in Seq(Scope) /\ none = <<>>
          OBVIOUS
        <5> HIDE DEF none
        <5> QED
          BY <5>1, MapsProperties
      <4> QED
        BY <3>1, <4>1, <4>2
    <3>4. UNCHANGED IssuedNames
      BY <3>1 DEF IssuedNames
    <3> QED
      BY <3>2, <3>3, <3>4 DEF Map!Next, Map!Discard
  <2>7. CASE UNCHANGED vars
    BY <2>1, <2>7 DEF vars
  <2> QED
    BY <2>2, <2>3, <2>4, <2>5, <2>6, <2>7 DEF Next
<1> QED
  BY <1>1, <1>2, LevelInvariance, ChainInvariance, NamesAreNumbered, PTL
     DEF Spec, LevelInv, ImplementsScopedMap, Map!Spec
===============================================================================
