---------------------------- MODULE TwoPassProofs ----------------------------
(***************************************************************************)
(* Proofs about TwoPass: for every set of programs, whatever is nested in  *)
(* what, both passes give back every scope and every copy of               *)
(* in_return_block, and the code generator comes upon no name that the     *)
(* analysis has not looked up.                                             *)
(***************************************************************************)
EXTENDS TwoPass, Recurrences, FiniteSetTheorems, FunctionTheorems

-------------------------------------------------------------------------------
\* The trees of the source, and the AST the parser makes of each.

\* What the fields of a tree are, by its kind.
LEMMA TreeKinds ==
    ASSUME NEW s \in Trees
    PROVE  /\ s.k \in {"expr", "decls", "block", "if", "while", "do", "switch", "for",
                       "label", "goto", "enum", "jump", "function"}
           /\ s.k = "decls" => s \in [k : {"decls"}, ds : Seq(Declarators)]
           /\ s.k = "block" => s \in [k : {"block"}, items : Seq(Trees)]
  BY TreesAssumption DEF Productions

LEMMA NoNodeIsNoTree == NoNode \notin Trees
  BY TreeKinds DEF NoNode

LEMMA BranchTypes ==
    ASSUME NEW s \in Trees
    PROVE  /\ s.k = "if" =>
                s \in [k : {"if"}, cond : Seq(References), yes : Trees \cup {NoNode},
                       no : Trees \cup {NoNode}]
           /\ s.k \in {"while", "do", "switch"} =>
                s \in [k : {"while", "do", "switch"}, cond : Seq(References),
                       body : Trees \cup {NoNode}]
           /\ s.k = "for" =>
                s \in [k : {"for"}, init : Trees \cup {NoNode}, cond : Seq(References),
                       update : Seq(References), body : Trees \cup {NoNode}]
           /\ s.k = "label" =>
                s \in [k : {"label"}, n : STRING, at : Nat, body : Trees \cup {NoNode}]
           /\ s.k = "function" =>
                s \in [k : {"function"}, n : STRING, at : Nat, params : Seq(Declarators),
                       body : {t \in Trees : t.k = "block"} \cup {NoNode}]
  BY TreesAssumption DEF Productions

LEMMA LeafTypes ==
    ASSUME NEW s \in Trees
    PROVE  /\ s.k = "expr" => s \in [k : {"expr"}, uses : Seq(References)]
           /\ s.k = "goto" => s \in [k : {"goto", "enum"}, n : STRING, at : Nat]
           /\ s.k = "enum" => s \in [k : {"goto", "enum"}, n : STRING, at : Nat]
           /\ s.k = "jump" => s \in [k : {"jump"}]
  BY TreesAssumption DEF Productions

LEMMA PartsAreTrees ==
    ASSUME NEW s \in Trees
    PROVE  PartsOf(s) \subseteq Trees
<1>1. CASE s.k = "block"
  BY <1>1, TreeKinds DEF PartsOf, ToSet
<1>2. CASE s.k \in {"if", "for"}
  BY <1>2, BranchTypes DEF PartsOf
<1>3. CASE s.k \in {"while", "do", "switch", "label", "function"}
  BY <1>3, BranchTypes DEF PartsOf
<1> QED
  BY <1>1, <1>2, <1>3 DEF PartsOf

\* The AST of a tree, where f gives that of its parts.
Part(f, t) == IF t = NoNode THEN NoNode ELSE f[t]
Built(f, s) ==
    LET decl(i) == [k |-> "declaration", d |-> s.ds[i]]
        part(t) == IF t = NoNode THEN NoNode ELSE f[t]
    IN  CASE s.k = "enum" -> NoNode
          [] s.k = "decls" ->
                IF Len(s.ds) = 1
                THEN decl(1)
                ELSE [k |-> "compound", items |-> [i \in DOMAIN s.ds |-> decl(i)]]
          [] s.k = "block" ->
                [k |-> "compound",
                 items |-> Spliced([i \in DOMAIN s.items |-> f[s.items[i]]])]
          [] s.k = "if" -> [s EXCEPT !.yes = part(@), !.no = part(@)]
          [] s.k \in {"while", "do", "switch", "label", "function"} ->
                [s EXCEPT !.body = part(@)]
          [] s.k = "for" -> [s EXCEPT !.init = part(@), !.body = part(@)]
          [] s.k \in {"expr", "goto", "jump"} -> s

\* It depends on nothing else of f.
LEMMA PartsDecide ==
    ASSUME NEW s \in Trees, NEW f, NEW g, \A p \in PartsOf(s) : f[p] = g[p]
    PROVE  Built(f, s) = Built(g, s)
<1>1. CASE s.k = "block"
  <2>1. \A i \in DOMAIN s.items : s.items[i] \in PartsOf(s)
    BY <1>1, TreeKinds, NoNodeIsNoTree DEF PartsOf, ToSet
  <2>2. [i \in DOMAIN s.items |-> f[s.items[i]]] = [i \in DOMAIN s.items |-> g[s.items[i]]]
    BY <2>1, Zenon
  <2> QED
    BY <1>1, <2>2 DEF Built
<1>2. CASE s.k = "if"
  <2>1. Part(f, s.yes) = Part(g, s.yes) /\ Part(f, s.no) = Part(g, s.no)
    BY <1>2 DEF PartsOf, Part
  <2> QED
    BY <1>2, <2>1 DEF Built, Part
<1>3. CASE s.k = "for"
  <2>1. Part(f, s.init) = Part(g, s.init) /\ Part(f, s.body) = Part(g, s.body)
    BY <1>3 DEF PartsOf, Part
  <2> QED
    BY <1>3, <2>1 DEF Built, Part
<1>4. CASE s.k \in {"while", "do", "switch", "label", "function"}
  <2>1. Part(f, s.body) = Part(g, s.body)
    BY <1>4 DEF PartsOf, Part
  <2> QED
    BY <1>4, <2>1 DEF Built, Part
<1>5. CASE s.k \in {"expr", "goto", "jump", "enum", "decls"}
  BY <1>5 DEF Built
<1> QED
  BY <1>1, <1>2, <1>3, <1>4, <1>5, TreeKinds

\* The trees below a height, and a function that is right about them.
Below(h) == {s \in Trees : Height[s] < h}
Builds(f, h) == f = [s \in Below(h) |-> Built(f, s)]

LEMMA BelowParts ==
    ASSUME NEW h \in Nat, NEW s \in Below(h + 1)
    PROVE  PartsOf(s) \subseteq Below(h)
<1>1. s \in Trees /\ Height[s] \in Nat /\ Height[s] < h + 1
  BY HeightAssumption DEF Below
<1>2. ASSUME NEW p \in PartsOf(s) PROVE p \in Below(h)
  <2>1. p \in Trees /\ Height[p] \in Nat /\ Height[p] < Height[s]
    BY <1>1, PartsAreTrees, HeightAssumption
  <2> QED
    BY <1>1, <2>1 DEF Below
<1> QED
  BY <1>2

\* Such functions agree where both are defined ...
LEMMA BuildersAgree ==
    ASSUME NEW h \in Nat, NEW j \in Nat, NEW f, NEW g, Builds(f, h), Builds(g, j)
    PROVE  \A s \in Below(h) \cap Below(j) : f[s] = g[s]
<1> DEFINE T == {Height[s] : s \in {t \in Below(h) \cap Below(j) : f[t] # g[t]}}
<1>1. SUFFICES T = {}
  BY Zenon
<1>2. SUFFICES ASSUME T # {} PROVE FALSE
  OBVIOUS
<1>3. T \in SUBSET Nat
  BY HeightAssumption DEF Below
<1>4. PICK x \in T : \A y \in T : x <= y
  <2> HIDE DEF T
  <2> QED
    BY <1>2, <1>3, LeastElement
<1>5. PICK s \in Below(h) \cap Below(j) : f[s] # g[s] /\ Height[s] = x
  BY <1>4
<1>6. ASSUME NEW p \in PartsOf(s) PROVE f[p] = g[p]
  <2>1. s \in Trees /\ Height[s] \in Nat /\ Height[s] < h /\ Height[s] < j
    BY HeightAssumption DEF Below
  <2>2. p \in Trees /\ Height[p] \in Nat /\ Height[p] < Height[s]
    BY <2>1, PartsAreTrees, HeightAssumption
  <2>3. p \in Below(h) \cap Below(j)
    BY <2>1, <2>2 DEF Below
  <2>4. SUFFICES ASSUME f[p] # g[p] PROVE FALSE
    OBVIOUS
  <2>5. Height[p] \in T
    BY <2>3, <2>4
  <2>6. x <= Height[p]
    BY <1>4, <2>5
  <2> QED
    BY <1>5, <2>1, <2>2, <2>6
<1>7. s \in Trees
  BY DEF Below
<1>8. Built(f, s) = Built(g, s)
  BY <1>6, <1>7, PartsDecide
<1>9. f[s] = Built(f, s) /\ g[s] = Built(g, s)
  BY DEF Builds
<1> QED
  BY <1>5, <1>8, <1>9

\* ... and there is one for every height.
LEMMA BuildersExist ==
    ASSUME NEW h \in Nat
    PROVE  \E f : Builds(f, h)
<1> DEFINE T == {i \in 0 .. h : \E f : Builds(f, i)}
<1>1. \E f : Builds(f, 0)
  <2> DEFINE f == [s \in {} |-> s]
  <2>1. Below(0) = {}
    BY HeightAssumption DEF Below
  <2>2. f = [s \in {} |-> Built(f, s)]
    OBVIOUS
  <2>3. Builds(f, 0)
    BY <2>1, <2>2, Zenon DEF Builds
  <2> QED
    BY <2>3, Zenon
<1>2. ASSUME NEW i \in 1 .. h, \E f : Builds(f, i - 1) PROVE \E f : Builds(f, i)
  <2>1. PICK g : Builds(g, i - 1)
    BY <1>2
  <2>2. i - 1 \in Nat /\ (i - 1) + 1 = i
    OBVIOUS
  <2> DEFINE f == [s \in Below(i) |-> Built(g, s)]
  <2>3. ASSUME NEW s \in Below(i) PROVE Built(g, s) = Built(f, s)
    <3>1. PartsOf(s) \subseteq Below(i - 1) /\ s \in Trees
      BY <2>2, BelowParts DEF Below
    <3>2. ASSUME NEW p \in PartsOf(s) PROVE g[p] = f[p]
      <4>1. p \in Below(i - 1) /\ p \in Below(i)
        BY <3>1, <3>2, HeightAssumption DEF Below
      <4>2. g[p] = Built(g, p)
        BY <2>1, <4>1 DEF Builds
      <4> QED
        BY <4>1, <4>2
    <3> HIDE DEF f
    <3> QED
      BY <3>1, <3>2, PartsDecide
  <2>4. f = [s \in Below(i) |-> Built(f, s)]
    BY <2>3, Zenon
  <2>5. Builds(f, i)
    BY <2>4, Zenon DEF Builds
  <2> QED
    BY <2>5, Zenon
<1>3. T = 0 .. h
  <2>1. T \in SUBSET (0 .. h) /\ 0 \in T
    BY <1>1
  <2>2. ASSUME NEW i \in 0 + 1 .. h, i - 1 \in T PROVE i \in T
    BY <1>2, <2>2
  <2> HIDE DEF T
  <2> QED
    BY <2>1, <2>2, Stretch
<1> QED
  BY <1>3

\* So the parser's function is what its definition says.
LEMMA AstUnfolds ==
    \A s \in Trees : Ast[s] = Built(Ast, s)
<1> DEFINE Of(h) == CHOOSE f : Builds(f, h)
           F == [s \in Trees |-> Of(Height[s] + 1)[s]]
           P(f) == f = [s \in Trees |-> Built(f, s)]
<1>1. \A h \in Nat : Builds(Of(h), h)
  BY BuildersExist, Zenon
<1>2. ASSUME NEW s \in Trees PROVE F[s] = Built(F, s)
  <2> DEFINE h == Height[s] + 1
  <2>1. h \in Nat /\ s \in Below(h) /\ Height[s] \in Nat
    BY HeightAssumption DEF Below
  <2>2. Of(h)[s] = Built(Of(h), s)
    <3> HIDE DEF Of
    <3> QED
      BY <1>1, <2>1 DEF Builds
  <2>3. ASSUME NEW p \in PartsOf(s) PROVE Of(h)[p] = F[p]
    <3>1. p \in Trees /\ Height[p] \in Nat /\ Height[p] < Height[s]
      BY PartsAreTrees, HeightAssumption
    <3> DEFINE i == Height[p] + 1
    <3>2. i \in Nat /\ p \in Below(i) /\ p \in Below(h)
      BY <3>1, <2>1 DEF Below
    <3>3. Builds(Of(i), i) /\ Builds(Of(h), h)
      BY <1>1, <2>1, <3>2, Zenon
    <3>4. Of(h)[p] = Of(i)[p]
      <4> HIDE DEF Of, i, h
      <4> QED
        BY <2>1, <3>2, <3>3, BuildersAgree
    <3> QED
      BY <3>1, <3>4
  <2>4. Built(Of(h), s) = Built(F, s)
    <3> HIDE DEF Of, F, h
    <3> QED
      BY <2>3, PartsDecide
  <2>5. F[s] = Of(h)[s]
    OBVIOUS
  <2> HIDE DEF F, Of, h
  <2> QED
    BY <2>2, <2>4, <2>5
<1>3. P(F)
  <2>1. F = [s \in Trees |-> F[s]]
    OBVIOUS
  <2> HIDE DEF F
  <2> QED
    BY <1>2, <2>1
<1>4. Ast = CHOOSE f : P(f)
  BY Zenon DEF Ast, Built
<1> HIDE DEF P
<1>5. P(Ast)
  BY <1>3, <1>4, Zenon
<1> QED
  BY <1>5 DEF P

-------------------------------------------------------------------------------
\* The nodes of the AST.

Declarations == [k : {"declaration"}, d : Declarators]
Branching(N) ==
    LET part == N \cup {NoNode}
    IN  [k : {"if"}, cond : Seq(References), yes : part, no : part]
        \cup [k : {"while", "do", "switch"}, cond : Seq(References), body : part]
        \cup [k : {"for"}, init : part, cond : Seq(References),
              update : Seq(References), body : part]
        \cup [k : {"label"}, n : STRING, at : Nat, body : part]
        \cup [k : {"function"}, n : STRING, at : Nat, params : Seq(Declarators),
              body : {t \in N : t.k = "compound"} \cup {NoNode}]
Shapes(N) ==
    [k : {"expr"}, uses : Seq(References)]
    \cup Declarations
    \cup [k : {"compound"}, items : Seq(N)]
    \cup Branching(N)
    \cup [k : {"goto"}, n : STRING, at : Nat]
    \cup [k : {"jump"}]
Nodes == ({Ast[s] : s \in Trees} \ {NoNode}) \cup Declarations

\* Lists put one after another are a list.
LEMMA Flattened ==
    ASSUME NEW N, NEW seqs \in Seq(Seq(N))
    PROVE  FlattenSeq(seqs) \in Seq(N)
<1>1. CASE Len(seqs) = 0
  <2>1. seqs = <<>>
    BY <1>1
  <2>2. FlattenSeq(seqs) = seqs
    BY <1>1, Zenon DEF FlattenSeq
  <2>3. seqs \in Seq(N)
    BY <2>1
  <2> QED
    BY <2>2, <2>3, Zenon
<1>2. CASE Len(seqs) # 0
  <2> DEFINE m == Len(seqs)
             S == Seq(N)
             G == [p \in (2 .. m) \X S |-> p[2] \o seqs[p[1]]]
             P(f) == f = [i \in 1 .. m |-> IF i = 1 THEN seqs[i] ELSE f[i - 1] \o seqs[i]]
  <2>1. m \in Nat /\ 1 <= m /\ \A i \in 1 .. m : seqs[i] \in S
    BY <1>2
  <2>2. G \in [(2 .. m) \X S -> S]
    <3>1. ASSUME NEW i \in 2 .. m, NEW q \in S PROVE q \o seqs[i] \in S
      BY <2>1
    <3> QED
      BY <3>1
  <2>3. \A i \in 2 .. m : \A q \in S : G[<<i, q>>] = q \o seqs[i]
    OBVIOUS
  <2>4. seqs[1] \in S
    BY <2>1
  <2> HIDE DEF G, m, S
  <2>5. PICK f \in [1 .. m -> S] : Follows(f, 1, m, seqs[1], G)
    <3>1. 1 + 1 .. m = 2 .. m /\ 1 \in Nat
      OBVIOUS
    <3>2. G \in [(1 + 1 .. m) \X S -> S]
      BY <2>2, <3>1
    <3> QED
      BY <2>1, <2>4, <3>1, <3>2, Recursion
  <2>6. P(f)
    <3>1. ASSUME NEW i \in 1 .. m
          PROVE  (IF i = 1 THEN seqs[1] ELSE G[<<i, f[i - 1]>>])
                    = (IF i = 1 THEN seqs[i] ELSE f[i - 1] \o seqs[i])
      <4>1. CASE i = 1
        BY <4>1
      <4>2. CASE i # 1
        <5>1. i \in 2 .. m /\ i - 1 \in 1 .. m
          BY <4>2, <2>1
        <5> QED
          BY <4>2, <5>1, <2>3
      <4> QED
        BY <4>1, <4>2
    <3>2. [i \in 1 .. m |-> IF i = 1 THEN seqs[1] ELSE G[<<i, f[i - 1]>>]]
             = [i \in 1 .. m |-> IF i = 1 THEN seqs[i] ELSE f[i - 1] \o seqs[i]]
      BY <3>1, Zenon
    <3> QED
      BY <2>5, <3>2, Zenon DEF Follows
  <2> DEFINE h == CHOOSE g : P(g)
  <2>7. FlattenSeq(seqs) = h[m]
    BY <1>2, Zenon DEF FlattenSeq, m
  <2>8. P(h)
    <3> HIDE DEF P
    <3> QED
      BY <2>6, Zenon
  <2> HIDE DEF h
  <2>9. h = [i \in 1 .. m |-> IF i = 1 THEN seqs[i] ELSE h[i - 1] \o seqs[i]]
    BY <2>8
  <2> HIDE DEF P
  <2> DEFINE T == {i \in 1 .. m : h[i] \in S}
  <2>10. T = 1 .. m
    <3>1. T \in SUBSET (1 .. m) /\ 1 \in T
      BY <2>1, <2>4, <2>9
    <3>2. ASSUME NEW i \in 1 + 1 .. m, i - 1 \in T PROVE i \in T
      <4>1. i \in 1 .. m /\ i # 1 /\ h[i - 1] \in S
        BY <2>1, <3>2
      <4>2. h[i] = h[i - 1] \o seqs[i]
        BY <2>9, <4>1
      <4>3. h[i - 1] \o seqs[i] \in S
        BY <4>1, <2>1 DEF S
      <4> QED
        BY <4>1, <4>2, <4>3
    <3> HIDE DEF T
    <3> QED
      BY <2>1, <3>1, <3>2, Stretch
  <2>11. h[m] \in S
    BY <2>1, <2>10
  <2> QED
    BY <2>7, <2>11, Zenon DEF S
<1> QED
  BY <1>1, <1>2

\* What the parser makes of a tree is a node, or nothing.
LEMMA Spliceable ==
    ASSUME NEW list \in Seq(Nodes \cup {NoNode}),
           \A i \in DOMAIN list : list[i] \in Shapes(Nodes) \cup {NoNode}
    PROVE  Spliced(list) \in Seq(Nodes)
<1> DEFINE q == [i \in DOMAIN list |-> Items(list[i])]
<1>1. ASSUME NEW i \in DOMAIN list PROVE Items(list[i]) \in Seq(Nodes)
  <2>1. CASE list[i] = NoNode
    BY <2>1 DEF Items
  <2>2. CASE list[i] # NoNode /\ list[i].k = "compound"
    <3>1. list[i] \in Shapes(Nodes)
      BY <2>2
    <3>2. list[i].items \in Seq(Nodes)
      BY <2>2, <3>1 DEF Shapes, Branching, Declarations
    <3> QED
      BY <2>2, <3>2 DEF Items
  <2>3. CASE list[i] # NoNode /\ list[i].k # "compound"
    <3>1. list[i] \in Nodes
      BY <2>3
    <3> QED
      BY <2>3, <3>1 DEF Items
  <2> QED
    BY <2>1, <2>2, <2>3
<1>2. q \in Seq(Seq(Nodes))
  <2>1. DOMAIN list = 1 .. Len(list) /\ Len(list) \in Nat
    OBVIOUS
  <2> QED
    BY <1>1, <2>1
<1> HIDE DEF q
<1>3. FlattenSeq(q) \in Seq(Nodes)
  BY <1>2, Flattened
<1> QED
  BY <1>3 DEF Spliced, q

LEMMA AstIn ==
    ASSUME NEW s \in Trees
    PROVE  Ast[s] \in Nodes \cup {NoNode}
  BY DEF Nodes

LEMMA PartIn ==
    ASSUME NEW t \in Trees \cup {NoNode}
    PROVE  Part(Ast, t) \in Nodes \cup {NoNode}
  BY AstIn, NoNodeIsNoTree DEF Part

LEMMA BlockAst ==
    ASSUME NEW s \in Trees, s.k = "block"
    PROVE  Ast[s].k = "compound" /\ Ast[s] \in Nodes
<1> DEFINE list == [i \in DOMAIN s.items |-> Ast[s.items[i]]]
<1>1. Ast[s] = [k |-> "compound", items |-> Spliced(list)]
  BY AstUnfolds DEF Built
<1> HIDE DEF list
<1>2. Ast[s].k = "compound"
  BY <1>1
<1> QED
  BY <1>2, AstIn DEF NoNode

\* The nodes for statements with others in them.
LEMMA BranchingAst ==
    ASSUME NEW s \in Trees,
           s.k \in {"if", "while", "do", "switch", "for", "label", "function"}
    PROVE  Ast[s] \in Branching(Nodes)
<1>1. Ast[s] = Built(Ast, s)
  BY AstUnfolds
<1>2. CASE s.k = "if"
  <2>1. s \in [k : {"if"}, cond : Seq(References), yes : Trees \cup {NoNode},
               no : Trees \cup {NoNode}]
    BY <1>2, BranchTypes
  <2>2. Part(Ast, s.yes) \in Nodes \cup {NoNode} /\ Part(Ast, s.no) \in Nodes \cup {NoNode}
    BY <2>1, PartIn
  <2>3. Ast[s] = [s EXCEPT !.yes = Part(Ast, @), !.no = Part(Ast, @)]
    BY <1>1, <1>2 DEF Built, Part
  <2>4. Ast[s] \in [k : {"if"}, cond : Seq(References), yes : Nodes \cup {NoNode},
                    no : Nodes \cup {NoNode}]
    BY <2>1, <2>2, <2>3
  <2> QED
    BY <2>4 DEF Branching
<1>3. CASE s.k = "for"
  <2>1. s \in [k : {"for"}, init : Trees \cup {NoNode}, cond : Seq(References),
               update : Seq(References), body : Trees \cup {NoNode}]
    BY <1>3, BranchTypes
  <2>2. Part(Ast, s.init) \in Nodes \cup {NoNode} /\ Part(Ast, s.body) \in Nodes \cup {NoNode}
    BY <2>1, PartIn
  <2>3. Ast[s] = [s EXCEPT !.init = Part(Ast, @), !.body = Part(Ast, @)]
    BY <1>1, <1>3 DEF Built, Part
  <2>4. Ast[s] \in [k : {"for"}, init : Nodes \cup {NoNode}, cond : Seq(References),
                    update : Seq(References), body : Nodes \cup {NoNode}]
    BY <2>1, <2>2, <2>3
  <2> QED
    BY <2>4 DEF Branching
<1>4. CASE s.k \in {"while", "do", "switch"}
  <2>1. s \in [k : {"while", "do", "switch"}, cond : Seq(References),
               body : Trees \cup {NoNode}]
    BY <1>4, BranchTypes
  <2>2. Part(Ast, s.body) \in Nodes \cup {NoNode}
    BY <2>1, PartIn
  <2>3. Ast[s] = [s EXCEPT !.body = Part(Ast, @)]
    BY <1>1, <1>4 DEF Built, Part
  <2>4. Ast[s] \in [k : {"while", "do", "switch"}, cond : Seq(References),
                    body : Nodes \cup {NoNode}]
    BY <2>1, <2>2, <2>3
  <2> QED
    BY <2>4 DEF Branching
<1>5. CASE s.k = "label"
  <2>1. s \in [k : {"label"}, n : STRING, at : Nat, body : Trees \cup {NoNode}]
    BY <1>5, BranchTypes
  <2>2. Part(Ast, s.body) \in Nodes \cup {NoNode}
    BY <2>1, PartIn
  <2>3. Ast[s] = [s EXCEPT !.body = Part(Ast, @)]
    BY <1>1, <1>5 DEF Built, Part
  <2>4. Ast[s] \in [k : {"label"}, n : STRING, at : Nat, body : Nodes \cup {NoNode}]
    BY <2>1, <2>2, <2>3
  <2> QED
    BY <2>4 DEF Branching
<1>6. CASE s.k = "function"
  <2> DEFINE Bodies == {t \in Nodes : t.k = "compound"} \cup {NoNode}
  <2>1. s \in [k : {"function"}, n : STRING, at : Nat, params : Seq(Declarators),
               body : {t \in Trees : t.k = "block"} \cup {NoNode}]
    BY <1>6, BranchTypes
  <2>2. Part(Ast, s.body) \in Bodies
    BY <2>1, BlockAst, NoNodeIsNoTree DEF Part
  <2>3. Ast[s] = [s EXCEPT !.body = Part(Ast, @)]
    BY <1>1, <1>6 DEF Built, Part
  <2> HIDE DEF Bodies
  <2>4. Ast[s] \in [k : {"function"}, n : STRING, at : Nat, params : Seq(Declarators),
                    body : Bodies]
    BY <2>1, <2>2, <2>3
  <2> QED
    BY <2>4 DEF Branching, Bodies
<1> QED
  BY <1>2, <1>3, <1>4, <1>5, <1>6

\* The others, once those within them are done.
LEMMA DeclarationsAst ==
    ASSUME NEW s \in Trees, s.k = "decls"
    PROVE  Ast[s] \in Shapes(Nodes)
<1>1. s.ds \in Seq(Declarators)
  BY TreeKinds
<1> DEFINE decl(i) == [k |-> "declaration", d |-> s.ds[i]]
<1>2. \A i \in DOMAIN s.ds : decl(i) \in Declarations
  BY <1>1 DEF Declarations
<1>3. CASE Len(s.ds) = 1
  <2>1. Ast[s] = decl(1)
    BY <1>3, AstUnfolds DEF Built
  <2>2. 1 \in DOMAIN s.ds
    BY <1>1, <1>3
  <2>3. Ast[s] \in Declarations
    BY <1>2, <2>1, <2>2
  <2> QED
    BY <2>3 DEF Shapes
<1>4. CASE Len(s.ds) # 1
  <2> DEFINE q == [i \in DOMAIN s.ds |-> decl(i)]
  <2>1. Ast[s] = [k |-> "compound", items |-> q]
    BY <1>4, AstUnfolds DEF Built
  <2>2. DOMAIN s.ds = 1 .. Len(s.ds) /\ Len(s.ds) \in Nat
    BY <1>1
  <2>3. \A i \in DOMAIN s.ds : decl(i) \in Nodes
    BY <1>2 DEF Nodes
  <2> HIDE DEF decl
  <2>4. q \in Seq(Nodes)
    BY <2>2, <2>3
  <2> HIDE DEF q
  <2> QED
    BY <2>1, <2>4 DEF Shapes
<1> QED
  BY <1>3, <1>4

LEMMA AstTypes ==
    \A s \in Trees : Ast[s] \in Shapes(Nodes) \cup {NoNode}
<1> DEFINE Wrong == {t \in Trees : Ast[t] \notin Shapes(Nodes) \cup {NoNode}}
           T == {Height[s] : s \in Wrong}
<1>1. SUFFICES ASSUME T # {} PROVE FALSE
  OBVIOUS
<1>2. T \in SUBSET Nat
  BY HeightAssumption
<1>3. PICK x \in T : \A y \in T : x <= y
  <2> HIDE DEF T
  <2> QED
    BY <1>1, <1>2, LeastElement
<1>4. PICK s \in Wrong : Height[s] = x
  BY <1>3
<1>5. ASSUME NEW p \in PartsOf(s) PROVE Ast[p] \in Shapes(Nodes) \cup {NoNode}
  <2>1. p \in Trees /\ Height[p] \in Nat /\ Height[s] \in Nat /\ Height[p] < Height[s]
    BY PartsAreTrees, HeightAssumption
  <2>2. SUFFICES ASSUME p \in Wrong PROVE FALSE
    BY <2>1
  <2>3. Height[p] \in T
    BY <2>2
  <2> QED
    BY <1>3, <1>4, <2>1, <2>3
<1>6. CASE s.k = "block"
  <2> DEFINE list == [i \in DOMAIN s.items |-> Ast[s.items[i]]]
  <2>1. s.items \in Seq(Trees)
    BY <1>6, TreeKinds
  <2>2. \A i \in DOMAIN s.items : s.items[i] \in PartsOf(s)
    BY <1>6, <2>1, NoNodeIsNoTree DEF PartsOf, ToSet
  <2>3. \A i \in DOMAIN list : list[i] \in Shapes(Nodes) \cup {NoNode}
    BY <1>5, <2>2
  <2>4. list \in Seq(Nodes \cup {NoNode})
    BY <2>1, AstIn
  <2>5. Ast[s] = [k |-> "compound", items |-> Spliced(list)]
    BY <1>6, AstUnfolds DEF Built
  <2> HIDE DEF list
  <2>6. Spliced(list) \in Seq(Nodes)
    BY <2>3, <2>4, Spliceable
  <2> HIDE DEF Wrong
  <2>7. Ast[s] \in Shapes(Nodes)
    BY <2>5, <2>6 DEF Shapes
  <2> QED
    BY <2>7 DEF Wrong
<1>7. CASE s.k = "decls"
  BY <1>7, DeclarationsAst
<1>8. CASE s.k \in {"if", "while", "do", "switch", "for", "label", "function"}
  BY <1>8, BranchingAst DEF Shapes
<1>9. CASE s.k = "enum"
  BY <1>9, AstUnfolds DEF Built
<1>10. CASE s.k \in {"expr", "goto", "jump"}
  <2>1. Ast[s] = s
    BY <1>10, AstUnfolds DEF Built
  <2> QED
    BY <1>10, <2>1, LeafTypes DEF Shapes
<1> QED
  BY <1>6, <1>7, <1>8, <1>9, <1>10, TreeKinds

LEMMA NodeTypes == Nodes \subseteq Shapes(Nodes)
  BY AstTypes DEF Nodes, Shapes

LEMMA ItemsAreNodes ==
    ASSUME NEW s \in Trees
    PROVE  Items(Ast[s]) \in Seq(Nodes)
<1>1. CASE Ast[s] = NoNode
  BY <1>1 DEF Items
<1>2. CASE Ast[s] # NoNode
  <2>1. Ast[s] \in Nodes /\ Ast[s] \in Shapes(Nodes)
    BY <1>2, AstIn, NodeTypes
  <2>2. CASE Ast[s].k = "compound"
    <3>1. Ast[s].items \in Seq(Nodes)
      BY <2>1, <2>2 DEF Shapes, Branching, Declarations
    <3> QED
      BY <1>2, <2>2, <3>1 DEF Items
  <2>3. CASE Ast[s].k # "compound"
    BY <1>2, <2>1, <2>3 DEF Items
  <2> QED
    BY <2>2, <2>3
<1> QED
  BY <1>1, <1>2

-------------------------------------------------------------------------------
\* The symbol table: what each operation makes of the stack of scopes.

Symbols == [kind : {"FUNCTION", "VARIABLE", "LABEL", "ENUM_CONSTANT"}, at : Nat, argc : Nat]
Maps == UNION {[S -> Symbols] : S \in SUBSET STRING}
Stacks == {st \in Seq(Maps) : Len(st) >= 1}

LEMMA EmptyIsMap == EmptyScope \in Maps
<1>1. EmptyScope \in [{} -> Symbols]
  BY DEF EmptyScope
<1> QED
  BY <1>1 DEF Maps

LEMMA GlobalIsStack == GlobalOnly \in Stacks /\ Len(GlobalOnly) = 1
  BY EmptyIsMap DEF GlobalOnly, Stacks

LEMMA OpenedStack ==
    ASSUME NEW st \in Stacks
    PROVE  Opened(st) \in Stacks /\ Len(Opened(st)) = Len(st) + 1
  BY EmptyIsMap DEF Opened, Stacks

LEMMA ClosedStack ==
    ASSUME NEW st \in Stacks, Len(st) >= 2
    PROVE  Closed(st) \in Stacks /\ Len(Closed(st)) = Len(st) - 1
<1>1. st \in Seq(Maps) /\ Len(st) \in Nat /\ Len(st) # 1
  BY DEF Stacks
<1>2. Closed(st) = SubSeq(st, 1, Len(st) - 1)
  BY <1>1 DEF Closed
<1>3. SubSeq(st, 1, Len(st) - 1) \in Seq(Maps) /\ Len(SubSeq(st, 1, Len(st) - 1)) = Len(st) - 1
  BY <1>1
<1> QED
  BY <1>1, <1>2, <1>3 DEF Stacks

LEMMA DeclaredStack ==
    ASSUME NEW st \in Stacks, NEW n \in STRING, NEW s \in Symbols
    PROVE  Declared(st, n, s) \in Stacks /\ Len(Declared(st, n, s)) = Len(st)
<1>1. st \in Seq(Maps) /\ Len(st) \in Nat /\ Len(st) \in 1 .. Len(st)
  BY DEF Stacks
<1> DEFINE scope == st[Len(st)]
<1>2. PICK S \in SUBSET STRING : scope \in [S -> Symbols]
  <2>1. scope \in Maps
    BY <1>1
  <2> HIDE DEF scope
  <2> QED
    BY <2>1, Zenon DEF Maps
<1>3. Extended(scope, n, s) \in Maps
  <2> DEFINE D == DOMAIN scope \cup {n}
  <2>1. D \in SUBSET STRING /\ DOMAIN scope = S
    BY <1>2
  <2>2. \A m \in D : m # n => scope[m] \in Symbols
    BY <1>2
  <2> HIDE DEF scope
  <2>3. Extended(scope, n, s) \in [D -> Symbols]
    BY <2>2 DEF Extended
  <2> HIDE DEF D
  <2> QED
    BY <2>1, <2>3 DEF Maps
<1>4. Bound(st, n, s) = [st EXCEPT ![Len(st)] = Extended(scope, n, s)]
  BY DEF Bound
<1> HIDE DEF scope
<1>5. Bound(st, n, s) \in Seq(Maps) /\ Len(Bound(st, n, s)) = Len(st)
  <2> DEFINE e == Extended(scope, n, s)
  <2>1. e \in Maps
    BY <1>3
  <2> HIDE DEF e
  <2>2. [st EXCEPT ![Len(st)] = e] \in Seq(Maps)
    BY <1>1, <2>1
  <2>3. Len([st EXCEPT ![Len(st)] = e]) = Len(st)
    BY <1>1, <2>1
  <2> QED
    BY <1>4, <2>2, <2>3 DEF e
<1> QED
  BY <1>1, <1>5 DEF Declared, Stacks

LEMMA FunctionStack ==
    ASSUME NEW st \in Stacks,
           NEW f, f.n \in STRING, f.at \in Nat, f.params \in Seq(Declarators)
    PROVE  WithFunction(st, f) \in Stacks /\ Len(WithFunction(st, f)) = Len(st)
<1>1. Symbol("FUNCTION", f.at, Len(f.params)) \in Symbols
  BY DEF Symbol, Symbols
<1> QED
  BY <1>1, DeclaredStack DEF WithFunction

LEMMA ParamsStack ==
    ASSUME NEW st \in Stacks, NEW ps \in Seq(Declarators)
    PROVE  WithParams(st, ps) \in Stacks /\ Len(WithParams(st, ps)) = Len(st)
<1> DEFINE m == Len(ps)
           step(t, i) == Declared(t, ps[i].n, Symbol("VARIABLE", ps[i].at, 0))
           G == [p \in (1 .. m) \X Stacks |-> step(p[2], p[1])]
           P(f) == f = [i \in 0 .. m |-> IF i = 0 THEN st ELSE step(f[i - 1], i)]
<1>1. m \in Nat /\ 0 <= m
  OBVIOUS
<1>2. ASSUME NEW i \in 1 .. m, NEW t \in Stacks
      PROVE  step(t, i) \in Stacks /\ Len(step(t, i)) = Len(t)
  <2>1. ps[i] \in Declarators
    OBVIOUS
  <2>2. ps[i].n \in STRING /\ Symbol("VARIABLE", ps[i].at, 0) \in Symbols
    BY <2>1 DEF Symbol, Symbols, Declarators
  <2> QED
    BY <2>2, DeclaredStack
<1> HIDE DEF step, m
<1>3. G \in [(1 .. m) \X Stacks -> Stacks]
  BY <1>2
<1>4. \A i \in 1 .. m : \A t \in Stacks : G[<<i, t>>] = step(t, i)
  OBVIOUS
<1> HIDE DEF G
<1>5. PICK f \in [0 .. m -> Stacks] : Follows(f, 0, m, st, G)
  <2>1. (0 + 1 .. m) = 1 .. m /\ 0 \in Nat
    BY <1>1
  <2> QED
    BY <1>1, <1>3, <2>1, Recursion
<1>6. P(f)
  <2>1. ASSUME NEW i \in 0 .. m
        PROVE  (IF i = 0 THEN st ELSE G[<<i, f[i - 1]>>])
                  = (IF i = 0 THEN st ELSE step(f[i - 1], i))
    <3>1. CASE i = 0
      BY <3>1
    <3>2. CASE i # 0
      <4>1. i \in 1 .. m /\ i - 1 \in 0 .. m
        BY <3>2, <1>1
      <4> QED
        BY <3>2, <4>1, <1>4
    <3> QED
      BY <3>1, <3>2
  <2>2. [i \in 0 .. m |-> IF i = 0 THEN st ELSE G[<<i, f[i - 1]>>]]
           = [i \in 0 .. m |-> IF i = 0 THEN st ELSE step(f[i - 1], i)]
    BY <2>1, Zenon
  <2> QED
    BY <1>5, <2>2, Zenon DEF Follows
<1> DEFINE h == CHOOSE g : P(g)
<1>7. WithParams(st, ps) = h[m]
  BY Zenon DEF WithParams, m, step
<1>8. P(h)
  <2> HIDE DEF P
  <2> QED
    BY <1>6, Zenon
<1> HIDE DEF h
<1>9. h = [i \in 0 .. m |-> IF i = 0 THEN st ELSE step(h[i - 1], i)]
  BY <1>8
<1> HIDE DEF P
<1> DEFINE T == {i \in 0 .. m : h[i] \in Stacks /\ Len(h[i]) = Len(st)}
<1>10. T = 0 .. m
  <2>1. T \in SUBSET (0 .. m) /\ 0 \in T
    BY <1>1, <1>9
  <2>2. ASSUME NEW i \in 0 + 1 .. m, i - 1 \in T PROVE i \in T
    <3>1. i \in 0 .. m /\ i \in 1 .. m /\ i # 0
      BY <1>1, <2>2
    <3>2. h[i] = step(h[i - 1], i)
      BY <1>9, <3>1
    <3>3. h[i - 1] \in Stacks /\ Len(h[i - 1]) = Len(st)
      BY <2>2
    <3> QED
      BY <1>2, <3>1, <3>2, <3>3
  <2> HIDE DEF T
  <2> QED
    BY <1>1, <2>1, <2>2, Stretch
<1>11. h[m] \in Stacks /\ Len(h[m]) = Len(st)
  BY <1>1, <1>10
<1> QED
  BY <1>7, <1>11, Zenon

LEMMA PrototypesStack ==
    ASSUME NEW st \in Stacks, NEW ds \in Seq(Nodes)
    PROVE  WithPrototypes(st, ds) \in Stacks /\ Len(WithPrototypes(st, ds)) = Len(st)
<1> DEFINE m == Len(ds)
           step(t, i) == IF ds[i].k = "function" /\ ds[i].body = NoNode
                         THEN WithFunction(t, ds[i]) ELSE t
           G == [p \in (1 .. m) \X Stacks |-> step(p[2], p[1])]
           P(f) == f = [i \in 0 .. m |-> IF i = 0 THEN st ELSE step(f[i - 1], i)]
<1>1. m \in Nat /\ 0 <= m
  OBVIOUS
<1>2. ASSUME NEW i \in 1 .. m, NEW t \in Stacks
      PROVE  step(t, i) \in Stacks /\ Len(step(t, i)) = Len(t)
  <2>1. ds[i] \in Shapes(Nodes)
    BY NodeTypes
  <2>2. CASE ds[i].k = "function"
    <3>1. ds[i].n \in STRING /\ ds[i].at \in Nat /\ ds[i].params \in Seq(Declarators)
      BY <2>1, <2>2 DEF Shapes, Branching, Declarations
    <3> QED
      BY <3>1, FunctionStack
  <2>3. CASE ds[i].k # "function"
    BY <2>3
  <2> QED
    BY <2>2, <2>3
<1> HIDE DEF step, m
<1>3. G \in [(1 .. m) \X Stacks -> Stacks]
  BY <1>2
<1>4. \A i \in 1 .. m : \A t \in Stacks : G[<<i, t>>] = step(t, i)
  OBVIOUS
<1> HIDE DEF G
<1>5. PICK f \in [0 .. m -> Stacks] : Follows(f, 0, m, st, G)
  <2>1. (0 + 1 .. m) = 1 .. m /\ 0 \in Nat
    BY <1>1
  <2> QED
    BY <1>1, <1>3, <2>1, Recursion
<1>6. P(f)
  <2>1. ASSUME NEW i \in 0 .. m
        PROVE  (IF i = 0 THEN st ELSE G[<<i, f[i - 1]>>])
                  = (IF i = 0 THEN st ELSE step(f[i - 1], i))
    <3>1. CASE i = 0
      BY <3>1
    <3>2. CASE i # 0
      <4>1. i \in 1 .. m /\ i - 1 \in 0 .. m
        BY <3>2, <1>1
      <4> QED
        BY <3>2, <4>1, <1>4
    <3> QED
      BY <3>1, <3>2
  <2>2. [i \in 0 .. m |-> IF i = 0 THEN st ELSE G[<<i, f[i - 1]>>]]
           = [i \in 0 .. m |-> IF i = 0 THEN st ELSE step(f[i - 1], i)]
    BY <2>1, Zenon
  <2> QED
    BY <1>5, <2>2, Zenon DEF Follows
<1> DEFINE h == CHOOSE g : P(g)
<1>7. WithPrototypes(st, ds) = h[m]
  BY Zenon DEF WithPrototypes, m, step
<1>8. P(h)
  <2> HIDE DEF P
  <2> QED
    BY <1>6, Zenon
<1> HIDE DEF h
<1>9. h = [i \in 0 .. m |-> IF i = 0 THEN st ELSE step(h[i - 1], i)]
  BY <1>8
<1> HIDE DEF P
<1> DEFINE T == {i \in 0 .. m : h[i] \in Stacks /\ Len(h[i]) = Len(st)}
<1>10. T = 0 .. m
  <2>1. T \in SUBSET (0 .. m) /\ 0 \in T
    BY <1>1, <1>9
  <2>2. ASSUME NEW i \in 0 + 1 .. m, i - 1 \in T PROVE i \in T
    <3>1. i \in 0 .. m /\ i \in 1 .. m /\ i # 0
      BY <1>1, <2>2
    <3>2. h[i] = step(h[i - 1], i)
      BY <1>9, <3>1
    <3>3. h[i - 1] \in Stacks /\ Len(h[i - 1]) = Len(st)
      BY <2>2
    <3> QED
      BY <1>2, <3>1, <3>2, <3>3
  <2> HIDE DEF T
  <2> QED
    BY <1>1, <2>1, <2>2, Stretch
<1>11. h[m] \in Stacks /\ Len(h[m]) = Len(st)
  BY <1>1, <1>10
<1> QED
  BY <1>7, <1>11, Zenon

-------------------------------------------------------------------------------
(***************************************************************************)
(* Balance: what is still to be done leads the table from as many scopes,  *)
(* and as many copies of the flag, as it has now back to the global scope  *)
(* and to no copy, never leaving the one or taking from the other what is  *)
(* not there.  The levels in between are a walk.                           *)
(***************************************************************************)

Marks == [k : {"enter", "leave", "save", "restore", "join"}]
Additions == [k : {"add"}, d : Declarators]
Work == Nodes \cup References \cup Additions \cup Marks

Levels == [scopes : Nat \ {0}, flags : Nat]
Level(s, f) == [scopes |-> s, flags |-> f]
Moves(t, a, b) ==
    /\ t.k = "enter" => b = Level(a.scopes + 1, a.flags)
    /\ t.k = "leave" => a.scopes >= 2 /\ b = Level(a.scopes - 1, a.flags)
    /\ t.k = "save" => b = Level(a.scopes, a.flags + 1)
    /\ t.k = "restore" => a.flags >= 1 /\ b = Level(a.scopes, a.flags - 1)
    /\ t.k = "join" => a.flags >= 2 /\ b = Level(a.scopes, a.flags - 2)
    /\ t.k \notin {"enter", "leave", "save", "restore", "join"} => b = a
Walks(h, q, a, b) ==
    /\ h \in [1 .. Len(q) + 1 -> Levels]
    /\ h[1] = a /\ h[Len(q) + 1] = b
    /\ \A i \in 1 .. Len(q) : Moves(q[i], h[i], h[i + 1])
Leads(q, a, b) == \E h : Walks(h, q, a, b)

LEMMA WalkOne ==
    ASSUME NEW t, NEW a \in Levels, NEW b \in Levels, Moves(t, a, b)
    PROVE  Leads(<<t>>, a, b)
<1> DEFINE h == [i \in 1 .. 2 |-> IF i = 1 THEN a ELSE b]
<1>1. Len(<<t>>) = 1 /\ <<t>>[1] = t
  OBVIOUS
<1>2. h \in [1 .. 2 -> Levels] /\ h[1] = a /\ h[2] = b
  OBVIOUS
<1> HIDE DEF h
<1>3. Walks(h, <<t>>, a, b)
  BY <1>1, <1>2 DEF Walks
<1> QED
  BY <1>3 DEF Leads

\* Work that opens and closes nothing.
LEMMA WalkPlain ==
    ASSUME NEW N, NEW q \in Seq(N), NEW a \in Levels,
           \A t \in N : t.k \notin {"enter", "leave", "save", "restore", "join"}
    PROVE  Leads(q, a, a)
<1> DEFINE h == [i \in 1 .. Len(q) + 1 |-> a]
<1>1. Len(q) \in Nat /\ \A i \in 1 .. Len(q) : q[i] \in N
  OBVIOUS
<1>2. h \in [1 .. Len(q) + 1 -> Levels] /\ h[1] = a /\ h[Len(q) + 1] = a
  BY <1>1
<1>3. \A i \in 1 .. Len(q) : h[i] = a /\ h[i + 1] = a
  BY <1>1
<1> HIDE DEF h
<1>4. \A i \in 1 .. Len(q) : Moves(q[i], h[i], h[i + 1])
  BY <1>1, <1>3 DEF Moves
<1>5. Walks(h, q, a, a)
  BY <1>2, <1>4 DEF Walks
<1> QED
  BY <1>5 DEF Leads

LEMMA WalkOn ==
    ASSUME NEW N, NEW p \in Seq(N), NEW q \in Seq(N), NEW a, NEW b, NEW c,
           Leads(p, a, b), Leads(q, b, c)
    PROVE  Leads(p \o q, a, c)
<1>1. PICK f : Walks(f, p, a, b)
  BY DEF Leads
<1>2. PICK g : Walks(g, q, b, c)
  BY DEF Leads
<1> DEFINE m == Len(p)
           n == Len(q)
           h == [i \in 1 .. (m + n) + 1 |-> IF i <= m THEN f[i] ELSE g[i - m]]
<1>3. m \in Nat /\ n \in Nat /\ Len(p \o q) = m + n
  OBVIOUS
<1>4. \A i \in 1 .. m + n : (p \o q)[i] = IF i <= m THEN p[i] ELSE q[i - m]
  OBVIOUS
<1>5. /\ f \in [1 .. m + 1 -> Levels] /\ f[1] = a /\ f[m + 1] = b
      /\ \A i \in 1 .. m : Moves(p[i], f[i], f[i + 1])
  BY <1>1 DEF Walks
<1>6. /\ g \in [1 .. n + 1 -> Levels] /\ g[1] = b /\ g[n + 1] = c
      /\ \A i \in 1 .. n : Moves(q[i], g[i], g[i + 1])
  BY <1>2 DEF Walks
<1> HIDE DEF m, n
<1>7. h \in [1 .. (m + n) + 1 -> Levels]
  <2>1. ASSUME NEW i \in 1 .. (m + n) + 1
        PROVE  (IF i <= m THEN f[i] ELSE g[i - m]) \in Levels
    <3>1. CASE i <= m
      BY <3>1, <1>3, <1>5
    <3>2. CASE ~(i <= m)
      <4>1. i - m \in 1 .. n + 1
        BY <3>2, <1>3
      <4> QED
        BY <3>2, <4>1, <1>6
    <3> QED
      BY <3>1, <3>2
  <2> QED
    BY <2>1
<1>8. h[1] = a
  <2>1. 1 \in 1 .. (m + n) + 1
    BY <1>3
  <2>2. CASE 1 <= m
    BY <2>1, <2>2, <1>5
  <2>3. CASE ~(1 <= m)
    <3>1. m = 0 /\ 1 - m = 1 /\ m + 1 = 1
      BY <2>3, <1>3
    <3>2. a = b
      BY <3>1, <1>5
    <3> QED
      BY <2>1, <2>3, <3>1, <3>2, <1>6
  <2> QED
    BY <2>2, <2>3
<1>9. h[(m + n) + 1] = c
  <2>1. (m + n) + 1 \in 1 .. (m + n) + 1 /\ ~((m + n) + 1 <= m) /\ ((m + n) + 1) - m = n + 1
    BY <1>3
  <2> QED
    BY <2>1, <1>6
<1>10. ASSUME NEW i \in 1 .. m + n
       PROVE  Moves((p \o q)[i], h[i], h[i + 1])
  <2>1. i \in 1 .. (m + n) + 1 /\ i + 1 \in 1 .. (m + n) + 1
    BY <1>3
  <2>2. CASE i <= m
    <3>1. i \in 1 .. m /\ h[i] = f[i] /\ (p \o q)[i] = p[i]
      BY <2>1, <2>2, <1>4, <1>3
    <3>2. h[i + 1] = f[i + 1]
      <4>1. CASE i + 1 <= m
        BY <2>1, <4>1
      <4>2. CASE ~(i + 1 <= m)
        <5>1. i = m /\ (i + 1) - m = 1
          BY <2>2, <4>2, <1>3
        <5>2. h[i + 1] = g[1]
          BY <2>1, <4>2, <5>1
        <5> QED
          BY <5>1, <5>2, <1>5, <1>6
      <4> QED
        BY <4>1, <4>2
    <3> QED
      BY <3>1, <3>2, <1>5
  <2>3. CASE ~(i <= m)
    <3>1. i - m \in 1 .. n /\ (i + 1) - m = (i - m) + 1 /\ ~(i + 1 <= m)
      BY <2>3, <1>3
    <3>2. h[i] = g[i - m] /\ h[i + 1] = g[(i - m) + 1] /\ (p \o q)[i] = q[i - m]
      BY <2>1, <2>3, <3>1, <1>4
    <3> QED
      BY <3>1, <3>2, <1>6
  <2> QED
    BY <2>2, <2>3
<1> HIDE DEF h
<1>11. Walks(h, p \o q, a, c)
  BY <1>3, <1>7, <1>8, <1>9, <1>10 DEF Walks
<1> QED
  BY <1>11 DEF Leads

LEMMA WalkHead ==
    ASSUME NEW N, NEW q \in Seq(N), NEW a, NEW c, Leads(q, a, c), q # <<>>
    PROVE  \E b \in Levels : Moves(Head(q), a, b) /\ Leads(Tail(q), b, c)
<1>1. PICK f : Walks(f, q, a, c)
  BY DEF Leads
<1> DEFINE n == Len(q)
           h == [i \in 1 .. n |-> f[i + 1]]
<1>2. n \in Nat /\ n >= 1 /\ Len(Tail(q)) = n - 1 /\ Head(q) = q[1]
  OBVIOUS
<1>3. \A i \in 1 .. n - 1 : Tail(q)[i] = q[i + 1]
  OBVIOUS
<1>4. /\ f \in [1 .. n + 1 -> Levels] /\ f[1] = a /\ f[n + 1] = c
      /\ \A i \in 1 .. n : Moves(q[i], f[i], f[i + 1])
  BY <1>1 DEF Walks
<1> HIDE DEF n
<1>5. 1 \in 1 .. n /\ n \in 1 .. n /\ (n - 1) + 1 = n /\ 2 \in 1 .. n + 1
  BY <1>2
<1>6. Moves(Head(q), a, f[2]) /\ f[2] \in Levels
  <2>1. Moves(q[1], f[1], f[1 + 1])
    BY <1>4, <1>5
  <2> QED
    BY <2>1, <1>2, <1>4, <1>5
<1>7. h \in [1 .. n -> Levels]
  BY <1>2, <1>4
<1>8. h[1] = f[2] /\ h[n] = c
  BY <1>4, <1>5
<1>9. ASSUME NEW i \in 1 .. n - 1 PROVE Moves(Tail(q)[i], h[i], h[i + 1])
  <2>1. i \in 1 .. n /\ i + 1 \in 1 .. n
    BY <1>2
  <2>2. h[i] = f[i + 1] /\ h[i + 1] = f[(i + 1) + 1]
    BY <2>1
  <2>3. Moves(q[i + 1], f[i + 1], f[(i + 1) + 1])
    BY <2>1, <1>4
  <2> QED
    BY <2>2, <2>3, <1>3
<1> HIDE DEF h
<1>10. Walks(h, Tail(q), f[2], c)
  BY <1>2, <1>5, <1>7, <1>8, <1>9 DEF Walks
<1>11. Leads(Tail(q), f[2], c)
  BY <1>10 DEF Leads
<1> QED
  BY <1>6, <1>11

LEMMA WalkNowhere ==
    ASSUME NEW a, NEW c, Leads(<<>>, a, c)
    PROVE  a = c
<1>1. PICK f : Walks(f, <<>>, a, c)
  BY DEF Leads
<1> QED
  BY <1>1 DEF Walks

\* The marks, one by one.
Up(a) == Level(a.scopes + 1, a.flags)
Kept(a) == Level(a.scopes, a.flags + 1)
LEMMA LevelSteps ==
    ASSUME NEW a \in Levels
    PROVE  /\ Up(a) \in Levels /\ Kept(a) \in Levels /\ Up(Kept(a)) = Kept(Up(a))
           /\ Leads(Enter, a, Up(a)) /\ Leads(Leave, Up(a), a)
           /\ Leads(Save, a, Kept(a)) /\ Leads(Restore, Kept(a), a)
           /\ Leads(Join, Kept(Kept(a)), a)
<1>1. \A b \in Levels : Up(b) \in Levels /\ Kept(b) \in Levels
  BY DEF Up, Kept, Level, Levels
<1>2. Up(Kept(a)) = Kept(Up(a))
  BY DEF Up, Kept, Level, Levels
<1>3. a = Level(a.scopes, a.flags) /\ a.scopes \in Nat \ {0} /\ a.flags \in Nat
  BY DEF Level, Levels
<1>4. Moves([k |-> "enter"], a, Up(a)) /\ Moves([k |-> "save"], a, Kept(a))
  BY DEF Moves, Up, Kept
<1>5. Moves([k |-> "leave"], Up(a), a)
  <2>1. Up(a).scopes = a.scopes + 1 /\ Up(a).flags = a.flags
    BY DEF Up, Level
  <2>2. Level(Up(a).scopes - 1, Up(a).flags) = a
    BY <2>1, <1>3
  <2> QED
    BY <1>3, <2>1, <2>2 DEF Moves
<1>6. Moves([k |-> "restore"], Kept(a), a)
  <2>1. Kept(a).scopes = a.scopes /\ Kept(a).flags = a.flags + 1
    BY DEF Kept, Level
  <2>2. Level(Kept(a).scopes, Kept(a).flags - 1) = a
    BY <2>1, <1>3
  <2> QED
    BY <1>3, <2>1, <2>2 DEF Moves
<1>7. Moves([k |-> "join"], Kept(Kept(a)), a)
  <2> DEFINE b == Kept(Kept(a))
  <2>1. b.scopes = a.scopes /\ b.flags = (a.flags + 1) + 1
    BY DEF Kept, Level
  <2> HIDE DEF b
  <2>2. Level(b.scopes, b.flags - 2) = a
    BY <2>1, <1>3
  <2>3. Moves([k |-> "join"], b, a)
    BY <1>3, <2>1, <2>2 DEF Moves
  <2> QED
    BY <2>3 DEF b
<1>8. Leads(Enter, a, Up(a)) /\ Leads(Leave, Up(a), a)
  BY <1>1, <1>4, <1>5, WalkOne DEF Enter, Leave
<1>9. Leads(Save, a, Kept(a)) /\ Leads(Restore, Kept(a), a)
  BY <1>1, <1>4, <1>6, WalkOne DEF Save, Restore
<1>10. Leads(Join, Kept(Kept(a)), a)
  BY <1>1, <1>7, WalkOne DEF Join
<1> QED
  BY <1>1, <1>2, <1>8, <1>9, <1>10

LEMMA MarksAreWork ==
    /\ Enter \in Seq(Work) /\ Leave \in Seq(Work) /\ Save \in Seq(Work)
    /\ Restore \in Seq(Work) /\ Join \in Seq(Work)
<1>1. Marks \subseteq Work
  BY DEF Work
<1>2. /\ [k |-> "enter"] \in Marks /\ [k |-> "leave"] \in Marks /\ [k |-> "save"] \in Marks
      /\ [k |-> "restore"] \in Marks /\ [k |-> "join"] \in Marks
  BY DEF Marks
<1> QED
  BY <1>1, <1>2 DEF Enter, Leave, Save, Restore, Join

Plain == Nodes \cup References \cup Additions
LEMMA PlainWalk ==
    ASSUME NEW q \in Seq(Plain), NEW a \in Levels
    PROVE  q \in Seq(Work) /\ Leads(q, a, a)
<1>1. ASSUME NEW t \in Plain
      PROVE  t.k \notin {"enter", "leave", "save", "restore", "join"}
  <2>1. CASE t \in Nodes
    <3>1. t \in Shapes(Nodes)
      BY <2>1, NodeTypes
    <3> QED
      BY <3>1 DEF Shapes, Branching, Declarations
  <2>2. CASE t \in References \cup Additions
    BY <2>2 DEF References, Additions
  <2> QED
    BY <2>1, <2>2 DEF Plain
<1>2. Plain \subseteq Work
  BY DEF Plain, Work
<1>3. q \in Seq(Work)
  BY <1>2
<1> QED
  BY <1>1, <1>3, WalkPlain

\* One list of work after another.
LEMMA WorkOn ==
    ASSUME NEW p \in Seq(Work), NEW q \in Seq(Work), NEW a, NEW b, NEW c,
           Leads(p, a, b), Leads(q, b, c)
    PROVE  p \o q \in Seq(Work) /\ Leads(p \o q, a, c)
<1>1. p \o q \in Seq(Work)
  OBVIOUS
<1>2. Leads(p \o q, a, c)
  BY WalkOn
<1> QED
  BY <1>1, <1>2

\* Work with a scope, or with a copy of the flag, around it.
LEMMA InScope ==
    ASSUME NEW q \in Seq(Work), NEW a \in Levels, Leads(q, Up(a), Up(a))
    PROVE  Enter \o q \o Leave \in Seq(Work) /\ Leads(Enter \o q \o Leave, a, a)
<1> DEFINE r == Enter \o q
<1>1. Leads(r, a, Up(a)) /\ r \in Seq(Work)
  BY LevelSteps, MarksAreWork, WorkOn
<1> HIDE DEF r
<1>2. r \o Leave \in Seq(Work) /\ Leads(r \o Leave, a, a)
  BY <1>1, LevelSteps, MarksAreWork, WorkOn
<1> QED
  BY <1>2 DEF r

LEMMA Guarded ==
    ASSUME NEW q \in Seq(Plain), NEW a \in Levels
    PROVE  Save \o q \o Restore \in Seq(Work) /\ Leads(Save \o q \o Restore, a, a)
<1> DEFINE r == Save \o q
<1>1. q \in Seq(Work) /\ Leads(q, Kept(a), Kept(a))
  BY PlainWalk, LevelSteps
<1>2. Leads(r, a, Kept(a)) /\ r \in Seq(Work)
  BY <1>1, LevelSteps, MarksAreWork, WorkOn
<1> HIDE DEF r
<1>3. r \o Restore \in Seq(Work) /\ Leads(r \o Restore, a, a)
  BY <1>2, LevelSteps, MarksAreWork, WorkOn
<1> QED
  BY <1>3 DEF r

\* The fields of a piece of work, by its kind.
LEMMA NodeFields ==
    ASSUME NEW t \in Nodes
    PROVE  /\ t.k \in Statements \cup {"function"}
           /\ t.k = "expr" => t.uses \in Seq(References)
           /\ t.k = "declaration" => t.d \in Declarators
           /\ t.k = "compound" => t.items \in Seq(Nodes)
           /\ t.k = "if" => /\ t.cond \in Seq(References)
                            /\ t.yes \in Nodes \cup {NoNode}
                            /\ t.no \in Nodes \cup {NoNode}
           /\ t.k \in {"while", "do", "switch"} =>
                /\ t.cond \in Seq(References)
                /\ t.body \in Nodes \cup {NoNode}
<1>1. t \in Shapes(Nodes)
  BY NodeTypes
<1>2. t.k \in Statements \cup {"function"}
  BY <1>1 DEF Shapes, Branching, Declarations, Statements
<1>3. t.k \notin {"if", "while", "do", "switch", "for", "label", "function"} =>
        /\ t.k = "expr" => t.uses \in Seq(References)
        /\ t.k = "declaration" => t.d \in Declarators
        /\ t.k = "compound" => t.items \in Seq(Nodes)
  BY <1>1 DEF Shapes, Branching, Declarations
<1>4. t.k = "if" => /\ t.cond \in Seq(References)
                    /\ t.yes \in Nodes \cup {NoNode}
                    /\ t.no \in Nodes \cup {NoNode}
  BY <1>1 DEF Shapes, Branching, Declarations
<1>5. t.k \in {"while", "do", "switch"} => /\ t.cond \in Seq(References)
                                           /\ t.body \in Nodes \cup {NoNode}
  BY <1>1 DEF Shapes, Branching, Declarations
<1> QED
  BY <1>2, <1>3, <1>4, <1>5

LEMMA MoreFields ==
    ASSUME NEW t \in Nodes
    PROVE  /\ t.k = "for" => /\ t.init \in Nodes \cup {NoNode}
                             /\ t.cond \in Seq(References)
                             /\ t.update \in Seq(References)
                             /\ t.body \in Nodes \cup {NoNode}
           /\ t.k = "label" => /\ t.n \in STRING /\ t.at \in Nat
                               /\ t.body \in Nodes \cup {NoNode}
           /\ t.k = "function" => /\ t.n \in STRING /\ t.at \in Nat
                                  /\ t.params \in Seq(Declarators)
                                  /\ t.body \in Nodes \cup {NoNode}
                                  /\ t.body # NoNode => t.body.items \in Seq(Nodes)
           /\ t.k = "goto" => t.n \in STRING /\ t.at \in Nat
<1>1. t \in Shapes(Nodes)
  BY NodeTypes
<1>2. t.k = "for" => /\ t.init \in Nodes \cup {NoNode}
                     /\ t.cond \in Seq(References)
                     /\ t.update \in Seq(References)
                     /\ t.body \in Nodes \cup {NoNode}
  BY <1>1 DEF Shapes, Branching, Declarations
<1>3. t.k = "label" => /\ t.n \in STRING /\ t.at \in Nat
                       /\ t.body \in Nodes \cup {NoNode}
  BY <1>1 DEF Shapes, Branching, Declarations
<1>4. CASE t.k = "function"
  <2>1. /\ t.n \in STRING /\ t.at \in Nat /\ t.params \in Seq(Declarators)
        /\ t.body \in {n \in Nodes : n.k = "compound"} \cup {NoNode}
    BY <1>1, <1>4 DEF Shapes, Branching, Declarations
  <2>2. t.body # NoNode => t.body.items \in Seq(Nodes)
    BY <2>1, NodeFields
  <2> QED
    BY <1>4, <2>1, <2>2
<1>5. t.k = "goto" => t.n \in STRING /\ t.at \in Nat
  BY <1>1 DEF Shapes, Branching, Declarations
<1> QED
  BY <1>2, <1>3, <1>4, <1>5

LEMMA ReferencesArePlain ==
    ASSUME NEW q \in Seq(References)
    PROVE  q \in Seq(Plain)
<1>1. References \subseteq Plain
  BY DEF Plain
<1> QED
  BY <1>1

LEMMA NodesArePlain ==
    ASSUME NEW q \in Seq(Nodes)
    PROVE  q \in Seq(Plain)
<1>1. Nodes \subseteq Plain
  BY DEF Plain
<1> QED
  BY <1>1

LEMMA OneIsPlain ==
    ASSUME NEW t \in Nodes \cup {NoNode}
    PROVE  IfAny(t) \in Seq(Plain)
<1>1. CASE t = NoNode
  BY <1>1 DEF IfAny
<1>2. CASE t # NoNode
  <2>1. t \in Plain
    BY <1>2 DEF Plain
  <2>2. <<t>> \in Seq(Plain)
    BY <2>1
  <2> QED
    BY <1>2, <2>2 DEF IfAny
<1> QED
  BY <1>1, <1>2

LEMMA PlainOn ==
    ASSUME NEW p \in Seq(Plain), NEW q \in Seq(Plain)
    PROVE  p \o q \in Seq(Plain)
  OBVIOUS

LEMMA ForInitIsPlain ==
    ASSUME NEW t \in Nodes \cup {NoNode}
    PROVE  ForInit(t) \in Seq(Plain)
<1>1. CASE t = NoNode
  BY <1>1 DEF ForInit
<1>2. CASE t # NoNode /\ t.k = "expr"
  <2>1. t.uses \in Seq(References)
    BY <1>2, NodeFields
  <2> QED
    BY <1>2, <2>1, ReferencesArePlain DEF ForInit
<1>3. CASE t # NoNode /\ t.k # "expr"
  <2>1. t \in Plain
    BY <1>3 DEF Plain
  <2>2. <<t>> \in Seq(Plain) /\ <<>> \in Seq(Plain)
    BY <2>1
  <2> QED
    BY <1>3, <2>2 DEF ForInit
<1> QED
  BY <1>1, <1>2, <1>3

\* What the code generator does with a statement keeps the balance.
Even(q, a) == q \in Seq(Work) /\ Leads(q, a, a)
LEMMA PlainEven ==
    ASSUME NEW q \in Seq(Plain), NEW a \in Levels
    PROVE  Even(q, a)
  BY PlainWalk DEF Even
LEMMA EvenOn ==
    ASSUME NEW p, NEW q, NEW a \in Levels, Even(p, a), Even(q, a)
    PROVE  Even(p \o q, a)
  BY WorkOn DEF Even
LEMMA EvenScope ==
    ASSUME NEW q, NEW a \in Levels, Even(q, Up(a))
    PROVE  Even(Enter \o q \o Leave, a)
  BY InScope DEF Even
LEMMA EvenGuarded ==
    ASSUME NEW q \in Seq(Plain), NEW a \in Levels
    PROVE  Even(Save \o q \o Restore, a)
  BY Guarded DEF Even
LEMMA ThenScope ==
    ASSUME NEW p, NEW q, NEW a \in Levels, Even(p, a), Even(q, Up(a))
    PROVE  Even(p \o Enter \o q \o Leave, a)
<1>1. p \in Seq(Work) /\ q \in Seq(Work) /\ Leads(p, a, a) /\ Leads(q, Up(a), Up(a))
  BY DEF Even
<1> DEFINE r == p \o Enter
<1>2. r \in Seq(Work) /\ Leads(r, a, Up(a))
  BY <1>1, LevelSteps, MarksAreWork, WorkOn
<1> HIDE DEF r
<1> DEFINE u == r \o q
<1>3. u \in Seq(Work) /\ Leads(u, a, Up(a))
  BY <1>1, <1>2, WorkOn
<1> HIDE DEF u
<1>4. Even(u \o Leave, a)
  BY <1>3, LevelSteps, MarksAreWork, WorkOn DEF Even
<1> QED
  BY <1>4 DEF u, r

\* An if: its condition, and a scope for each branch, the first of which hands
\* its copy of the flag to the second.
LEMMA IfEven ==
    ASSUME NEW s \in Nodes, s.k = "if", NEW a \in Levels
    PROVE  Even(Schedule(s), a)
<1> DEFINE yes == IfAny(s.yes)
           no == IfAny(s.no)
           p1 == s.cond \o Enter
           p2 == p1 \o Save
           p3 == p2 \o yes
           q1 == Save \o Leave
           q2 == q1 \o Enter
           q3 == q2 \o no
           q4 == q3 \o Join
           b == Kept(Up(a))
<1>1. /\ s.cond \in Seq(Plain) /\ yes \in Seq(Plain) /\ no \in Seq(Plain)
  BY NodeFields, ReferencesArePlain, OneIsPlain
<1>2. Up(a) \in Levels /\ b \in Levels /\ Kept(a) \in Levels /\ b = Up(Kept(a))
      /\ Kept(Kept(a)) \in Levels /\ Kept(b) = Up(Kept(Kept(a)))
  BY LevelSteps
<1>3. /\ s.cond \in Seq(Work) /\ Leads(s.cond, a, a)
      /\ yes \in Seq(Work) /\ Leads(yes, b, b)
      /\ no \in Seq(Work) /\ Leads(no, Kept(b), Kept(b))
  BY <1>1, <1>2, LevelSteps, PlainWalk
<1>4. /\ Leads(Enter, a, Up(a)) /\ Leads(Save, Up(a), b) /\ Leads(Leave, Up(a), a)
      /\ Leads(Restore, b, Up(a)) /\ Leads(Join, Kept(b), Up(a)) /\ Leads(Save, b, Kept(b))
  BY <1>2, LevelSteps
<1>5. Leads(Leave, Kept(b), Kept(Kept(a))) /\ Leads(Enter, Kept(Kept(a)), Kept(b))
  BY <1>2, LevelSteps
<1>6. Schedule(s) = p3 \o (IF s.no = NoNode THEN Restore \o Leave ELSE q4 \o Leave)
  BY DEF Schedule
<1> HIDE DEF yes, no, p1, p2, p3, q1, q2, q3, q4, b
<1>7. p1 \in Seq(Work) /\ Leads(p1, a, Up(a))
  BY <1>3, <1>4, MarksAreWork, WorkOn DEF p1
<1>8. p2 \in Seq(Work) /\ Leads(p2, a, b)
  BY <1>4, <1>7, MarksAreWork, WorkOn DEF p2
<1>9. p3 \in Seq(Work) /\ Leads(p3, a, b)
  BY <1>3, <1>8, WorkOn DEF p3
<1>10. Restore \o Leave \in Seq(Work) /\ Leads(Restore \o Leave, b, a)
  BY <1>4, MarksAreWork, WorkOn
<1>11. q1 \in Seq(Work) /\ Leads(q1, b, Kept(Kept(a)))
  BY <1>4, <1>5, MarksAreWork, WorkOn DEF q1
<1>12. q2 \in Seq(Work) /\ Leads(q2, b, Kept(b))
  BY <1>5, <1>11, MarksAreWork, WorkOn DEF q2
<1>13. q3 \in Seq(Work) /\ Leads(q3, b, Kept(b))
  BY <1>3, <1>12, WorkOn DEF q3
<1>14. q4 \in Seq(Work) /\ Leads(q4, b, Up(a))
  BY <1>4, <1>13, MarksAreWork, WorkOn DEF q4
<1>15. q4 \o Leave \in Seq(Work) /\ Leads(q4 \o Leave, b, a)
  BY <1>4, <1>14, MarksAreWork, WorkOn
<1>16. CASE s.no = NoNode
  <2> DEFINE r == Restore \o Leave
  <2>1. Schedule(s) = p3 \o r
    BY <1>6, <1>16
  <2> HIDE DEF r
  <2>2. r \in Seq(Work) /\ Leads(r, b, a)
    BY <1>10 DEF r
  <2>3. p3 \o r \in Seq(Work) /\ Leads(p3 \o r, a, a)
    BY <1>9, <2>2, WorkOn
  <2> QED
    BY <2>1, <2>3 DEF Even
<1>17. CASE s.no # NoNode
  <2> DEFINE r == q4 \o Leave
  <2>1. Schedule(s) = p3 \o r
    BY <1>6, <1>17
  <2> HIDE DEF r
  <2>2. r \in Seq(Work) /\ Leads(r, b, a)
    BY <1>15 DEF r
  <2>3. p3 \o r \in Seq(Work) /\ Leads(p3 \o r, a, a)
    BY <1>9, <2>2, WorkOn
  <2> QED
    BY <2>1, <2>3 DEF Even
<1> QED
  BY <1>16, <1>17

LEMMA ForEven ==
    ASSUME NEW s \in Nodes, s.k = "for", NEW a \in Levels
    PROVE  Even(Schedule(s), a)
<1> DEFINE body == Save \o IfAny(s.body) \o Restore
           p1 == Enter \o ForInit(s.init)
           p2 == p1 \o s.cond
           p3 == p2 \o body
           p4 == p3 \o s.update
<1>1. /\ ForInit(s.init) \in Seq(Plain) /\ s.cond \in Seq(Plain)
      /\ s.update \in Seq(Plain) /\ IfAny(s.body) \in Seq(Plain)
  BY MoreFields, ReferencesArePlain, OneIsPlain, ForInitIsPlain
<1>2. Up(a) \in Levels /\ Leads(Enter, a, Up(a)) /\ Leads(Leave, Up(a), a)
  BY LevelSteps
<1>3. body \in Seq(Work) /\ Leads(body, Up(a), Up(a))
  BY <1>1, <1>2, Guarded
<1>4. ForInit(s.init) \in Seq(Work) /\ Leads(ForInit(s.init), Up(a), Up(a))
  BY <1>1, <1>2, PlainWalk
<1>5. s.cond \in Seq(Work) /\ Leads(s.cond, Up(a), Up(a))
  BY <1>1, <1>2, PlainWalk
<1>6. s.update \in Seq(Work) /\ Leads(s.update, Up(a), Up(a))
  BY <1>1, <1>2, PlainWalk
<1>7. Schedule(s) = p4 \o Leave
  BY DEF Schedule
<1> HIDE DEF body, p1, p2, p3, p4
<1>8. p1 \in Seq(Work) /\ Leads(p1, a, Up(a))
  BY <1>2, <1>4, MarksAreWork, WorkOn DEF p1
<1>9. p2 \in Seq(Work) /\ Leads(p2, a, Up(a))
  BY <1>5, <1>8, WorkOn DEF p2
<1>10. p3 \in Seq(Work) /\ Leads(p3, a, Up(a))
  BY <1>3, <1>9, WorkOn DEF p3
<1>11. p4 \in Seq(Work) /\ Leads(p4, a, Up(a))
  BY <1>6, <1>10, WorkOn DEF p4
<1> QED
  BY <1>2, <1>7, <1>11, MarksAreWork, WorkOn DEF Even

LEMMA ScheduleEven ==
    ASSUME NEW s \in Nodes, NEW a \in Levels,
           s.k \in {"expr", "compound", "if", "while", "do", "switch", "for"}
    PROVE  Even(Schedule(s), a)
<1>1. Up(a) \in Levels
  BY LevelSteps
<1>2. CASE s.k = "expr"
  <2>1. s.uses \in Seq(Plain) /\ Schedule(s) = s.uses
    BY <1>2, NodeFields, ReferencesArePlain DEF Schedule
  <2> QED
    BY <2>1, PlainEven
<1>3. CASE s.k = "compound"
  <2>1. s.items \in Seq(Plain) /\ Schedule(s) = Enter \o s.items \o Leave
    BY <1>3, NodeFields, NodesArePlain DEF Schedule
  <2> QED
    BY <1>1, <2>1, PlainEven, EvenScope
<1>4. CASE s.k \in {"while", "do", "switch"}
  <2> DEFINE body == Save \o IfAny(s.body) \o Restore
             sub == IfAny(s.body)
  <2>1. s.cond \in Seq(Plain) /\ sub \in Seq(Plain)
    BY <1>4, NodeFields, ReferencesArePlain, OneIsPlain
  <2>2. Even(s.cond, a) /\ Even(sub, Up(a)) /\ Even(body, Up(a))
    BY <1>1, <2>1, PlainEven, EvenGuarded
  <2>3. CASE s.k = "while"
    <3>1. Schedule(s) = s.cond \o Enter \o body \o Leave
      BY <2>3 DEF Schedule
    <3> HIDE DEF body
    <3> QED
      BY <2>2, <3>1, ThenScope
  <2>4. CASE s.k = "do"
    <3>1. Schedule(s) = (Enter \o body \o Leave) \o s.cond
      BY <2>4 DEF Schedule
    <3> HIDE DEF body
    <3>2. Even(Enter \o body \o Leave, a)
      BY <2>2, EvenScope
    <3> QED
      BY <2>2, <3>1, <3>2, EvenOn
  <2>5. CASE s.k = "switch"
    <3>1. Schedule(s) = s.cond \o Enter \o sub \o Leave
      BY <2>5 DEF Schedule
    <3> HIDE DEF sub
    <3> QED
      BY <2>2, <3>1, ThenScope
  <2> QED
    BY <1>4, <2>3, <2>4, <2>5
<1> QED
  BY <1>2, <1>3, <1>4, IfEven, ForEven

-------------------------------------------------------------------------------
\* The invariant: every variable has its type, and what is to be done leads
\* home.

Home == Level(1, 0)
Here == Level(Len(scopes), Len(flags))
IInv ==
    /\ phase \in {"parse", "analyse", "prototypes", "generate", "done"}
    /\ error_count \in Nat
    /\ in_return_block \in BOOLEAN
    /\ flags \in Seq(BOOLEAN)
    /\ scopes \in Stacks
    /\ source \in Seq(Trees)
    /\ ast \in Seq(Nodes)
    /\ phase = "parse" => todo = <<>>
    /\ todo \in Seq(Work)
    /\ Leads(todo, Here, Home)

LEMMA WorkKinds ==
    ASSUME NEW t \in Work
    PROVE  /\ t.k \in Statements \cup {"function"} => t \in Nodes
           /\ t.k \in {"use", "call"} => t.n \in STRING /\ t.at \in Nat
           /\ t.k = "add" => t.d \in Declarators
           /\ t.k \in Tasks
<1>1. CASE t \in Nodes
  BY <1>1, NodeFields DEF Statements, Tasks
<1>2. CASE t \in References
  BY <1>2 DEF References, Statements, Tasks
<1>3. CASE t \in Additions
  BY <1>3 DEF Additions, Statements, Tasks
<1>4. CASE t \in Marks
  BY <1>4 DEF Marks, Statements, Tasks
<1> QED
  BY <1>1, <1>2, <1>3, <1>4 DEF Work

LEMMA HereIsLevel ==
    ASSUME NEW st \in Stacks, NEW f \in Seq(BOOLEAN)
    PROVE  Level(Len(st), Len(f)) \in Levels
  BY DEF Level, Levels, Stacks

LEMMA HeadIsWork ==
    ASSUME IInv, todo # <<>>
    PROVE  Head(todo) \in Work /\ Tail(todo) \in Seq(Work)
  BY DEF IInv

\* A piece of work that is no mark gives way to others.
LEMMA Continues ==
    ASSUME IInv, todo # <<>>,
           Head(todo).k \notin {"enter", "leave", "save", "restore", "join"},
           NEW tasks \in Seq(Work), NEW a \in Levels, Leads(tasks, a, Here)
    PROVE  tasks \o Tail(todo) \in Seq(Work) /\ Leads(tasks \o Tail(todo), a, Home)
<1>1. todo \in Seq(Work) /\ Leads(todo, Here, Home)
  BY DEF IInv
<1>2. PICK b \in Levels : Moves(Head(todo), Here, b) /\ Leads(Tail(todo), b, Home)
  BY <1>1, WalkHead
<1>3. b = Here
  BY <1>2 DEF Moves
<1> QED
  BY <1>2, <1>3, HeadIsWork, WorkOn

\* A mark is done.
LEMMA MarkDone ==
    ASSUME IInv, todo # <<>>
    PROVE  /\ <<>> \o Tail(todo) \in Seq(Work)
           /\ \E b \in Levels : Moves(Head(todo), Here, b) /\ Leads(<<>> \o Tail(todo), b, Home)
<1>1. todo \in Seq(Work) /\ Leads(todo, Here, Home)
  BY DEF IInv
<1>2. PICK b \in Levels : Moves(Head(todo), Here, b) /\ Leads(Tail(todo), b, Home)
  BY <1>1, WalkHead
<1>3. <<>> \o Tail(todo) = Tail(todo)
  BY HeadIsWork
<1> QED
  BY <1>2, <1>3, HeadIsWork

\* A step of the analysis, and one of the code generator.
LEMMA CheckKeeps ==
    ASSUME IInv, Analysing, phase = "analyse",
           scopes' \in Stacks, error_count' \in Nat, todo' \in Seq(Work),
           Leads(todo', Level(Len(scopes'), Len(flags)), Home)
    PROVE  IInv'
  BY DEF IInv, Analysing, Here

LEMMA GenerateKeeps ==
    ASSUME IInv, Generating, phase = "generate",
           scopes' \in Stacks, flags' \in Seq(BOOLEAN), in_return_block' \in BOOLEAN,
           todo' \in Seq(Work), Leads(todo', Level(Len(scopes'), Len(flags')), Home)
    PROVE  IInv'
  BY DEF IInv, Generating, Here

LEMMA EmptyWork ==
    ASSUME NEW a \in Levels
    PROVE  <<>> \in Seq(Work) /\ Leads(<<>>, a, a)
<1>1. <<>> \in Seq(Plain)
  OBVIOUS
<1> QED
  BY <1>1, PlainWalk

\* Work that goes on with tasks, from the level it is at.
LEMMA GoesOn ==
    ASSUME IInv, todo # <<>>, Head(todo).k \notin {"enter", "leave", "save", "restore", "join"},
           NEW tasks \in Seq(Plain), Then(tasks),
           scopes' \in Stacks, Len(scopes') = Len(scopes)
    PROVE  todo' \in Seq(Work) /\ Leads(todo', Level(Len(scopes'), Len(flags)), Home)
<1>1. Here \in Levels /\ Level(Len(scopes'), Len(flags)) = Here
  BY HereIsLevel DEF IInv, Here
<1>2. tasks \in Seq(Work) /\ Leads(tasks, Here, Here)
  BY <1>1, PlainWalk
<1> QED
  BY <1>1, <1>2, Continues DEF Then

\* The same, from within a new scope.
LEMMA GoesOnWithin ==
    ASSUME IInv, todo # <<>>, Head(todo).k \notin {"enter", "leave", "save", "restore", "join"},
           NEW tasks \in Seq(Plain), Then(tasks \o Leave),
           scopes' \in Stacks, Len(scopes') = Len(scopes) + 1
    PROVE  todo' \in Seq(Work) /\ Leads(todo', Level(Len(scopes'), Len(flags)), Home)
<1>1. Here \in Levels
  BY HereIsLevel DEF IInv, Here
<1>2. Level(Len(scopes'), Len(flags)) = Up(Here)
  BY DEF Up, Here, Level
<1>3. Up(Here) \in Levels /\ Leads(Leave, Up(Here), Here)
  BY <1>1, LevelSteps
<1>4. tasks \in Seq(Work) /\ Leads(tasks, Up(Here), Up(Here))
  BY <1>3, PlainWalk
<1> DEFINE q == tasks \o Leave
<1>5. q \in Seq(Work) /\ Leads(q, Up(Here), Here)
  BY <1>3, <1>4, MarksAreWork, WorkOn
<1>6. todo' = q \o Tail(todo)
  BY DEF Then
<1> HIDE DEF q
<1>7. q \o Tail(todo) \in Seq(Work) /\ Leads(q \o Tail(todo), Up(Here), Home)
  BY <1>3, <1>5, Continues
<1> QED
  BY <1>2, <1>6, <1>7

-------------------------------------------------------------------------------
\* The invariant holds of the parser ...

LEMMA InitHolds == Init => IInv
<1> SUFFICES ASSUME Init PROVE IInv
  OBVIOUS
<1>1. source \in Seq(Trees)
  BY SourcesAssumption DEF Init
<1>2. Len(scopes) = 1 /\ scopes \in Stacks /\ Len(flags) = 0 /\ flags \in Seq(BOOLEAN)
  BY GlobalIsStack DEF Init
<1>3. Here = Home /\ Home \in Levels
  BY <1>2 DEF Here, Home, Level, Levels
<1>4. todo \in Seq(Work) /\ Leads(todo, Here, Home)
  BY <1>3, EmptyWork DEF Init
<1>5. /\ phase = "parse" /\ error_count = 0 /\ in_return_block = FALSE
      /\ ast = <<>> /\ todo = <<>>
  BY DEF Init
<1>6. ast \in Seq(Nodes)
  BY <1>5
<1> QED
  BY <1>1, <1>2, <1>4, <1>5, <1>6 DEF IInv

LEMMA ExternalDeclarationKeeps ==
    ASSUME IInv, ExternalDeclaration
    PROVE  IInv'
<1>1. source \in Seq(Trees) /\ source # <<>> /\ ast \in Seq(Nodes) /\ scopes \in Stacks
  BY DEF IInv, ExternalDeclaration
<1> DEFINE s == Head(source)
<1>2. s \in Trees /\ Tail(source) \in Seq(Trees)
  BY <1>1
<1>3. ast' = ast \o Items(Ast[s]) /\ source' = Tail(source)
  BY DEF ExternalDeclaration
<1>4. scopes' \in Stacks /\ Len(scopes') = Len(scopes)
  <2>1. CASE s.k = "enum"
    <3>1. s.n \in STRING /\ Symbol("ENUM_CONSTANT", s.at, 0) \in Symbols
      BY <1>2, <2>1, LeafTypes DEF Symbol, Symbols
    <3>2. scopes' = Declared(scopes, s.n, Symbol("ENUM_CONSTANT", s.at, 0))
      BY <2>1 DEF ExternalDeclaration
    <3> HIDE DEF s
    <3> QED
      BY <1>1, <3>1, <3>2, DeclaredStack
  <2>2. CASE s.k # "enum"
    BY <1>1, <2>2 DEF ExternalDeclaration
  <2> QED
    BY <2>1, <2>2
<1> HIDE DEF s
<1>5. Items(Ast[s]) \in Seq(Nodes)
  BY <1>2, ItemsAreNodes
<1>6. ast' \in Seq(Nodes)
  BY <1>1, <1>3, <1>5
<1> QED
  BY <1>2, <1>3, <1>4, <1>6 DEF IInv, ExternalDeclaration, Here

LEMMA ParseEndKeeps ==
    ASSUME IInv, ParseEnd
    PROVE  IInv'
<1>1. todo = <<>> /\ ast \in Seq(Nodes) /\ Leads(todo, Here, Home)
  BY DEF IInv, ParseEnd
<1>2. Here = Home /\ Here \in Levels
  BY <1>1, WalkNowhere, HereIsLevel DEF IInv, Here
<1>3. ast \in Seq(Plain)
  BY <1>1, NodesArePlain
<1>4. ast \in Seq(Work) /\ Leads(ast, Here, Home)
  BY <1>2, <1>3, PlainWalk
<1> QED
  BY <1>4 DEF IInv, ParseEnd, Here

\* ... of the analysis, step by step ...

LEMMA Complaint ==
    ASSUME NEW wrong, Complain(wrong), error_count \in Nat
    PROVE  error_count' \in Nat
<1>1. CASE wrong
  BY <1>1 DEF Complain
<1>2. CASE ~wrong
  BY <1>2 DEF Complain
<1> QED
  BY <1>1, <1>2

LEMMA CheckReferenceKeeps ==
    ASSUME IInv, CheckUse \/ CheckCall
    PROVE  IInv'
<1>1. /\ todo # <<>> /\ Head(todo).k \in {"use", "call"} /\ phase = "analyse"
      /\ Then(<<>>) /\ Analysing /\ scopes' = scopes
  BY DEF CheckUse, CheckCall, Doing, node
<1>2. \E wrong : Complain(wrong)
  BY DEF CheckUse, CheckCall
<1>3. scopes \in Stacks /\ error_count \in Nat /\ <<>> \in Seq(Plain)
  BY DEF IInv
<1>4. error_count' \in Nat
  BY <1>2, <1>3, Complaint
<1>5. todo' \in Seq(Work) /\ Leads(todo', Level(Len(scopes'), Len(flags)), Home)
  BY <1>1, <1>3, GoesOn
<1> QED
  BY <1>1, <1>3, <1>4, <1>5, CheckKeeps

LEMMA AddTask ==
    ASSUME NEW d \in Declarators
    PROVE  d.init \o <<[k |-> "add", d |-> d]>> \in Seq(Plain)
<1>1. d.init \in Seq(References)
  BY DEF Declarators
<1>2. [k |-> "add", d |-> d] \in Plain
  BY DEF Additions, Plain
<1>3. <<[k |-> "add", d |-> d]>> \in Seq(Plain)
  BY <1>2
<1> QED
  BY <1>1, <1>3, ReferencesArePlain, PlainOn

LEMMA CheckDeclarationKeeps ==
    ASSUME IInv, CheckDeclaration
    PROVE  IInv'
<1>1. /\ todo # <<>> /\ Head(todo).k = "declaration" /\ phase = "analyse"
      /\ Then(Head(todo).d.init \o <<[k |-> "add", d |-> Head(todo).d]>>)
      /\ Analysing /\ scopes' = scopes /\ error_count' = error_count
  BY DEF CheckDeclaration, Doing, node
<1>2. Head(todo) \in Nodes
  BY <1>1, HeadIsWork, WorkKinds DEF Statements
<1>3. Head(todo).d \in Declarators
  BY <1>1, <1>2, NodeFields
<1>4. Head(todo).d.init \o <<[k |-> "add", d |-> Head(todo).d]>> \in Seq(Plain)
  BY <1>3, AddTask
<1>5. scopes \in Stacks /\ error_count' \in Nat
  BY <1>1 DEF IInv
<1> QED
  BY <1>1, <1>4, <1>5, GoesOn, CheckKeeps

LEMMA CheckAddedKeeps ==
    ASSUME IInv, CheckAdded
    PROVE  IInv'
<1> DEFINE d == Head(todo).d
<1>1. /\ todo # <<>> /\ Head(todo).k = "add" /\ phase = "analyse"
      /\ Then(<<>>) /\ Analysing
      /\ scopes' = Declared(scopes, d.n, Symbol("VARIABLE", d.at, 0))
      /\ Complain(d.n \in DOMAIN Current(scopes))
  BY DEF CheckAdded, Doing, node
<1>2. d \in Declarators
  BY <1>1, HeadIsWork, WorkKinds
<1> HIDE DEF d
<1>3. d.n \in STRING /\ Symbol("VARIABLE", d.at, 0) \in Symbols
  BY <1>2 DEF Declarators, Symbol, Symbols
<1>4. scopes \in Stacks /\ error_count' \in Nat /\ <<>> \in Seq(Plain)
  BY <1>1, Complaint DEF IInv
<1>5. scopes' \in Stacks /\ Len(scopes') = Len(scopes)
  BY <1>1, <1>3, <1>4, DeclaredStack
<1> QED
  BY <1>1, <1>4, <1>5, GoesOn, CheckKeeps

\* As many names as parameters at most.
LEMMA RepeatedParameters ==
    ASSUME NEW ps \in Seq(Declarators)
    PROVE  /\ Cardinality({p.n : p \in ToSet(ps)}) \in Nat
           /\ Len(ps) - Cardinality({p.n : p \in ToSet(ps)}) \in Nat
<1> DEFINE S == 1 .. Len(ps)
           T == {p.n : p \in ToSet(ps)}
           f == [i \in S |-> ps[i].n]
<1>1. Len(ps) \in Nat /\ IsFiniteSet(S) /\ Cardinality(S) = Len(ps)
  <2>1. Len(ps) \in Nat /\ Len(ps) \in Int /\ 1 \in Int
    OBVIOUS
  <2>2. IsFiniteSet(S) /\ Cardinality(S) = IF 1 > Len(ps) THEN 0 ELSE (Len(ps) - 1) + 1
    BY <2>1, FS_Interval
  <2>3. (IF 1 > Len(ps) THEN 0 ELSE (Len(ps) - 1) + 1) = Len(ps)
    BY <2>1
  <2> HIDE DEF S
  <2> QED
    BY <2>1, <2>2, <2>3
<1>2. f \in Surjection(S, T)
  <2>1. \A i \in S : ps[i] \in ToSet(ps)
    BY DEF ToSet
  <2>2. f \in [S -> T]
    BY <2>1
  <2>3. ASSUME NEW t \in T PROVE \E i \in S : f[i] = t
    <3>1. PICK p \in ToSet(ps) : t = p.n
      OBVIOUS
    <3>2. PICK i \in S : p = ps[i]
      BY DEF ToSet
    <3> QED
      BY <3>1, <3>2
  <2> HIDE DEF f, S, T
  <2> QED
    BY <2>2, <2>3 DEF Surjection
<1> HIDE DEF f, S
<1>3. IsFiniteSet(T) /\ Cardinality(T) <= Cardinality(S)
  <2> HIDE DEF T
  <2> QED
    BY <1>1, <1>2, FS_Surjection
<1>4. Cardinality(T) \in Nat
  BY <1>3, FS_CardinalityType
<1> QED
  BY <1>1, <1>3, <1>4

LEMMA EnteredFunction ==
    ASSUME NEW st \in Stacks, NEW f \in Nodes, f.k = "function"
    PROVE  /\ WithParams(Opened(WithFunction(st, f)), f.params) \in Stacks
           /\ Len(WithParams(Opened(WithFunction(st, f)), f.params)) = Len(st) + 1
<1>1. f.n \in STRING /\ f.at \in Nat /\ f.params \in Seq(Declarators)
  BY MoreFields
<1>2. WithFunction(st, f) \in Stacks /\ Len(WithFunction(st, f)) = Len(st)
  BY <1>1, FunctionStack
<1>3. /\ Opened(WithFunction(st, f)) \in Stacks
      /\ Len(Opened(WithFunction(st, f))) = Len(st) + 1
  BY <1>2, OpenedStack
<1> QED
  BY <1>1, <1>3, ParamsStack

LEMMA CheckFunctionKeeps ==
    ASSUME IInv, CheckFunction
    PROVE  IInv'
<1> DEFINE f == Head(todo)
<1>1. /\ todo # <<>> /\ f.k = "function" /\ phase = "analyse"
      /\ Then(IfAny(f.body) \o Leave) /\ Analysing
      /\ scopes' = WithParams(Opened(WithFunction(scopes, f)), f.params)
  BY DEF CheckFunction, Doing, node
<1>2. f \in Nodes
  BY <1>1, HeadIsWork, WorkKinds
<1>3. error_count' = error_count + Len(f.params)
                        - Cardinality({p.n : p \in ToSet(f.params)})
  BY DEF CheckFunction, node
<1>4. f.k \notin {"enter", "leave", "save", "restore", "join"}
  BY <1>1
<1>5. scopes \in Stacks /\ error_count \in Nat
  BY DEF IInv
<1>6. f.params \in Seq(Declarators) /\ IfAny(f.body) \in Seq(Plain)
  BY <1>1, <1>2, MoreFields, OneIsPlain
<1>7. scopes' \in Stacks /\ Len(scopes') = Len(scopes) + 1
  BY <1>1, <1>2, <1>5, EnteredFunction
<1>8. todo' \in Seq(Work) /\ Leads(todo', Level(Len(scopes'), Len(flags)), Home)
  BY <1>1, <1>4, <1>6, <1>7, GoesOnWithin
<1>9. error_count' \in Nat
  <2> DEFINE m == Len(f.params)
             c == Cardinality({p.n : p \in ToSet(f.params)})
  <2>1. m - c \in Nat /\ m \in Nat
    BY <1>6, RepeatedParameters
  <2>2. c \in Nat
    BY <1>6, RepeatedParameters
  <2>3. error_count' = error_count + m - c
    BY <1>3
  <2> HIDE DEF m, c
  <2> QED
    BY <1>5, <2>1, <2>2, <2>3
<1> QED
  BY <1>1, <1>7, <1>8, <1>9, CheckKeeps

LEMMA CheckScopeKeeps ==
    ASSUME IInv, CheckScope
    PROVE  IInv'
<1> DEFINE s == Head(todo)
           parts == IF s.k = "compound" THEN s.items
                    ELSE IfAny(s.init) \o s.cond \o s.update \o IfAny(s.body)
<1>1. /\ todo # <<>> /\ s.k \in {"compound", "for"} /\ phase = "analyse"
      /\ Then(parts \o Leave) /\ Analysing
      /\ scopes' = Opened(scopes) /\ error_count' = error_count
  BY DEF CheckScope, Doing, node
<1>2. s \in Nodes /\ s.k \notin {"enter", "leave", "save", "restore", "join"}
  BY <1>1, HeadIsWork, WorkKinds DEF Statements
<1>3. parts \in Seq(Plain)
  <2>1. CASE s.k = "compound"
    BY <1>2, <2>1, NodeFields, NodesArePlain
  <2>2. CASE s.k = "for"
    <3>1. /\ IfAny(s.init) \in Seq(Plain) /\ s.cond \in Seq(Plain)
          /\ s.update \in Seq(Plain) /\ IfAny(s.body) \in Seq(Plain)
      BY <1>2, <2>2, MoreFields, ReferencesArePlain, OneIsPlain
    <3>2. parts = IfAny(s.init) \o s.cond \o s.update \o IfAny(s.body)
      BY <2>2
    <3> HIDE DEF s, parts
    <3> QED
      BY <3>1, <3>2
  <2> QED
    BY <1>1, <2>1, <2>2
<1>4. scopes \in Stacks /\ error_count' \in Nat
  BY <1>1 DEF IInv
<1>5. scopes' \in Stacks /\ Len(scopes') = Len(scopes) + 1
  BY <1>1, <1>4, OpenedStack
<1> HIDE DEF parts
<1>6. todo' \in Seq(Work) /\ Leads(todo', Level(Len(scopes'), Len(flags)), Home)
  BY <1>1, <1>2, <1>3, <1>5, GoesOnWithin
<1> QED
  BY <1>1, <1>4, <1>5, <1>6, CheckKeeps

\* Leaving a scope: there is one besides the global one.
LEMMA Leaving ==
    ASSUME IInv, todo # <<>>, Head(todo).k = "leave", Then(<<>>), scopes' = Closed(scopes)
    PROVE  /\ scopes' \in Stacks /\ todo' \in Seq(Work)
           /\ Leads(todo', Level(Len(scopes'), Len(flags)), Home)
<1>1. PICK b \in Levels : Moves(Head(todo), Here, b) /\ Leads(<<>> \o Tail(todo), b, Home)
  BY MarkDone
<1>2. todo' = <<>> \o Tail(todo) /\ <<>> \o Tail(todo) \in Seq(Work)
  BY MarkDone DEF Then
<1>3. Here.scopes = Len(scopes) /\ Here.flags = Len(flags)
  BY DEF Here, Level
<1>4. Len(scopes) >= 2 /\ b = Level(Len(scopes) - 1, Len(flags))
  BY <1>1, <1>3 DEF Moves
<1>5. scopes' \in Stacks /\ Len(scopes') = Len(scopes) - 1
  BY <1>4, ClosedStack DEF IInv
<1> QED
  BY <1>1, <1>2, <1>4, <1>5

LEMMA CheckLeaveKeeps ==
    ASSUME IInv, CheckLeave
    PROVE  IInv'
<1>1. /\ todo # <<>> /\ Head(todo).k = "leave" /\ phase = "analyse"
      /\ Then(<<>>) /\ Analysing
      /\ scopes' = Closed(scopes) /\ error_count' = error_count
  BY DEF CheckLeave, Doing, node
<1>2. error_count' \in Nat
  BY <1>1 DEF IInv
<1> QED
  BY <1>1, <1>2, Leaving, CheckKeeps

LEMMA PartsArePlain ==
    ASSUME NEW s \in Nodes, s.k \in {"expr", "if", "while", "switch", "do", "jump"}
    PROVE  Parts(s) \in Seq(Plain)
<1>1. CASE s.k = "expr"
  BY <1>1, NodeFields, ReferencesArePlain DEF Parts
<1>2. CASE s.k = "if"
  <2>1. s.cond \in Seq(Plain) /\ IfAny(s.yes) \in Seq(Plain) /\ IfAny(s.no) \in Seq(Plain)
    BY <1>2, NodeFields, ReferencesArePlain, OneIsPlain
  <2>2. Parts(s) = s.cond \o IfAny(s.yes) \o IfAny(s.no)
    BY <1>2 DEF Parts
  <2> QED
    BY <2>1, <2>2
<1>3. CASE s.k \in {"while", "switch"}
  <2>1. s.cond \in Seq(Plain) /\ IfAny(s.body) \in Seq(Plain)
    BY <1>3, NodeFields, ReferencesArePlain, OneIsPlain
  <2>2. Parts(s) = s.cond \o IfAny(s.body)
    BY <1>3 DEF Parts
  <2> QED
    BY <2>1, <2>2
<1>4. CASE s.k = "do"
  <2>1. s.cond \in Seq(Plain) /\ IfAny(s.body) \in Seq(Plain)
    BY <1>4, NodeFields, ReferencesArePlain, OneIsPlain
  <2>2. Parts(s) = IfAny(s.body) \o s.cond
    BY <1>4 DEF Parts
  <2> QED
    BY <2>1, <2>2
<1>5. CASE s.k = "jump"
  BY <1>5 DEF Parts
<1> QED
  BY <1>1, <1>2, <1>3, <1>4, <1>5

LEMMA CheckStatementKeeps ==
    ASSUME IInv, CheckStatement
    PROVE  IInv'
<1> DEFINE s == Head(todo)
<1>1. /\ todo # <<>> /\ s.k \in {"expr", "if", "while", "switch", "do", "jump"}
      /\ phase = "analyse" /\ Then(Parts(s)) /\ Analysing
      /\ scopes' = scopes /\ error_count' = error_count
  BY DEF CheckStatement, Doing, node
<1>2. s \in Nodes /\ s.k \notin {"enter", "leave", "save", "restore", "join"}
  BY <1>1, HeadIsWork, WorkKinds DEF Statements
<1>3. Parts(s) \in Seq(Plain)
  BY <1>1, <1>2, PartsArePlain
<1>4. scopes \in Stacks /\ error_count' \in Nat
  BY <1>1 DEF IInv
<1>5. todo' \in Seq(Work) /\ Leads(todo', Level(Len(scopes'), Len(flags)), Home)
  BY <1>1, <1>2, <1>3, <1>4, GoesOn
<1> QED
  BY <1>1, <1>4, <1>5, CheckKeeps

LEMMA LabelStack ==
    ASSUME scopes \in Stacks, NEW l \in STRING, NEW at \in Nat
    PROVE  /\ WithLabel(l, at) \in Stacks /\ Len(WithLabel(l, at)) = Len(scopes)
           /\ NotedLabel(l, at) \in Stacks /\ Len(NotedLabel(l, at)) = Len(scopes)
<1>1. Symbol("LABEL", at, 0) \in Symbols
  BY DEF Symbol, Symbols
<1>2. WithLabel(l, at) \in Stacks /\ Len(WithLabel(l, at)) = Len(scopes)
  BY <1>1, DeclaredStack DEF WithLabel
<1> QED
  BY <1>2 DEF NotedLabel

LEMMA CheckLabelKeeps ==
    ASSUME IInv, CheckLabel
    PROVE  IInv'
<1> DEFINE s == Head(todo)
<1>1. /\ todo # <<>> /\ s.k = "label" /\ phase = "analyse"
      /\ Then(IfAny(s.body)) /\ Analysing /\ scopes' = WithLabel(s.n, s.at)
      /\ Complain(s.n \in DOMAIN Current(scopes))
  BY DEF CheckLabel, Doing, node
<1>2. s \in Nodes /\ s.k \notin {"enter", "leave", "save", "restore", "join"}
  BY <1>1, HeadIsWork, WorkKinds DEF Statements
<1>3. s.n \in STRING /\ s.at \in Nat /\ IfAny(s.body) \in Seq(Plain)
  BY <1>1, <1>2, MoreFields, OneIsPlain
<1>4. scopes \in Stacks /\ error_count' \in Nat
  BY <1>1, Complaint DEF IInv
<1>5. scopes' \in Stacks /\ Len(scopes') = Len(scopes)
  BY <1>1, <1>3, <1>4, LabelStack
<1>6. todo' \in Seq(Work) /\ Leads(todo', Level(Len(scopes'), Len(flags)), Home)
  BY <1>1, <1>2, <1>3, <1>5, GoesOn
<1> QED
  BY <1>1, <1>4, <1>5, <1>6, CheckKeeps

LEMMA CheckGotoKeeps ==
    ASSUME IInv, CheckGoto
    PROVE  IInv'
<1> DEFINE s == Head(todo)
<1>1. /\ todo # <<>> /\ s.k = "goto" /\ phase = "analyse"
      /\ Then(<<>>) /\ Analysing /\ scopes' = NotedLabel(s.n, s.at)
      /\ error_count' = error_count
  BY DEF CheckGoto, Doing, node
<1>2. s \in Nodes /\ s.k \notin {"enter", "leave", "save", "restore", "join"}
  BY <1>1, HeadIsWork, WorkKinds DEF Statements
<1>3. s.n \in STRING /\ s.at \in Nat /\ <<>> \in Seq(Plain)
  BY <1>1, <1>2, MoreFields
<1>4. scopes \in Stacks /\ error_count' \in Nat
  BY <1>1 DEF IInv
<1>5. scopes' \in Stacks /\ Len(scopes') = Len(scopes)
  BY <1>1, <1>3, <1>4, LabelStack
<1>6. todo' \in Seq(Work) /\ Leads(todo', Level(Len(scopes'), Len(flags)), Home)
  BY <1>1, <1>2, <1>3, <1>5, GoesOn
<1> QED
  BY <1>1, <1>4, <1>5, <1>6, CheckKeeps

LEMMA AnalyseEndKeeps ==
    ASSUME IInv, AnalyseEnd
    PROVE  IInv'
<1>1. todo = <<>> /\ ast \in Seq(Nodes) /\ Leads(todo, Here, Home)
  BY DEF IInv, AnalyseEnd
<1>2. Here = Home /\ Here \in Levels
  BY <1>1, WalkNowhere, HereIsLevel DEF IInv, Here
<1>3. CASE error_count = 0
  <2>1. /\ phase' = "prototypes" /\ todo' = ast /\ scopes' = GlobalOnly
        /\ flags' = flags
    BY <1>3 DEF AnalyseEnd
  <2>2. scopes' \in Stacks /\ Len(scopes') = 1
    BY <2>1, GlobalIsStack
  <2>3. Len(scopes) = 1
    BY <1>2 DEF Here, Home, Level
  <2>4. Level(Len(scopes'), Len(flags)) = Here
    BY <2>2, <2>3 DEF Here
  <2>5. ast \in Seq(Work) /\ Leads(ast, Here, Home)
    BY <1>1, <1>2, NodesArePlain, PlainWalk
  <2>6. todo' \in Seq(Work) /\ Leads(todo', Level(Len(scopes'), Len(flags')), Home)
    BY <2>1, <2>4, <2>5
  <2> QED
    BY <2>1, <2>2, <2>6 DEF IInv, AnalyseEnd, Here
<1>4. CASE error_count # 0
  BY <1>4 DEF IInv, AnalyseEnd, Here
<1> QED
  BY <1>3, <1>4

\* ... and of the code generator.

LEMMA PrototypesKeeps ==
    ASSUME IInv, Prototypes
    PROVE  IInv'
<1>1. ast \in Seq(Nodes) /\ scopes \in Stacks
  BY DEF IInv
<1>2. scopes' \in Stacks /\ Len(scopes') = Len(scopes)
  BY <1>1, PrototypesStack DEF Prototypes
<1> QED
  BY <1>2 DEF IInv, Prototypes, Here

\* Work of the code generator that goes on with tasks.
LEMMA GenerateGoesOn ==
    ASSUME IInv, phase = "generate", Generating, todo # <<>>,
           Head(todo).k \notin {"enter", "leave", "save", "restore", "join"},
           NEW tasks, Even(tasks, Here), Then(tasks),
           scopes' \in Stacks, Len(scopes') = Len(scopes),
           flags' = flags, in_return_block' \in BOOLEAN
    PROVE  IInv'
<1>1. tasks \in Seq(Work) /\ Leads(tasks, Here, Here)
  BY DEF Even
<1>2. Here \in Levels /\ Level(Len(scopes'), Len(flags')) = Here
  BY HereIsLevel DEF IInv, Here
<1>3. todo' \in Seq(Work) /\ Leads(todo', Here, Home)
  BY <1>1, <1>2, Continues DEF Then
<1>4. flags' \in Seq(BOOLEAN)
  BY DEF IInv
<1> QED
  BY <1>2, <1>3, <1>4, GenerateKeeps

LEMMA PlainHere ==
    ASSUME IInv, NEW tasks \in Seq(Plain)
    PROVE  Even(tasks, Here)
<1>1. Here \in Levels
  BY HereIsLevel DEF IInv, Here
<1> QED
  BY <1>1, PlainEven

LEMMA NothingHere ==
    ASSUME IInv
    PROVE  Even(<<>>, Here)
<1>1. <<>> \in Seq(Plain)
  OBVIOUS
<1> QED
  BY <1>1, PlainHere

LEMMA SkipKeeps ==
    ASSUME IInv, Skip
    PROVE  IInv'
<1>1. /\ todo # <<>> /\ Head(todo).k \in Statements \cup {"function"}
      /\ phase = "generate" /\ Then(<<>>) /\ Generating
      /\ scopes' = scopes /\ flags' = flags /\ in_return_block' = in_return_block
  BY DEF Skip, Doing, node
<1>2. Head(todo).k \notin {"enter", "leave", "save", "restore", "join"}
  BY <1>1 DEF Statements
<1>3. Even(<<>>, Here)
  BY NothingHere
<1>4. scopes' \in Stacks /\ in_return_block' \in BOOLEAN
  BY <1>1 DEF IInv
<1> QED
  BY <1>1, <1>2, <1>3, <1>4, GenerateGoesOn

LEMMA GenerateUseKeeps ==
    ASSUME IInv, GenerateUse
    PROVE  IInv'
<1>1. /\ todo # <<>> /\ Head(todo).k \in {"use", "call"}
      /\ phase = "generate" /\ Then(<<>>) /\ Generating
      /\ scopes' = scopes /\ flags' = flags /\ in_return_block' = in_return_block
  BY DEF GenerateUse, Doing, node
<1>2. Head(todo).k \notin {"enter", "leave", "save", "restore", "join"}
  BY <1>1
<1>3. Even(<<>>, Here)
  BY NothingHere
<1>4. scopes' \in Stacks /\ in_return_block' \in BOOLEAN
  BY <1>1 DEF IInv
<1> QED
  BY <1>1, <1>2, <1>3, <1>4, GenerateGoesOn

LEMMA GenerateDeclarationKeeps ==
    ASSUME IInv, GenerateDeclaration
    PROVE  IInv'
<1> DEFINE d == Head(todo).d
           tasks == IF d.n \in DOMAIN Current(scopes) \/ Len(scopes) = 1
                    THEN <<>> ELSE d.init
<1>1. /\ todo # <<>> /\ Head(todo).k = "declaration"
      /\ phase = "generate" /\ Then(tasks) /\ Generating
      /\ scopes' = Declared(scopes, d.n, Symbol("VARIABLE", d.at, 0))
      /\ flags' = flags /\ in_return_block' = in_return_block
  BY DEF GenerateDeclaration, Reached, Doing, node
<1>2. Head(todo) \in Nodes
  BY <1>1, HeadIsWork, WorkKinds DEF Statements
<1>3. d \in Declarators
  BY <1>1, <1>2, NodeFields
<1>4. d.n \in STRING /\ Symbol("VARIABLE", d.at, 0) \in Symbols /\ d.init \in Seq(References)
  BY <1>3 DEF Declarators, Symbol, Symbols
<1>5. tasks \in Seq(Plain)
  <2>1. d.init \in Seq(Plain) /\ <<>> \in Seq(Plain)
    BY <1>4, ReferencesArePlain
  <2> QED
    BY <2>1
<1>6. scopes \in Stacks /\ in_return_block' \in BOOLEAN
  BY <1>1 DEF IInv
<1> HIDE DEF d, tasks
<1>7. scopes' \in Stacks /\ Len(scopes') = Len(scopes)
  BY <1>1, <1>4, <1>6, DeclaredStack
<1>8. Even(tasks, Here)
  BY <1>5, PlainHere
<1>9. Head(todo).k \notin {"enter", "leave", "save", "restore", "join"}
  BY <1>1
<1> QED
  BY <1>1, <1>6, <1>7, <1>8, <1>9, GenerateGoesOn

LEMMA GenerateFunctionKeeps ==
    ASSUME IInv, GenerateFunction
    PROVE  IInv'
<1> DEFINE f == Head(todo)
           items == f.body.items
           block == Enter \o items \o Leave
           q == block \o Leave
<1>1. /\ todo # <<>> /\ f.k = "function" /\ f.body # NoNode
      /\ phase = "generate" /\ Then(q) /\ Generating
      /\ scopes' = WithParams(Opened(WithFunction(scopes, f)), f.params)
      /\ flags' = flags /\ in_return_block' = FALSE
  BY DEF GenerateFunction, Doing, node
<1>2. f \in Nodes /\ f.k \notin {"enter", "leave", "save", "restore", "join"}
  BY <1>1, HeadIsWork, WorkKinds
<1>3. items \in Seq(Plain)
  BY <1>1, <1>2, MoreFields, NodesArePlain
<1>4. scopes \in Stacks /\ flags' \in Seq(BOOLEAN)
  BY <1>1 DEF IInv
<1>5. scopes' \in Stacks /\ Len(scopes') = Len(scopes) + 1
  BY <1>1, <1>2, <1>4, EnteredFunction
<1>6. Here \in Levels /\ Level(Len(scopes'), Len(flags')) = Up(Here)
  BY <1>1, <1>5, HereIsLevel DEF IInv, Here, Up, Level
<1>7. Up(Here) \in Levels /\ Up(Up(Here)) \in Levels /\ Leads(Leave, Up(Here), Here)
  BY <1>6, LevelSteps
<1> HIDE DEF items
<1>8. Even(block, Up(Here))
  BY <1>3, <1>7, PlainEven, EvenScope
<1> HIDE DEF block
<1>9. q \in Seq(Work) /\ Leads(q, Up(Here), Here)
  BY <1>7, <1>8, MarksAreWork, WorkOn DEF Even
<1> HIDE DEF q
<1>10. todo' \in Seq(Work) /\ Leads(todo', Up(Here), Home)
  BY <1>1, <1>2, <1>7, <1>9, Continues DEF Then
<1> QED
  BY <1>1, <1>4, <1>5, <1>6, <1>10, GenerateKeeps

LEMMA GenerateStatementKeeps ==
    ASSUME IInv, GenerateStatement
    PROVE  IInv'
<1> DEFINE s == Head(todo)
<1>1. /\ todo # <<>>
      /\ s.k \in {"expr", "compound", "if", "while", "do", "switch", "for"}
      /\ phase = "generate" /\ Then(Schedule(s)) /\ Generating
      /\ scopes' = scopes /\ flags' = flags /\ in_return_block' = in_return_block
  BY DEF GenerateStatement, Reached, Doing, node
<1>2. s \in Nodes /\ s.k \notin {"enter", "leave", "save", "restore", "join"}
  BY <1>1, HeadIsWork, WorkKinds DEF Statements
<1>3. Here \in Levels
  BY HereIsLevel DEF IInv, Here
<1>4. Even(Schedule(s), Here)
  BY <1>1, <1>2, <1>3, ScheduleEven
<1>5. scopes' \in Stacks /\ in_return_block' \in BOOLEAN
  BY <1>1 DEF IInv
<1> QED
  BY <1>1, <1>2, <1>4, <1>5, GenerateGoesOn

LEMMA GenerateScopeKeeps ==
    ASSUME IInv, GenerateScope
    PROVE  IInv'
<1>1. /\ todo # <<>> /\ Head(todo).k \in {"enter", "leave"}
      /\ phase = "generate" /\ Then(<<>>) /\ Generating
      /\ scopes' = IF Head(todo).k = "enter" THEN Opened(scopes) ELSE Closed(scopes)
      /\ flags' = flags /\ in_return_block' = in_return_block
  BY DEF GenerateScope, Doing, node
<1>2. scopes \in Stacks /\ flags' \in Seq(BOOLEAN) /\ in_return_block' \in BOOLEAN
  BY <1>1 DEF IInv
<1>3. CASE Head(todo).k = "enter"
  <2>1. PICK b \in Levels : Moves(Head(todo), Here, b) /\ Leads(<<>> \o Tail(todo), b, Home)
    BY <1>1, MarkDone
  <2>2. todo' = <<>> \o Tail(todo) /\ <<>> \o Tail(todo) \in Seq(Work)
    BY <1>1, MarkDone DEF Then
  <2>3. b = Level(Len(scopes) + 1, Len(flags))
    BY <2>1, <1>3 DEF Moves, Here, Level
  <2>4. scopes' \in Stacks /\ Len(scopes') = Len(scopes) + 1
    BY <1>1, <1>2, <1>3, OpenedStack
  <2>5. Leads(todo', Level(Len(scopes'), Len(flags')), Home)
    BY <1>1, <2>1, <2>2, <2>3, <2>4
  <2> QED
    BY <1>1, <1>2, <2>2, <2>4, <2>5, GenerateKeeps
<1>4. CASE Head(todo).k = "leave"
  <2>1. scopes' = Closed(scopes)
    BY <1>1, <1>4
  <2>2. /\ scopes' \in Stacks /\ todo' \in Seq(Work)
        /\ Leads(todo', Level(Len(scopes'), Len(flags)), Home)
    BY <1>1, <1>4, <2>1, Leaving
  <2> QED
    BY <1>1, <1>2, <2>2, GenerateKeeps
<1> QED
  BY <1>1, <1>3, <1>4

\* Saving and giving back a copy of the flag: there are as many as are needed.
LEMMA FlagMarkKeeps ==
    ASSUME IInv, SaveFlag \/ RestoreFlag \/ JoinFlags
    PROVE  IInv'
<1>1. /\ todo # <<>> /\ Head(todo).k \in {"save", "restore", "join"}
      /\ phase = "generate" /\ Then(<<>>) /\ Generating /\ scopes' = scopes
  BY DEF SaveFlag, RestoreFlag, JoinFlags, Doing, node
<1>2. PICK b \in Levels : Moves(Head(todo), Here, b) /\ Leads(<<>> \o Tail(todo), b, Home)
  BY <1>1, MarkDone
<1>3. todo' = <<>> \o Tail(todo) /\ <<>> \o Tail(todo) \in Seq(Work)
  BY <1>1, MarkDone DEF Then
<1>4. scopes \in Stacks /\ flags \in Seq(BOOLEAN) /\ in_return_block \in BOOLEAN
  BY DEF IInv
<1>5. Here.scopes = Len(scopes) /\ Here.flags = Len(flags) /\ Len(flags) \in Nat
  BY <1>4 DEF Here, Level
<1>6. flags' \in Seq(BOOLEAN) /\ in_return_block' \in BOOLEAN
      /\ b = Level(Len(scopes'), Len(flags'))
  <2>1. CASE SaveFlag
    <3>1. flags' = <<in_return_block>> \o flags /\ in_return_block' = FALSE
          /\ Head(todo).k = "save"
      BY <2>1 DEF SaveFlag, Doing, node
    <3>2. <<in_return_block>> \in Seq(BOOLEAN)
      BY <1>4
    <3>3. flags' \in Seq(BOOLEAN) /\ Len(flags') = Len(flags) + 1
      BY <1>4, <3>1, <3>2
    <3> QED
      BY <1>1, <1>2, <1>5, <3>1, <3>3 DEF Moves
  <2>2. CASE RestoreFlag
    <3>1. flags' = Tail(flags) /\ in_return_block' = Head(flags)
          /\ Head(todo).k = "restore"
      BY <2>2 DEF RestoreFlag, Doing, node
    <3>2. Len(flags) >= 1 /\ b = Level(Len(scopes), Len(flags) - 1)
      BY <1>2, <1>5, <3>1 DEF Moves
    <3>3. flags # <<>>
      BY <3>2
    <3>4. flags' \in Seq(BOOLEAN) /\ Len(flags') = Len(flags) - 1 /\ Head(flags) \in BOOLEAN
      BY <1>4, <3>1, <3>3
    <3> QED
      BY <1>1, <3>1, <3>2, <3>4
  <2>3. CASE JoinFlags
    <3>1. flags' = Tail(Tail(flags)) /\ Head(todo).k = "join"
          /\ in_return_block' = (flags[2] \/ (flags[1] /\ in_return_block))
      BY <2>3 DEF JoinFlags, Doing, node
    <3>2. Len(flags) >= 2 /\ b = Level(Len(scopes), Len(flags) - 2)
      BY <1>2, <1>5, <3>1 DEF Moves
    <3>3. flags # <<>>
      BY <3>2
    <3>4. Tail(flags) \in Seq(BOOLEAN) /\ Len(Tail(flags)) = Len(flags) - 1
      BY <1>4, <3>3
    <3>5. Tail(flags) # <<>>
      <4> DEFINE q == Tail(flags)
      <4>1. Len(q) >= 1
        BY <1>5, <3>2, <3>4
      <4> HIDE DEF q
      <4>2. q # <<>>
        BY <4>1
      <4> QED
        BY <4>2 DEF q
    <3>6. flags' \in Seq(BOOLEAN) /\ Len(flags') = Len(flags) - 2
      BY <3>1, <3>2, <3>4, <3>5
    <3> QED
      BY <1>1, <3>1, <3>2, <3>6
  <2> QED
    BY <2>1, <2>2, <2>3
<1>7. scopes' \in Stacks /\ todo' \in Seq(Work)
      /\ Leads(todo', Level(Len(scopes'), Len(flags')), Home)
  BY <1>1, <1>2, <1>3, <1>4, <1>6
<1> QED
  BY <1>1, <1>6, <1>7, GenerateKeeps

LEMMA GenerateLabelKeeps ==
    ASSUME IInv, GenerateLabel
    PROVE  IInv'
<1> DEFINE s == Head(todo)
<1>1. /\ todo # <<>> /\ s.k = "label" /\ phase = "generate"
      /\ Then(IfAny(s.body)) /\ Generating /\ scopes' = NotedLabel(s.n, s.at)
      /\ flags' = flags /\ in_return_block' = in_return_block
  BY DEF GenerateLabel, Reached, Doing, node
<1>2. s \in Nodes /\ s.k \notin {"enter", "leave", "save", "restore", "join"}
  BY <1>1, HeadIsWork, WorkKinds DEF Statements
<1>3. s.n \in STRING /\ s.at \in Nat /\ Even(IfAny(s.body), Here)
  BY <1>1, <1>2, MoreFields, OneIsPlain, PlainHere
<1>4. scopes \in Stacks /\ in_return_block' \in BOOLEAN
  BY <1>1 DEF IInv
<1>5. scopes' \in Stacks /\ Len(scopes') = Len(scopes)
  BY <1>1, <1>3, <1>4, LabelStack
<1> QED
  BY <1>1, <1>2, <1>3, <1>4, <1>5, GenerateGoesOn

LEMMA GenerateJumpKeeps ==
    ASSUME IInv, GenerateJump
    PROVE  IInv'
<1> DEFINE s == Head(todo)
<1>1. /\ todo # <<>> /\ s.k \in {"goto", "jump"} /\ phase = "generate"
      /\ Then(<<>>) /\ Generating
      /\ scopes' = IF s.k = "goto" THEN NotedLabel(s.n, s.at) ELSE scopes
      /\ flags' = flags /\ in_return_block' = TRUE
  BY DEF GenerateJump, Reached, Doing, node
<1>2. s \in Nodes /\ s.k \notin {"enter", "leave", "save", "restore", "join"}
  BY <1>1, HeadIsWork, WorkKinds DEF Statements
<1>3. s.k = "goto" => s.n \in STRING /\ s.at \in Nat
  BY <1>1, <1>2, MoreFields
<1>4. scopes \in Stacks /\ Even(<<>>, Here)
  BY NothingHere DEF IInv
<1>5. scopes' \in Stacks /\ Len(scopes') = Len(scopes)
  BY <1>1, <1>3, <1>4, LabelStack
<1> QED
  BY <1>1, <1>2, <1>4, <1>5, GenerateGoesOn

LEMMA GenerateEndKeeps ==
    ASSUME IInv, GenerateEnd
    PROVE  IInv'
  BY DEF IInv, GenerateEnd, Here

-------------------------------------------------------------------------------
LEMMA NextKeeps == IInv /\ [Next]_vars => IInv'
<1> SUFFICES ASSUME IInv, [Next]_vars PROVE IInv'
  OBVIOUS
<1>1. CASE ExternalDeclaration \/ ParseEnd
  BY <1>1, ExternalDeclarationKeeps, ParseEndKeeps
<1>2. CASE CheckUse \/ CheckCall
  BY <1>2, CheckReferenceKeeps
<1>3. CASE CheckDeclaration \/ CheckAdded \/ CheckFunction \/ CheckScope \/ CheckLeave
  BY <1>3, CheckDeclarationKeeps, CheckAddedKeeps, CheckFunctionKeeps, CheckScopeKeeps,
     CheckLeaveKeeps
<1>4. CASE CheckStatement \/ CheckLabel \/ CheckGoto \/ AnalyseEnd
  BY <1>4, CheckStatementKeeps, CheckLabelKeeps, CheckGotoKeeps, AnalyseEndKeeps
<1>5. CASE Prototypes \/ Skip \/ GenerateUse \/ GenerateDeclaration \/ GenerateFunction
  BY <1>5, PrototypesKeeps, SkipKeeps, GenerateUseKeeps, GenerateDeclarationKeeps,
     GenerateFunctionKeeps
<1>6. CASE GenerateStatement \/ GenerateScope
  BY <1>6, GenerateStatementKeeps, GenerateScopeKeeps
<1>7. CASE SaveFlag \/ RestoreFlag \/ JoinFlags
  BY <1>7, FlagMarkKeeps
<1>8. CASE GenerateLabel \/ GenerateJump \/ GenerateEnd
  BY <1>8, GenerateLabelKeeps, GenerateJumpKeeps, GenerateEndKeeps
<1>9. CASE UNCHANGED vars
  BY <1>9 DEF IInv, Here, vars
<1> QED
  BY <1>1, <1>2, <1>3, <1>4, <1>5, <1>6, <1>7, <1>8, <1>9 DEF Next, Finished

LEMMA InvariantHasTypes == IInv => TypeOK
<1> SUFFICES ASSUME IInv PROVE TypeOK
  OBVIOUS
<1>1. ASSUME NEW i \in DOMAIN todo PROVE todo[i].k \in Tasks
  <2>1. todo[i] \in Work
    BY DEF IInv
  <2> QED
    BY <2>1, WorkKinds
<1>2. ASSUME todo = <<>> PROVE Len(scopes) = 1 /\ flags = <<>>
  <2>1. Here = Home
    BY <1>2, WalkNowhere DEF IInv
  <2>2. Len(scopes) = 1 /\ Len(flags) = 0
    BY <2>1 DEF Here, Home, Level
  <2> QED
    BY <2>2 DEF IInv
<1> QED
  BY <1>1, <1>2 DEF IInv, TypeOK

\* In every state the tasks of the two walks are nodes of the AST, uses and
\* marks; and whenever a walk has ended, every scope it opened is closed again
\* and every copy of in_return_block given back, whatever the program.
THEOREM TypeInvariance == Spec => []TypeOK
<1>1. Spec => []IInv
  BY InitHolds, NextKeeps, PTL DEF Spec
<1> QED
  BY <1>1, InvariantHasTypes, PTL

-------------------------------------------------------------------------------
\* What is found by one walk and what by the other.  A set X of nodes and names
\* is complete when it holds whatever is inside its nodes and the analysis has
\* met its names.

Inside(s) ==
    CASE s.k \in {"expr", "if", "while", "switch", "do", "jump"} -> Parts(s)
      [] s.k = "declaration" -> s.d.init
      [] s.k = "compound" -> s.items
      [] s.k = "for" -> IfAny(s.init) \o s.cond \o s.update \o IfAny(s.body)
      [] s.k \in {"label", "function"} -> IfAny(s.body)
      [] OTHER -> <<>>
Met(x, D) == x.k \in {"use", "call"} => x.at \in D
Complete(X, D) == \A x \in X : Met(x, D) /\ Inside(x) \in Seq(X)
Pending(X, q, D) == \A x \in X : x \in ToSet(q) \/ (Met(x, D) /\ Inside(x) \in Seq(X))

Analysed == \E X : ast \in Seq(X) /\ Pending(X, todo, DOMAIN checked)
Analysable == \E X : todo \in Seq(X \cup Marks) /\ Complete(X, DOMAIN checked)
Covered ==
    /\ DOMAIN generated \subseteq DOMAIN checked
    /\ phase = "analyse" => Analysed
    /\ phase \in {"prototypes", "generate"} => Analysable

LEMMA ToSetHolds ==
    ASSUME NEW N, NEW q \in Seq(N)
    PROVE  /\ q \in Seq(ToSet(q))
           /\ \A x \in ToSet(q) : x \in N
           /\ q # <<>> => \A x \in ToSet(q) : x = Head(q) \/ x \in ToSet(Tail(q))
<1>1. q \in Seq(ToSet(q))
  BY DEF ToSet
<1>2. \A x \in ToSet(q) : x \in N
  BY DEF ToSet
<1>3. ASSUME q # <<>>, NEW x \in ToSet(q)
      PROVE  x = Head(q) \/ x \in ToSet(Tail(q))
  <2>1. PICK i \in 1 .. Len(q) : x = q[i]
    BY DEF ToSet
  <2>2. CASE i = 1
    BY <1>3, <2>1, <2>2
  <2>3. CASE i # 1
    <3>1. /\ i - 1 \in 1 .. Len(Tail(q)) /\ Tail(q)[i - 1] = q[(i - 1) + 1]
          /\ (i - 1) + 1 = i /\ Tail(q) \in Seq(N)
      BY <1>3, <2>1, <2>3
    <3>2. i - 1 \in DOMAIN Tail(q)
      BY <3>1
    <3> QED
      BY <2>1, <3>1, <3>2 DEF ToSet
  <2> QED
    BY <2>2, <2>3
<1> QED
  BY <1>1, <1>2, <1>3

LEMMA ToSetOn ==
    ASSUME NEW N, NEW p \in Seq(N), NEW q \in Seq(N)
    PROVE  ToSet(p \o q) = ToSet(p) \cup ToSet(q)
<1> DEFINE r == p \o q
           m == Len(p)
           n == Len(q)
<1>1. m \in Nat /\ n \in Nat /\ DOMAIN p = 1 .. m /\ DOMAIN q = 1 .. n /\ DOMAIN r = 1 .. m + n
  OBVIOUS
<1>2. \A i \in 1 .. m + n : r[i] = IF i <= m THEN p[i] ELSE q[i - m]
  OBVIOUS
<1> HIDE DEF r, m, n
<1>3. ASSUME NEW i \in 1 .. m + n PROVE r[i] \in ToSet(p) \cup ToSet(q)
  <2>1. CASE i <= m
    <3>1. i \in DOMAIN p /\ r[i] = p[i]
      BY <1>1, <1>2, <2>1
    <3>2. \A j \in DOMAIN p : p[j] \in ToSet(p)
      BY DEF ToSet
    <3> QED
      BY <3>1, <3>2
  <2>2. CASE ~(i <= m)
    <3>1. i - m \in DOMAIN q /\ r[i] = q[i - m]
      BY <1>1, <1>2, <2>2
    <3>2. \A j \in DOMAIN q : q[j] \in ToSet(q)
      BY DEF ToSet
    <3> QED
      BY <3>1, <3>2
  <2> QED
    BY <2>1, <2>2
<1>4. ASSUME NEW i \in 1 .. m PROVE p[i] \in ToSet(r)
  <2>1. i \in 1 .. m + n /\ r[i] = p[i]
    BY <1>1, <1>2
  <2> QED
    BY <1>1, <2>1 DEF ToSet
<1>5. ASSUME NEW i \in 1 .. n PROVE q[i] \in ToSet(r)
  <2>1. m + i \in 1 .. m + n /\ ~(m + i <= m) /\ (m + i) - m = i
    BY <1>1
  <2>2. r[m + i] = q[i]
    BY <1>2, <2>1
  <2> QED
    BY <1>1, <2>1, <2>2 DEF ToSet
<1>6. ToSet(r) \subseteq ToSet(p) \cup ToSet(q)
  BY <1>1, <1>3 DEF ToSet
<1>7. ToSet(p) \cup ToSet(q) \subseteq ToSet(r)
  <2>1. ToSet(p) \subseteq ToSet(r)
    <3>1. ASSUME NEW x \in ToSet(p) PROVE x \in ToSet(r)
      <4>1. PICK i \in DOMAIN p : x = p[i]
        BY DEF ToSet
      <4> QED
        BY <1>1, <1>4, <4>1
    <3> QED
      BY <3>1
  <2>2. ToSet(q) \subseteq ToSet(r)
    <3>1. ASSUME NEW x \in ToSet(q) PROVE x \in ToSet(r)
      <4>1. PICK i \in DOMAIN q : x = q[i]
        BY DEF ToSet
      <4> QED
        BY <1>1, <1>5, <4>1
    <3> QED
      BY <3>1
  <2> QED
    BY <2>1, <2>2
<1>8. ToSet(r) = ToSet(p) \cup ToSet(q)
  BY <1>6, <1>7
<1> QED
  BY <1>8 DEF r

\* The parts of a list whose elements are all in X.
LEMMA SplitOn ==
    ASSUME NEW N, NEW X, NEW p \in Seq(N), NEW q \in Seq(N), p \o q \in Seq(X)
    PROVE  p \in Seq(X) /\ q \in Seq(X)
<1> DEFINE r == p \o q
           m == Len(p)
           n == Len(q)
<1>1. m \in Nat /\ n \in Nat /\ DOMAIN p = 1 .. m /\ DOMAIN q = 1 .. n /\ Len(r) = m + n
  OBVIOUS
<1>2. \A i \in 1 .. m + n : r[i] = IF i <= m THEN p[i] ELSE q[i - m]
  OBVIOUS
<1>3. \A i \in 1 .. Len(r) : r[i] \in X
  OBVIOUS
<1> HIDE DEF r
<1>4. ASSUME NEW i \in 1 .. m PROVE p[i] \in X
  <2>1. i \in 1 .. m + n /\ r[i] = p[i]
    BY <1>1, <1>2
  <2> QED
    BY <1>1, <1>3, <2>1
<1>5. ASSUME NEW i \in 1 .. n PROVE q[i] \in X
  <2>1. m + i \in 1 .. m + n /\ ~(m + i <= m) /\ (m + i) - m = i
    BY <1>1
  <2>2. r[m + i] = q[i]
    BY <1>2, <2>1
  <2> QED
    BY <1>1, <1>3, <2>1, <2>2
<1>6. p \in Seq(X)
  BY <1>4
<1>7. q \in Seq(X)
  BY <1>5
<1> QED
  BY <1>6, <1>7

LEMMA WiderSeq ==
    ASSUME NEW X, NEW Y, X \subseteq Y, NEW q \in Seq(X)
    PROVE  q \in Seq(Y)
  OBVIOUS

\* A step of the analysis takes a node from the list and puts what is inside it
\* there, or meets a name.
LEMMA AnalysisCovers ==
    ASSUME IInv, Covered, Analysing, phase = "analyse", todo # <<>>,
           NEW tasks \in Seq(Work), Then(tasks),
           DOMAIN checked \subseteq DOMAIN checked', Met(Head(todo), DOMAIN checked'),
           \A X : tasks \in Seq(X) => Inside(Head(todo)) \in Seq(X)
    PROVE  Covered'
<1> DEFINE D == DOMAIN checked
           E == DOMAIN checked'
<1>1. PICK X : ast \in Seq(X) /\ Pending(X, todo, D)
  BY DEF Covered, Analysed
<1> DEFINE Y == X \cup ToSet(tasks)
<1>2. D \subseteq E
  OBVIOUS
<1> HIDE DEF D, E
<1>3. todo' = tasks \o Tail(todo) /\ Tail(todo) \in Seq(Work)
  BY HeadIsWork DEF Then
<1>4. ToSet(todo') = ToSet(tasks) \cup ToSet(Tail(todo))
  <2> DEFINE rest == Tail(todo)
  <2>1. rest \in Seq(Work)
    BY <1>3
  <2> HIDE DEF rest
  <2>2. ToSet(tasks \o rest) = ToSet(tasks) \cup ToSet(rest)
    BY <2>1, ToSetOn
  <2> QED
    BY <1>3, <2>2 DEF rest
<1>5. tasks \in Seq(Y)
  <2>1. tasks \in Seq(ToSet(tasks))
    BY ToSetHolds
  <2> QED
    BY <2>1, WiderSeq
<1>6. ASSUME NEW x \in Y, x \notin ToSet(todo')
      PROVE  Met(x, E) /\ Inside(x) \in Seq(Y)
  <2>1. x \in X
    BY <1>4, <1>6
  <2>2. CASE x \in ToSet(todo)
    <3>1. x = Head(todo)
      BY <1>4, <1>6, <2>2, ToSetHolds DEF IInv
    <3> QED
      BY <1>5, <3>1 DEF E
  <2>3. CASE x \notin ToSet(todo)
    <3>1. Met(x, D) /\ Inside(x) \in Seq(X)
      BY <1>1, <2>1, <2>3 DEF Pending
    <3>2. Inside(x) \in Seq(Y)
      BY <3>1, WiderSeq
    <3> QED
      BY <1>2, <3>1, <3>2 DEF Met
  <2> QED
    BY <2>2, <2>3
<1>7. Pending(Y, todo', E)
  BY <1>6 DEF Pending
<1>8. ast' \in Seq(Y)
  <2>1. ast \in Seq(Y)
    BY <1>1, WiderSeq
  <2> QED
    BY <2>1 DEF Analysing
<1> HIDE DEF Y
<1>9. Analysed'
  BY <1>7, <1>8 DEF Analysed, E
<1>10. (DOMAIN generated \subseteq DOMAIN checked)'
  BY DEF Covered, Analysing
<1> QED
  BY <1>9, <1>10 DEF Covered, Analysing

\* One of the code generator takes one from it and puts nothing else there.
LEMMA GeneratorCovers ==
    ASSUME IInv, Covered, Generating, phase = "generate", todo # <<>>,
           NEW tasks \in Seq(Work), Then(tasks),
           tasks # <<>> => Head(todo).k \notin {"enter", "leave", "save", "restore", "join"},
           \A X : Complete(X, DOMAIN checked) /\ Head(todo) \in X => tasks \in Seq(X \cup Marks),
           DOMAIN generated' \subseteq DOMAIN checked
    PROVE  Covered'
<1>1. PICK X : todo \in Seq(X \cup Marks) /\ Complete(X, DOMAIN checked)
  BY DEF Covered, Analysable
<1>2. Head(todo) \in X \cup Marks /\ Tail(todo) \in Seq(X \cup Marks)
  BY <1>1
<1>3. tasks \in Seq(X \cup Marks)
  <2>1. CASE tasks = <<>>
    BY <2>1
  <2>2. CASE tasks # <<>>
    <3>1. Head(todo) \notin Marks
      BY <2>2 DEF Marks
    <3> QED
      BY <1>1, <1>2, <3>1
  <2> QED
    BY <2>1, <2>2
<1>4. todo' \in Seq(X \cup Marks)
  BY <1>2, <1>3 DEF Then
<1>5. checked' = checked /\ phase' = phase
  BY DEF Generating
<1>6. Analysable'
  BY <1>1, <1>4, <1>5 DEF Analysable
<1> QED
  BY <1>5, <1>6 DEF Covered

\* The same, for work that is no mark and tasks that are plain.
LEMMA AnalysisCoversPlain ==
    ASSUME IInv, Covered, Analysing, phase = "analyse", todo # <<>>,
           NEW inner \in Seq(Plain), Then(inner \o Leave) \/ Then(inner),
           checked' = checked, Head(todo).k \notin {"use", "call"}, Inside(Head(todo)) = inner
    PROVE  Covered'
<1>1. PICK rest \in Seq(Work) : Then(inner \o rest)
  <2>1. inner \o <<>> = inner /\ <<>> \in Seq(Work)
    OBVIOUS
  <2> QED
    BY <2>1, MarksAreWork
<1>2. inner \in Seq(Work)
  BY WiderSeq DEF Plain, Work
<1>3. inner \o rest \in Seq(Work)
  BY <1>2
<1>4. ASSUME NEW X, inner \o rest \in Seq(X) PROVE Inside(Head(todo)) \in Seq(X)
  BY <1>2, <1>4, SplitOn
<1>5. Met(Head(todo), DOMAIN checked')
  BY DEF Met
<1> QED
  BY <1>1, <1>3, <1>4, <1>5, AnalysisCovers

LEMMA CheckReferenceCovers ==
    ASSUME IInv, Covered, CheckUse \/ CheckCall
    PROVE  Covered'
<1>1. /\ todo # <<>> /\ Head(todo).k \in {"use", "call"} /\ phase = "analyse"
      /\ Then(<<>>) /\ Analysing
      /\ checked' = Noted(checked, Head(todo).at, Meaning(scopes, Head(todo).n))
  BY DEF CheckUse, CheckCall, Doing, node
<1>2. DOMAIN checked' = DOMAIN checked \cup {Head(todo).at}
  BY <1>1 DEF Noted
<1>3. Met(Head(todo), DOMAIN checked') /\ DOMAIN checked \subseteq DOMAIN checked'
  BY <1>2 DEF Met
<1>4. Inside(Head(todo)) = <<>>
  BY <1>1 DEF Inside
<1>5. ASSUME NEW X PROVE <<>> \in Seq(X)
  OBVIOUS
<1>6. <<>> \in Seq(Work) /\ \A X : <<>> \in Seq(X) => Inside(Head(todo)) \in Seq(X)
  BY <1>4, <1>5
<1> QED
  BY <1>1, <1>3, <1>6, AnalysisCovers

LEMMA CheckDeclarationCovers ==
    ASSUME IInv, Covered, CheckDeclaration
    PROVE  Covered'
<1> DEFINE d == Head(todo).d
           tasks == d.init \o <<[k |-> "add", d |-> d]>>
<1>1. /\ todo # <<>> /\ Head(todo).k = "declaration" /\ phase = "analyse"
      /\ Then(tasks) /\ Analysing /\ checked' = checked
  BY DEF CheckDeclaration, Doing, node
<1>2. Head(todo) \in Nodes
  BY <1>1, HeadIsWork, WorkKinds DEF Statements
<1>3. d \in Declarators
  BY <1>1, <1>2, NodeFields
<1>4. d.init \in Seq(Plain) /\ <<[k |-> "add", d |-> d]>> \in Seq(Plain)
  <2>1. d.init \in Seq(References)
    BY <1>3 DEF Declarators
  <2>2. [k |-> "add", d |-> d] \in Plain
    BY <1>3 DEF Additions, Plain
  <2> HIDE DEF d
  <2> QED
    BY <2>1, <2>2, ReferencesArePlain
<1>5. tasks \in Seq(Work)
  <2>1. tasks \in Seq(Plain)
    BY <1>4
  <2> QED
    BY <2>1, WiderSeq DEF Plain, Work
<1>6. Inside(Head(todo)) = d.init
  BY <1>1 DEF Inside
<1>7. ASSUME NEW X, tasks \in Seq(X) PROVE Inside(Head(todo)) \in Seq(X)
  <2> HIDE DEF d
  <2>1. d.init \in Seq(X)
    BY <1>4, <1>7, SplitOn
  <2> QED
    BY <1>6, <2>1
<1>8. Met(Head(todo), DOMAIN checked') /\ DOMAIN checked \subseteq DOMAIN checked'
  BY <1>1 DEF Met
<1> HIDE DEF d, tasks
<1> QED
  BY <1>1, <1>5, <1>7, <1>8, AnalysisCovers

LEMMA CheckMarkCovers ==
    ASSUME IInv, Covered, CheckAdded \/ CheckLeave \/ CheckGoto
    PROVE  Covered'
<1>1. /\ todo # <<>> /\ Head(todo).k \in {"add", "leave", "goto"} /\ phase = "analyse"
      /\ Then(<<>>) /\ Analysing /\ checked' = checked
  BY DEF CheckAdded, CheckLeave, CheckGoto, Doing, node
<1>2. Inside(Head(todo)) = <<>> /\ <<>> \in Seq(Plain)
  BY <1>1 DEF Inside
<1>3. Head(todo).k \notin {"use", "call"}
  BY <1>1
<1> QED
  BY <1>1, <1>2, <1>3, AnalysisCoversPlain

\* The statements that have others inside.
LEMMA InsideIsPlain ==
    ASSUME NEW s \in Nodes
    PROVE  Inside(s) \in Seq(Plain)
<1>1. CASE s.k \in {"expr", "if", "while", "switch", "do", "jump"}
  BY <1>1, PartsArePlain DEF Inside
<1>2. CASE s.k = "declaration"
  <2>1. s.d.init \in Seq(References)
    BY <1>2, NodeFields DEF Declarators
  <2> QED
    BY <1>2, <2>1, ReferencesArePlain DEF Inside
<1>3. CASE s.k = "compound"
  BY <1>3, NodeFields, NodesArePlain DEF Inside
<1>4. CASE s.k = "for"
  <2>1. /\ IfAny(s.init) \in Seq(Plain) /\ s.cond \in Seq(Plain)
        /\ s.update \in Seq(Plain) /\ IfAny(s.body) \in Seq(Plain)
    BY <1>4, MoreFields, ReferencesArePlain, OneIsPlain
  <2>2. Inside(s) = IfAny(s.init) \o s.cond \o s.update \o IfAny(s.body)
    BY <1>4 DEF Inside
  <2> QED
    BY <2>1, <2>2
<1>5. CASE s.k \in {"label", "function"}
  BY <1>5, MoreFields, OneIsPlain DEF Inside
<1>6. CASE s.k = "goto"
  BY <1>6 DEF Inside
<1> QED
  BY <1>1, <1>2, <1>3, <1>4, <1>5, <1>6, NodeFields DEF Statements

LEMMA CheckInsideCovers ==
    ASSUME IInv, Covered, CheckFunction \/ CheckScope \/ CheckStatement \/ CheckLabel
    PROVE  Covered'
<1> DEFINE s == Head(todo)
<1>1. /\ todo # <<>> /\ phase = "analyse" /\ Analysing /\ checked' = checked
      /\ s.k \in {"function", "compound", "for", "expr", "if", "while", "switch", "do",
                  "jump", "label"}
  BY DEF CheckFunction, CheckScope, CheckStatement, CheckLabel, Doing, node
<1>2. s \in Nodes /\ s.k \notin {"use", "call"}
  BY <1>1, HeadIsWork, WorkKinds DEF Statements
<1>3. Then(Inside(s) \o Leave) \/ Then(Inside(s))
  <2>1. CASE CheckFunction
    BY <2>1 DEF CheckFunction, Doing, node, Inside
  <2>2. CASE CheckScope
    <3>1. CASE s.k = "compound"
      BY <2>2, <3>1 DEF CheckScope, Doing, node, Inside
    <3>2. CASE s.k = "for"
      BY <2>2, <3>2 DEF CheckScope, Doing, node, Inside
    <3> QED
      BY <2>2, <3>1, <3>2 DEF CheckScope, Doing, node
  <2>3. CASE CheckStatement
    BY <2>3 DEF CheckStatement, Doing, node, Inside
  <2>4. CASE CheckLabel
    BY <2>4 DEF CheckLabel, Doing, node, Inside
  <2> QED
    BY <2>1, <2>2, <2>3, <2>4
<1>4. Inside(s) \in Seq(Plain)
  BY <1>2, InsideIsPlain
<1> QED
  BY <1>1, <1>2, <1>3, <1>4, AnalysisCoversPlain

LEMMA EmptyTasks == <<>> \in Seq(Work)
  OBVIOUS
LEMMA MarksGoAnywhere ==
    ASSUME NEW X
    PROVE  /\ Enter \in Seq(X \cup Marks) /\ Leave \in Seq(X \cup Marks)
           /\ Save \in Seq(X \cup Marks) /\ Restore \in Seq(X \cup Marks)
           /\ Join \in Seq(X \cup Marks)
<1>1. /\ [k |-> "enter"] \in Marks /\ [k |-> "leave"] \in Marks /\ [k |-> "save"] \in Marks
      /\ [k |-> "restore"] \in Marks /\ [k |-> "join"] \in Marks
  BY DEF Marks
<1> QED
  BY <1>1 DEF Enter, Leave, Save, Restore, Join

\* Between the walks.
LEMMA InitCovers == Init => Covered
  BY DEF Init, Covered

LEMMA ParserCovers ==
    ASSUME IInv, Covered, ExternalDeclaration \/ ParseEnd
    PROVE  Covered'
<1>1. CASE ExternalDeclaration
  BY <1>1 DEF ExternalDeclaration, Covered
<1>2. CASE ParseEnd
  <2> DEFINE X == ToSet(ast)
  <2>1. todo' = ast /\ ast' = ast /\ checked' = checked /\ generated' = generated
        /\ phase' = "analyse"
    BY <1>2 DEF ParseEnd
  <2>2. ast \in Seq(X)
    BY ToSetHolds DEF IInv
  <2>3. Pending(X, ast, DOMAIN checked)
    BY DEF Pending
  <2> HIDE DEF X
  <2>4. Analysed'
    BY <2>1, <2>2, <2>3 DEF Analysed
  <2> QED
    BY <2>1, <2>4 DEF Covered
<1> QED
  BY <1>1, <1>2

\* When the list of the analysis is empty, what it has met is complete.
LEMMA AnalyseEndCovers ==
    ASSUME IInv, Covered, AnalyseEnd
    PROVE  Covered'
<1>1. /\ todo = <<>> /\ phase = "analyse" /\ checked' = checked /\ generated' = generated
      /\ (phase' = "prototypes" /\ todo' = ast) \/ phase' = "done"
  BY DEF AnalyseEnd
<1>2. CASE phase' = "prototypes" /\ todo' = ast
  <2>1. PICK X : ast \in Seq(X) /\ Pending(X, todo, DOMAIN checked)
    BY <1>1 DEF Covered, Analysed
  <2>2. Complete(X, DOMAIN checked)
    <3>1. \A x : x \notin ToSet(todo)
      BY <1>1 DEF ToSet
    <3> QED
      BY <2>1, <3>1 DEF Pending, Complete
  <2>3. ast \in Seq(X \cup Marks)
    BY <2>1, WiderSeq
  <2>4. Analysable'
    BY <1>1, <1>2, <2>2, <2>3 DEF Analysable
  <2> QED
    BY <1>1, <1>2, <2>4 DEF Covered
<1>3. CASE phase' = "done"
  BY <1>1, <1>3 DEF Covered
<1> QED
  BY <1>1, <1>2, <1>3

LEMMA PrototypesCovers ==
    ASSUME IInv, Covered, Prototypes
    PROVE  Covered'
<1>1. phase = "prototypes" /\ phase' = "generate" /\ todo' = todo /\ checked' = checked
      /\ generated' = generated
  BY DEF Prototypes
<1>2. Analysable'
  BY <1>1 DEF Covered, Analysable
<1> QED
  BY <1>1, <1>2 DEF Covered

\* What the code generator does not look into, and what it does not reach.
LEMMA GeneratorPassesBy ==
    ASSUME IInv, Covered,
           Skip \/ GenerateScope \/ SaveFlag \/ RestoreFlag \/ JoinFlags \/ GenerateJump
    PROVE  Covered'
<1>1. /\ todo # <<>> /\ phase = "generate" /\ Then(<<>>) /\ Generating
      /\ generated' = generated
  BY DEF Skip, GenerateScope, SaveFlag, RestoreFlag, JoinFlags, GenerateJump, Reached, Doing
<1>2. ASSUME NEW X PROVE <<>> \in Seq(X)
  OBVIOUS
<1>3. DOMAIN generated' \subseteq DOMAIN checked
  BY <1>1 DEF Covered
<1> QED
  BY <1>1, <1>2, <1>3, GeneratorCovers

\* A name it looks up has been met.
LEMMA GenerateUseCovers ==
    ASSUME IInv, Covered, GenerateUse
    PROVE  Covered'
<1>1. /\ todo # <<>> /\ Head(todo).k \in {"use", "call"} /\ phase = "generate"
      /\ Then(<<>>) /\ Generating
      /\ generated' = Noted(generated, Head(todo).at, Meaning(scopes, Head(todo).n))
  BY DEF GenerateUse, Doing, node
<1>2. PICK X : todo \in Seq(X \cup Marks) /\ Complete(X, DOMAIN checked)
  BY <1>1 DEF Covered, Analysable
<1>3. Head(todo) \in X
  <2>1. Head(todo) \in X \cup Marks
    BY <1>1, <1>2
  <2> QED
    BY <1>1, <2>1 DEF Marks
<1>4. Head(todo).at \in DOMAIN checked
  BY <1>1, <1>2, <1>3 DEF Complete, Met
<1>5. DOMAIN generated' = DOMAIN generated \cup {Head(todo).at}
  BY <1>1 DEF Noted
<1>6. DOMAIN generated' \subseteq DOMAIN checked
  BY <1>4, <1>5 DEF Covered
<1>7. ASSUME NEW X2 PROVE <<>> \in Seq(X2)
  OBVIOUS
<1> QED
  BY <1>1, <1>6, <1>7, GeneratorCovers

LEMMA GenerateDeclarationCovers ==
    ASSUME IInv, Covered, GenerateDeclaration
    PROVE  Covered'
<1> DEFINE d == Head(todo).d
           tasks == IF d.n \in DOMAIN Current(scopes) \/ Len(scopes) = 1
                    THEN <<>> ELSE d.init
<1>1. /\ todo # <<>> /\ Head(todo).k = "declaration" /\ phase = "generate"
      /\ Then(tasks) /\ Generating /\ generated' = generated
  BY DEF GenerateDeclaration, Reached, Doing, node
<1>2. Head(todo) \in Nodes
  BY <1>1, HeadIsWork, WorkKinds DEF Statements
<1>3. Inside(Head(todo)) = d.init
  BY <1>1 DEF Inside
<1>4. d.init \in Seq(Work)
  <2>1. d.init \in Seq(Plain)
    BY <1>2, <1>3, InsideIsPlain
  <2> QED
    BY <2>1, WiderSeq DEF Plain, Work
<1>5. tasks = <<>> \/ tasks = d.init
  OBVIOUS
<1> HIDE DEF tasks
<1>6. ASSUME NEW X, Complete(X, DOMAIN checked), Head(todo) \in X
      PROVE  tasks \in Seq(X \cup Marks)
  <2>1. d.init \in Seq(X)
    BY <1>3, <1>6 DEF Complete
  <2>2. d.init \in Seq(X \cup Marks)
    BY <2>1, WiderSeq
  <2>3. <<>> \in Seq(X \cup Marks)
    OBVIOUS
  <2> QED
    BY <1>5, <2>2, <2>3
<1>7. tasks \in Seq(Work)
  BY <1>4, <1>5, EmptyTasks
<1>8. DOMAIN generated' \subseteq DOMAIN checked
  BY <1>1 DEF Covered
<1>9. Head(todo).k \notin {"enter", "leave", "save", "restore", "join"}
  BY <1>1
<1> QED
  BY <1>1, <1>6, <1>7, <1>8, <1>9, GeneratorCovers

LEMMA GenerateFunctionCovers ==
    ASSUME IInv, Covered, GenerateFunction
    PROVE  Covered'
<1> DEFINE f == Head(todo)
           items == f.body.items
           tasks == Enter \o items \o Leave \o Leave
<1>1. /\ todo # <<>> /\ f.k = "function" /\ f.body # NoNode /\ phase = "generate"
      /\ Then(tasks) /\ Generating /\ generated' = generated
  BY DEF GenerateFunction, Doing, node
<1>2. f \in Nodes /\ f.k \notin {"enter", "leave", "save", "restore", "join"}
  BY <1>1, HeadIsWork, WorkKinds
<1>3. items \in Seq(Nodes) /\ f.body.k = "compound"
  BY <1>1, <1>2, NodeTypes, MoreFields DEF Shapes, Branching, Declarations
<1>4. Inside(f) = <<f.body>> /\ Inside(f.body) = items
  BY <1>1, <1>3 DEF Inside, IfAny
<1> HIDE DEF items
<1>5. tasks \in Seq(Work)
  <2>1. items \in Seq(Work)
    BY <1>3, WiderSeq DEF Work
  <2> QED
    BY <2>1, MarksAreWork
<1>6. ASSUME NEW X, Complete(X, DOMAIN checked), f \in X
      PROVE  tasks \in Seq(X \cup Marks)
  <2>1. <<f.body>> \in Seq(X)
    BY <1>4, <1>6 DEF Complete
  <2>2. f.body \in X
    <3> DEFINE b == f.body
    <3> HIDE DEF b
    <3>1. <<b>> \in Seq(X)
      BY <2>1 DEF b
    <3>2. <<b>>[1] \in X /\ <<b>>[1] = b
      BY <3>1
    <3> QED
      BY <3>2 DEF b
  <2>3. items \in Seq(X)
    BY <1>4, <1>6, <2>2 DEF Complete
  <2>4. items \in Seq(X \cup Marks)
    BY <2>3, WiderSeq
  <2>5. Enter \in Seq(X \cup Marks) /\ Leave \in Seq(X \cup Marks)
    BY MarksGoAnywhere
  <2> QED
    BY <2>4, <2>5
<1>7. DOMAIN generated' \subseteq DOMAIN checked
  BY <1>1 DEF Covered
<1> HIDE DEF tasks
<1> QED
  BY <1>1, <1>2, <1>5, <1>6, <1>7, GeneratorCovers

\* What the code generator does with a statement is inside it, in whatever
\* order, or a mark.
LEMMA BranchingSchedule ==
    ASSUME NEW s \in Nodes, s.k \in {"if", "while", "switch", "do"},
           NEW X, Inside(s) \in Seq(X)
    PROVE  Schedule(s) \in Seq(X \cup Marks)
<1> DEFINE Y == X \cup Marks
<1>1. /\ Enter \in Seq(Y) /\ Leave \in Seq(Y) /\ Save \in Seq(Y)
      /\ Restore \in Seq(Y) /\ Join \in Seq(Y)
  BY MarksGoAnywhere
<1>2. X \subseteq Y
  OBVIOUS
<1> HIDE DEF Y
<1>3. CASE s.k = "if"
  <2> DEFINE yes == IfAny(s.yes)
             no == IfAny(s.no)
             first == s.cond \o yes
  <2>1. s.cond \in Seq(Plain) /\ yes \in Seq(Plain) /\ no \in Seq(Plain)
    BY <1>3, NodeFields, ReferencesArePlain, OneIsPlain
  <2>2. Inside(s) = first \o no
    BY <1>3 DEF Inside, Parts
  <2>3. Schedule(s) = s.cond \o Enter \o Save \o yes \o
                      (IF s.no = NoNode THEN Restore \o Leave
                       ELSE Save \o Leave \o Enter \o no \o Join \o Leave)
    BY <1>3 DEF Schedule
  <2> HIDE DEF yes, no
  <2>4. first \in Seq(Plain)
    BY <2>1
  <2> HIDE DEF first
  <2>5. first \in Seq(X) /\ no \in Seq(X)
    BY <2>1, <2>2, <2>4, SplitOn
  <2>6. s.cond \in Seq(X) /\ yes \in Seq(X)
    BY <2>1, <2>5, SplitOn DEF first
  <2>7. s.cond \in Seq(Y) /\ yes \in Seq(Y) /\ no \in Seq(Y)
    BY <1>2, <2>5, <2>6, WiderSeq
  <2>8. Restore \o Leave \in Seq(Y) /\ Save \o Leave \o Enter \o no \o Join \o Leave \in Seq(Y)
    BY <1>1, <2>7
  <2> DEFINE tail == IF s.no = NoNode THEN Restore \o Leave
                     ELSE Save \o Leave \o Enter \o no \o Join \o Leave
  <2>9. tail \in Seq(Y)
    BY <2>8
  <2>10. Schedule(s) = s.cond \o Enter \o Save \o yes \o tail
    BY <2>3
  <2> HIDE DEF tail
  <2>11. Schedule(s) \in Seq(Y)
    BY <1>1, <2>7, <2>9, <2>10
  <2> QED
    BY <2>11 DEF Y
<1>4. CASE s.k \in {"while", "switch", "do"}
  <2> DEFINE body == IfAny(s.body)
  <2>1. s.cond \in Seq(Plain) /\ body \in Seq(Plain)
    BY <1>4, NodeFields, ReferencesArePlain, OneIsPlain
  <2>2. Inside(s) = IF s.k = "do" THEN body \o s.cond ELSE s.cond \o body
    BY <1>4 DEF Inside, Parts
  <2>3. Schedule(s) \in {s.cond \o Enter \o (Save \o body \o Restore) \o Leave,
                         Enter \o (Save \o body \o Restore) \o Leave \o s.cond,
                         s.cond \o Enter \o body \o Leave}
    <3>1. CASE s.k = "while"
      <4>1. Schedule(s) = s.cond \o Enter \o (Save \o body \o Restore) \o Leave
        BY <3>1 DEF Schedule
      <4> QED
        BY <4>1
    <3>2. CASE s.k = "do"
      <4>1. Schedule(s) = Enter \o (Save \o body \o Restore) \o Leave \o s.cond
        BY <3>2 DEF Schedule
      <4> QED
        BY <4>1
    <3>3. CASE s.k = "switch"
      <4>1. Schedule(s) = s.cond \o Enter \o body \o Leave
        BY <3>3 DEF Schedule
      <4> QED
        BY <4>1
    <3> QED
      BY <1>4, <3>1, <3>2, <3>3
  <2> HIDE DEF body
  <2>4. s.cond \in Seq(X) /\ body \in Seq(X)
    BY <2>1, <2>2, SplitOn
  <2>5. s.cond \in Seq(Y) /\ body \in Seq(Y)
    BY <1>2, <2>4, WiderSeq
  <2>6. Save \o body \o Restore \in Seq(Y)
    BY <1>1, <2>5
  <2> DEFINE guarded == Save \o body \o Restore
  <2>7. guarded \in Seq(Y)
    BY <2>6
  <2> HIDE DEF guarded
  <2>8. /\ s.cond \o Enter \o guarded \o Leave \in Seq(Y)
        /\ Enter \o guarded \o Leave \o s.cond \in Seq(Y)
        /\ s.cond \o Enter \o body \o Leave \in Seq(Y)
    BY <1>1, <2>5, <2>7
  <2>9. Schedule(s) \in Seq(Y)
    BY <2>3, <2>8 DEF guarded
  <2> QED
    BY <2>9 DEF Y
<1> QED
  BY <1>3, <1>4

LEMMA ForInitInside ==
    ASSUME NEW t \in Nodes \cup {NoNode}, NEW X,
           IfAny(t) \in Seq(X), t # NoNode => Inside(t) \in Seq(X)
    PROVE  ForInit(t) \in Seq(X)
<1>1. CASE t = NoNode \/ (t # NoNode /\ t.k = "compound")
  BY <1>1 DEF ForInit
<1>2. CASE t # NoNode /\ t.k = "expr"
  BY <1>2 DEF ForInit, Inside, Parts
<1>3. CASE t # NoNode /\ t.k \notin {"compound", "expr"}
  BY <1>3 DEF ForInit, IfAny
<1> QED
  BY <1>1, <1>2, <1>3

LEMMA ForSchedule ==
    ASSUME NEW s \in Nodes, s.k = "for", NEW X, Inside(s) \in Seq(X),
           \A x \in X : Inside(x) \in Seq(X)
    PROVE  Schedule(s) \in Seq(X \cup Marks)
<1> DEFINE Y == X \cup Marks
           init == IfAny(s.init)
           first == ForInit(s.init)
           body == IfAny(s.body)
           guarded == Save \o body \o Restore
           p1 == init \o s.cond
           p2 == p1 \o s.update
<1>1. /\ Enter \in Seq(Y) /\ Leave \in Seq(Y) /\ Save \in Seq(Y) /\ Restore \in Seq(Y)
  BY MarksGoAnywhere
<1>2. X \subseteq Y
  OBVIOUS
<1>3. /\ init \in Seq(Plain) /\ s.cond \in Seq(Plain) /\ s.update \in Seq(Plain)
      /\ body \in Seq(Plain) /\ s.init \in Nodes \cup {NoNode}
  BY MoreFields, ReferencesArePlain, OneIsPlain
<1>4. Inside(s) = p2 \o body
  BY DEF Inside
<1>5. Schedule(s) = Enter \o first \o s.cond \o guarded \o s.update \o Leave
  BY DEF Schedule
<1>6. s.init # NoNode => init = <<s.init>>
  BY DEF IfAny
<1> HIDE DEF Y, init, first, body
<1>7. p1 \in Seq(Plain) /\ p2 \in Seq(Plain)
  BY <1>3
<1> HIDE DEF p2
<1>8. p2 \in Seq(X) /\ body \in Seq(X)
  BY <1>3, <1>4, <1>7, SplitOn
<1>9. p1 \in Seq(X) /\ s.update \in Seq(X)
  <2> HIDE DEF p1
  <2> QED
    BY <1>3, <1>7, <1>8, SplitOn DEF p2
<1>10. init \in Seq(X) /\ s.cond \in Seq(X)
  BY <1>3, <1>9, SplitOn
<1>11. first \in Seq(X)
  <2>1. s.init # NoNode => s.init \in X
    <3> SUFFICES ASSUME s.init # NoNode PROVE s.init \in X
      OBVIOUS
    <3> DEFINE t == s.init
    <3>1. <<t>> \in Seq(X)
      BY <1>6, <1>10
    <3> HIDE DEF t
    <3>2. <<t>>[1] \in X /\ <<t>>[1] = t
      BY <3>1
    <3> QED
      BY <3>2 DEF t
  <2>2. s.init # NoNode => Inside(s.init) \in Seq(X)
    BY <2>1
  <2> QED
    BY <1>3, <1>10, <2>2, ForInitInside DEF first, init
<1>12. /\ first \in Seq(Y) /\ s.cond \in Seq(Y) /\ s.update \in Seq(Y) /\ body \in Seq(Y)
  BY <1>2, <1>8, <1>9, <1>10, <1>11, WiderSeq
<1>13. guarded \in Seq(Y)
  BY <1>1, <1>12
<1> HIDE DEF guarded
<1>14. Schedule(s) \in Seq(Y)
  BY <1>1, <1>5, <1>12, <1>13
<1> QED
  BY <1>14 DEF Y

LEMMA GenerateStatementCovers ==
    ASSUME IInv, Covered, GenerateStatement
    PROVE  Covered'
<1> DEFINE s == Head(todo)
<1>1. /\ todo # <<>>
      /\ s.k \in {"expr", "compound", "if", "while", "do", "switch", "for"}
      /\ phase = "generate" /\ Then(Schedule(s)) /\ Generating /\ generated' = generated
  BY DEF GenerateStatement, Reached, Doing, node
<1>2. s \in Nodes /\ s.k \notin {"enter", "leave", "save", "restore", "join"}
  BY <1>1, HeadIsWork, WorkKinds DEF Statements
<1>3. Schedule(s) \in Seq(Work)
  <2>1. Here \in Levels
    BY HereIsLevel DEF IInv, Here
  <2> QED
    BY <1>1, <1>2, <2>1, ScheduleEven DEF Even
<1>4. ASSUME NEW X, Complete(X, DOMAIN checked), s \in X
      PROVE  Schedule(s) \in Seq(X \cup Marks)
  <2>1. \A x \in X : Inside(x) \in Seq(X)
    BY <1>4 DEF Complete
  <2>2. Inside(s) \in Seq(X)
    BY <1>4, <2>1
  <2>3. CASE s.k = "expr"
    <3>1. Schedule(s) = Inside(s)
      BY <2>3 DEF Schedule, Inside, Parts
    <3> QED
      BY <2>2, <3>1, WiderSeq
  <2>4. CASE s.k = "compound"
    <3> DEFINE items == s.items
               Y == X \cup Marks
    <3>1. Schedule(s) = Enter \o items \o Leave /\ items = Inside(s)
      BY <2>4 DEF Schedule, Inside
    <3> HIDE DEF items
    <3>2. items \in Seq(Y)
      BY <2>2, <3>1, WiderSeq
    <3>3. Enter \in Seq(Y) /\ Leave \in Seq(Y)
      BY MarksGoAnywhere
    <3> HIDE DEF Y
    <3>4. Enter \o items \o Leave \in Seq(Y)
      BY <3>2, <3>3
    <3> QED
      BY <3>1, <3>4 DEF Y
  <2>5. CASE s.k \in {"if", "while", "switch", "do"}
    BY <1>2, <2>2, <2>5, BranchingSchedule
  <2>6. CASE s.k = "for"
    BY <1>2, <2>1, <2>2, <2>6, ForSchedule
  <2> QED
    BY <1>1, <2>3, <2>4, <2>5, <2>6
<1>5. DOMAIN generated' \subseteq DOMAIN checked
  BY <1>1 DEF Covered
<1> QED
  BY <1>1, <1>2, <1>3, <1>4, <1>5, GeneratorCovers

LEMMA GenerateLabelCovers ==
    ASSUME IInv, Covered, GenerateLabel
    PROVE  Covered'
<1> DEFINE s == Head(todo)
<1>1. /\ todo # <<>> /\ s.k = "label" /\ phase = "generate"
      /\ Then(IfAny(s.body)) /\ Generating /\ generated' = generated
  BY DEF GenerateLabel, Reached, Doing, node
<1>2. s \in Nodes /\ s.k \notin {"enter", "leave", "save", "restore", "join"}
  BY <1>1, HeadIsWork, WorkKinds DEF Statements
<1>3. Inside(s) = IfAny(s.body)
  BY <1>1 DEF Inside
<1>4. IfAny(s.body) \in Seq(Work)
  <2>1. IfAny(s.body) \in Seq(Plain)
    BY <1>2, <1>3, InsideIsPlain
  <2> QED
    BY <2>1, WiderSeq DEF Plain, Work
<1>5. ASSUME NEW X, Complete(X, DOMAIN checked), s \in X
      PROVE  IfAny(s.body) \in Seq(X \cup Marks)
  <2>1. IfAny(s.body) \in Seq(X)
    BY <1>3, <1>5 DEF Complete
  <2> QED
    BY <2>1, WiderSeq
<1>6. DOMAIN generated' \subseteq DOMAIN checked
  BY <1>1 DEF Covered
<1> QED
  BY <1>1, <1>2, <1>4, <1>5, <1>6, GeneratorCovers

-------------------------------------------------------------------------------
LEMMA NextCovers == IInv /\ Covered /\ [Next]_vars => Covered'
<1> SUFFICES ASSUME IInv, Covered, [Next]_vars PROVE Covered'
  OBVIOUS
<1>1. CASE ExternalDeclaration \/ ParseEnd
  BY <1>1, ParserCovers
<1>2. CASE CheckUse \/ CheckCall
  BY <1>2, CheckReferenceCovers
<1>3. CASE CheckDeclaration
  BY <1>3, CheckDeclarationCovers
<1>4. CASE CheckAdded \/ CheckLeave \/ CheckGoto
  BY <1>4, CheckMarkCovers
<1>5. CASE CheckFunction \/ CheckScope \/ CheckStatement \/ CheckLabel
  BY <1>5, CheckInsideCovers
<1>6. CASE AnalyseEnd \/ Prototypes
  BY <1>6, AnalyseEndCovers, PrototypesCovers
<1>7. CASE Skip \/ GenerateScope \/ SaveFlag \/ RestoreFlag \/ JoinFlags \/ GenerateJump
  BY <1>7, GeneratorPassesBy
<1>8. CASE GenerateUse \/ GenerateDeclaration \/ GenerateFunction
  BY <1>8, GenerateUseCovers, GenerateDeclarationCovers, GenerateFunctionCovers
<1>9. CASE GenerateStatement \/ GenerateLabel
  BY <1>9, GenerateStatementCovers, GenerateLabelCovers
<1>10. CASE GenerateEnd
  BY <1>10 DEF GenerateEnd, Covered
<1>11. CASE UNCHANGED vars
  BY <1>11 DEF Covered, Analysed, Analysable, vars
<1> QED
  BY <1>1, <1>2, <1>3, <1>4, <1>5, <1>6, <1>7, <1>8, <1>9, <1>10, <1>11 DEF Next, Finished

\* In every state of every program each name that the code generator has looked
\* up has been looked up by the analysis too: its own order of the parts of each
\* statement, the scopes it opens around them and the statements it leaves out
\* bring it to no name that went unchecked.
THEOREM GeneratedIsCheckedAlways == Spec => []GeneratedIsChecked
<1>1. Init => IInv /\ Covered
  BY InitHolds, InitCovers
<1>2. (IInv /\ Covered) /\ [Next]_vars => (IInv /\ Covered)'
  BY NextKeeps, NextCovers
<1>3. Spec => [](IInv /\ Covered)
  BY <1>1, <1>2, PTL DEF Spec
<1>4. IInv /\ Covered => GeneratedIsChecked
  BY DEF Covered, GeneratedIsChecked
<1> QED
  BY <1>3, <1>4, PTL
===============================================================================
