----------------------------- MODULE LexingProofs -----------------------------
(***************************************************************************)
(* Proofs about Lexing: for every text, the positions of the error         *)
(* messages and the characters passed over as comments.                    *)
(***************************************************************************)
EXTENDS Lexing, Recurrences, FiniteSetTheorems, TLAPS

-------------------------------------------------------------------------------
\* The states of C's reading of a text.
States == {"code", "string", "escape", "comment_opens", "comment",
           "comment_closes", "line_comment", "character", "character_escape"}
LEMMA AfterIsAState ==
    ASSUME NEW s \in States, NEW c, NEW d
    PROVE  After(s, c, d) \in States
  BY DEF States, After

LEMMA StateAtUnfolds ==
    ASSUME text \in Seq(Character)
    PROVE  /\ StateAt \in [1 .. Len(text) + 1 -> States]
           /\ StateAt[1] = "code"
           /\ \A i \in 2 .. Len(text) + 1 :
                 StateAt[i] = After(StateAt[i - 1], Char(i - 1), Char(i))
<1> DEFINE N == Len(text) + 1
           G == [p \in (2 .. N) \X States |-> After(p[2], Char(p[1] - 1), Char(p[1]))]
           P(s) == s = [i \in 1 .. N |->
                          IF i = 1 THEN "code" ELSE After(s[i - 1], Char(i - 1), Char(i))]
<1>1. N \in Nat /\ 1 <= N
  OBVIOUS
<1>2. G \in [(2 .. N) \X States -> States]
  BY AfterIsAState
<1>3. "code" \in States
  BY DEF States
<1>4. \A i \in 2 .. N : \A s \in States : G[<<i, s>>] = After(s, Char(i - 1), Char(i))
  OBVIOUS
<1> HIDE DEF G, N
<1>5. PICK f \in [1 .. N -> States] : Follows(f, 1, N, "code", G)
  <2>1. (1 + 1) .. N = 2 .. N
    OBVIOUS
  <2>2. G \in [(1 + 1 .. N) \X States -> States]
    BY <1>2, <2>1
  <2>3. 1 \in Nat
    OBVIOUS
  <2> QED
    BY <1>1, <1>3, <2>2, <2>3, Recursion
<1>6. P(f)
  <2>1. ASSUME NEW i \in 1 .. N
        PROVE  (IF i = 1 THEN "code" ELSE G[<<i, f[i - 1]>>])
                  = (IF i = 1 THEN "code" ELSE After(f[i - 1], Char(i - 1), Char(i)))
    <3>1. CASE i = 1
      BY <3>1
    <3>2. CASE i # 1
      <4>1. i \in 2 .. N /\ i - 1 \in 1 .. N
        BY <3>2, <1>1
      <4>2. f[i - 1] \in States
        BY <4>1
      <4> QED
        BY <4>1, <4>2, <1>4, <3>2
    <3> QED
      BY <3>1, <3>2
  <2>2. [i \in 1 .. N |-> IF i = 1 THEN "code" ELSE G[<<i, f[i - 1]>>]]
           = [i \in 1 .. N |->
                 IF i = 1 THEN "code" ELSE After(f[i - 1], Char(i - 1), Char(i))]
    BY <2>1, Zenon
  <2> QED
    BY <1>5, <2>2, Zenon DEF Follows
<1>7. StateAt = CHOOSE s : P(s)
  BY DEF StateAt, N
<1> HIDE DEF P
<1>8. P(StateAt)
  BY <1>6, <1>7
<1> DEFINE s == StateAt
<1>9. s = [i \in 1 .. N |->
              IF i = 1 THEN "code" ELSE After(s[i - 1], Char(i - 1), Char(i))]
  BY <1>8 DEF P
<1> HIDE DEF s
<1>10. DOMAIN s = 1 .. N /\ s[1] = "code"
  BY <1>1, <1>9
<1>11. ASSUME NEW i \in 2 .. N PROVE s[i] = After(s[i - 1], Char(i - 1), Char(i))
  <2>1. i \in 1 .. N /\ i # 1
    OBVIOUS
  <2> QED
    BY <1>9, <2>1
<1>12. \A i \in 1 .. N : s[i] \in States
  <2> DEFINE T == {i \in 1 .. N : s[i] \in States}
  <2>1. T \in SUBSET (1 .. N) /\ 1 \in T
    BY <1>1, <1>3, <1>10
  <2>2. ASSUME NEW i \in 1 + 1 .. N, i - 1 \in T PROVE i \in T
    <3>1. i \in 2 .. N /\ i \in 1 .. N
      BY <1>1
    <3> QED
      BY <2>2, <3>1, <1>11, AfterIsAState
  <2>3. T = 1 .. N
    <3> HIDE DEF T
    <3> QED
      BY <1>1, <2>1, <2>2, Stretch
  <2> QED
    BY <2>3
<1>13. s \in [1 .. N -> States]
  BY <1>9, <1>12
<1> QED
  BY <1>10, <1>11, <1>13 DEF s, N

\* The next column, by a terminal and by the scanner, are one.
LEMMA TabStops ==
    ASSUME NEW c \in Nat
    PROVE  NextTabStop(c) \in Nat /\ c + (8 - (c % 8)) = NextTabStop(c)
  BY DEF NextTabStop

LEMMA ColumnAtUnfolds ==
    ASSUME text \in Seq(Character)
    PROVE  /\ ColumnAt \in [1 .. Len(text) + 1 -> Nat]
           /\ ColumnAt[1] = 0
           /\ \A i \in 2 .. Len(text) + 1 :
                 ColumnAt[i] = IF Char(i - 1) = "newline" THEN 0
                               ELSE IF Char(i - 1) = "tab" THEN NextTabStop(ColumnAt[i - 1])
                               ELSE ColumnAt[i - 1] + 1
<1> DEFINE N == Len(text) + 1
           Column(i, c) == IF i = 1 \/ Char(i - 1) = "newline" THEN 0
                           ELSE IF Char(i - 1) = "tab" THEN NextTabStop(c)
                           ELSE c + 1
           G == [p \in (1 + 1 .. N) \X Nat |-> Column(p[1], p[2])]
           P(s) == s = [i \in 1 .. N |-> Column(i, s[i - 1])]
<1>1. N \in Nat /\ 1 <= N /\ 1 \in Nat /\ 0 \in Nat
  OBVIOUS
<1> HIDE DEF N
<1>2. ASSUME NEW i \in 1 .. N, NEW c \in Nat PROVE Column(i, c) \in Nat
  <2>1. NextTabStop(c) \in Nat
    BY TabStops, Zenon
  <2>2. c + 1 \in Nat /\ 0 \in Nat
    OBVIOUS
  <2> QED
    BY <2>1, <2>2, Zenon
<1>3. G \in [(1 + 1 .. N) \X Nat -> Nat]
  <2> HIDE DEF Column
  <2>1. \A p \in (1 + 1 .. N) \X Nat : p[1] \in 1 .. N /\ p[2] \in Nat
    OBVIOUS
  <2> QED
    BY <1>2, <2>1
<1>4. \A i \in 1 + 1 .. N : \A c \in Nat : G[<<i, c>>] = Column(i, c)
  <2> HIDE DEF Column
  <2> QED
    OBVIOUS
<1>5. \A c : Column(1, c) = 0
  OBVIOUS
<1> HIDE DEF G, Column
<1>6. PICK f \in [1 .. N -> Nat] : Follows(f, 1, N, 0, G)
  BY <1>1, <1>3, Recursion
<1>7. P(f)
  <2>1. ASSUME NEW i \in 1 .. N
        PROVE  (IF i = 1 THEN 0 ELSE G[<<i, f[i - 1]>>]) = Column(i, f[i - 1])
    <3>1. CASE i = 1
      BY <3>1, <1>5
    <3>2. CASE i # 1
      <4>1. i \in 1 + 1 .. N /\ i - 1 \in 1 .. N
        BY <3>2, <1>1
      <4>2. f[i - 1] \in Nat
        BY <4>1
      <4> QED
        BY <4>1, <4>2, <1>4, <3>2
    <3> QED
      BY <3>1, <3>2
  <2>2. [i \in 1 .. N |-> IF i = 1 THEN 0 ELSE G[<<i, f[i - 1]>>]]
           = [i \in 1 .. N |-> Column(i, f[i - 1])]
    BY <2>1, Zenon
  <2> QED
    BY <1>6, <2>2, Zenon DEF Follows
<1>8. ColumnAt = CHOOSE s : P(s)
  BY DEF ColumnAt, N, Column
<1> HIDE DEF P
<1>9. P(ColumnAt)
  BY <1>7, <1>8
<1> DEFINE s == ColumnAt
<1>10. s = [i \in 1 .. N |-> Column(i, s[i - 1])]
  BY <1>9 DEF P
<1> HIDE DEF s
<1>11. DOMAIN s = 1 .. N /\ s[1] = 0
  BY <1>1, <1>5, <1>10
<1>12. ASSUME NEW i \in 2 .. N PROVE s[i] = Column(i, s[i - 1]) /\ i # 1
  <2>1. i \in 1 .. N /\ i # 1
    OBVIOUS
  <2> QED
    BY <1>10, <2>1
<1>13. \A i \in 1 .. N : s[i] \in Nat
  <2> DEFINE T == {i \in 1 .. N : s[i] \in Nat}
  <2>1. T \in SUBSET (1 .. N) /\ 1 \in T
    BY <1>1, <1>11
  <2>2. ASSUME NEW i \in 1 + 1 .. N, i - 1 \in T PROVE i \in T
    <3>1. i \in 2 .. N /\ i \in 1 .. N
      BY <1>1
    <3> QED
      BY <2>2, <3>1, <1>2, <1>12
  <2>3. T = 1 .. N
    <3> HIDE DEF T
    <3> QED
      BY <1>1, <2>1, <2>2, Stretch
  <2> QED
    BY <2>3
<1>14. s \in [1 .. N -> Nat]
  BY <1>10, <1>13
<1>15. ASSUME NEW i \in 2 .. N
       PROVE  s[i] = IF Char(i - 1) = "newline" THEN 0
                     ELSE IF Char(i - 1) = "tab" THEN NextTabStop(s[i - 1])
                     ELSE s[i - 1] + 1
  BY <1>12 DEF Column
<1> QED
  BY <1>11, <1>14, <1>15 DEF s, N

\* The columns that count_chars goes through.
LEMMA CountUnfolds ==
    ASSUME NEW col \in Nat, NEW n \in Nat
    PROVE  \E h \in [0 .. n -> Nat] :
              /\ h[0] = col
              /\ \A k \in 1 .. n : h[k] = IF Char(at + k - 1) = "tab"
                                          THEN NextTabStop(h[k - 1]) ELSE h[k - 1] + 1
              /\ count_chars(col, n) = h[n]
<1> DEFINE Column(k, c) == IF Char(at + k - 1) = "tab" THEN c + (8 - (c % 8)) ELSE c + 1
           G == [p \in (0 + 1 .. n) \X Nat |-> Column(p[1], p[2])]
           P(h) == h = [k \in 0 .. n |-> IF k = 0 THEN col ELSE Column(k, h[k - 1])]
<1>1. 0 <= n /\ 0 \in Nat
  OBVIOUS
<1>2. ASSUME NEW k \in 0 + 1 .. n, NEW c \in Nat
      PROVE  /\ Column(k, c) = IF Char(at + k - 1) = "tab" THEN NextTabStop(c) ELSE c + 1
             /\ Column(k, c) \in Nat
  BY TabStops
<1>3. G \in [(0 + 1 .. n) \X Nat -> Nat]
  <2> HIDE DEF Column
  <2>1. \A p \in (0 + 1 .. n) \X Nat : p[1] \in 0 + 1 .. n /\ p[2] \in Nat
    OBVIOUS
  <2> QED
    BY <1>2, <2>1
<1>4. \A k \in 0 + 1 .. n : \A c \in Nat : G[<<k, c>>] = Column(k, c)
  <2> HIDE DEF Column
  <2> QED
    OBVIOUS
<1> HIDE DEF G, Column
<1>5. PICK f \in [0 .. n -> Nat] : Follows(f, 0, n, col, G)
  BY <1>1, <1>3, Recursion
<1>6. P(f)
  <2>1. ASSUME NEW k \in 0 .. n
        PROVE  (IF k = 0 THEN col ELSE G[<<k, f[k - 1]>>])
                  = (IF k = 0 THEN col ELSE Column(k, f[k - 1]))
    <3>1. CASE k = 0
      BY <3>1
    <3>2. CASE k # 0
      <4>1. k \in 0 + 1 .. n /\ k - 1 \in 0 .. n
        BY <3>2
      <4>2. f[k - 1] \in Nat
        BY <4>1
      <4> QED
        BY <4>1, <4>2, <1>4, <3>2
    <3> QED
      BY <3>1, <3>2
  <2>2. [k \in 0 .. n |-> IF k = 0 THEN col ELSE G[<<k, f[k - 1]>>]]
           = [k \in 0 .. n |-> IF k = 0 THEN col ELSE Column(k, f[k - 1])]
    BY <2>1, Zenon
  <2> QED
    BY <1>5, <2>2, Zenon DEF Follows
<1> DEFINE h == CHOOSE h : P(h)
<1>7. count_chars(col, n) = h[n]
  BY DEF count_chars, Column
<1> HIDE DEF P
<1>8. P(h)
  BY <1>6
<1> HIDE DEF h
<1>9. h = [k \in 0 .. n |-> IF k = 0 THEN col ELSE Column(k, h[k - 1])]
  BY <1>8 DEF P
<1>10. DOMAIN h = 0 .. n /\ h[0] = col
  BY <1>1, <1>9
<1>11. ASSUME NEW k \in 0 + 1 .. n PROVE h[k] = Column(k, h[k - 1])
  <2>1. k \in 0 .. n /\ k # 0
    OBVIOUS
  <2> QED
    BY <1>9, <2>1
<1>12. \A k \in 0 .. n : h[k] \in Nat
  <2> DEFINE T == {k \in 0 .. n : h[k] \in Nat}
  <2>1. T \in SUBSET (0 .. n) /\ 0 \in T
    BY <1>1, <1>10
  <2>2. ASSUME NEW k \in 0 + 1 .. n, k - 1 \in T PROVE k \in T
    <3>1. h[k - 1] \in Nat /\ k \in 0 .. n
      BY <2>2
    <3> QED
      BY <3>1, <1>2, <1>11
  <2>3. T = 0 .. n
    <3> HIDE DEF T
    <3> QED
      BY <1>1, <2>1, <2>2, Stretch
  <2> QED
    BY <2>3
<1>13. h \in [0 .. n -> Nat]
  BY <1>9, <1>12
<1>14. ASSUME NEW k \in 1 .. n
       PROVE  h[k] = IF Char(at + k - 1) = "tab" THEN NextTabStop(h[k - 1]) ELSE h[k - 1] + 1
  <2>1. k \in 0 + 1 .. n /\ k - 1 \in 0 .. n
    OBVIOUS
  <2> QED
    BY <2>1, <1>2, <1>11, <1>12
<1> QED
  BY <1>7, <1>10, <1>13, <1>14

LEMMA CountType ==
    ASSUME NEW col \in Nat, NEW n \in Nat
    PROVE  count_chars(col, n) \in Nat
<1>1. PICK h \in [0 .. n -> Nat] :
          /\ h[0] = col
          /\ \A k \in 1 .. n : h[k] = IF Char(at + k - 1) = "tab"
                                      THEN NextTabStop(h[k - 1]) ELSE h[k - 1] + 1
          /\ count_chars(col, n) = h[n]
  BY CountUnfolds, Zenon
<1>2. n \in 0 .. n
  OBVIOUS
<1> QED
  BY <1>1, <1>2

-------------------------------------------------------------------------------
\* What the rules match.

LEMMA CharFacts ==
    ASSUME text \in Seq(Character), NEW i \in Nat \ {0}
    PROVE  /\ i <= Len(text) => Char(i) \in Character /\ Char(i) = text[i]
           /\ ~ (i <= Len(text)) => Char(i) = End
           /\ End \notin Character
           /\ "newline" # End
           /\ Char(i) # End => i \in 1 .. Len(text)
<1>1. End \notin Character /\ "newline" # End
  BY DEF End, Character, Letter, Digit, Quote, Apostrophe, Backslash
<1>2. i <= Len(text) => Char(i) \in Character /\ Char(i) = text[i]
  BY DEF Char
<1>3. ~ (i <= Len(text)) => Char(i) = End
  BY DEF Char
<1> QED
  BY <1>1, <1>2, <1>3

LEMMA RunFacts ==
    ASSUME text \in Seq(Character), NEW i \in 1 .. Len(text), NEW S \in SUBSET Character
    PROVE  /\ Run(i, S) \in 0 .. Len(text) + 1 - i
           /\ Char(i + Run(i, S)) \notin S
           /\ \A k \in 0 .. Run(i, S) - 1 : Char(i + k) \in S
<1> DEFINE U == {n \in Nat : Char(i + n) \notin S}
           P(n) == Char(i + n) \notin S /\ \A k \in 0 .. n - 1 : Char(i + k) \in S
<1>1. Len(text) + 1 - i \in U
  <2>1. Len(text) + 1 - i \in Nat /\ i + (Len(text) + 1 - i) = Len(text) + 1
        /\ Len(text) + 1 \in Nat \ {0} /\ ~ (Len(text) + 1 <= Len(text))
    OBVIOUS
  <2>2. Char(Len(text) + 1) = End /\ End \notin Character
    BY <2>1, CharFacts
  <2> QED
    BY <2>1, <2>2
<1>2. PICK n \in U : \A m \in U : n <= m
  <2>1. U \in SUBSET Nat /\ U # {}
    BY <1>1
  <2> HIDE DEF U
  <2> QED
    BY <2>1, LeastElement
<1>3. n \in 0 .. Len(text) /\ P(n)
  <2>1. n \in Nat /\ n <= Len(text) + 1 - i /\ Char(i + n) \notin S
    BY <1>1, <1>2
  <2>2. ASSUME NEW k \in 0 .. n - 1 PROVE Char(i + k) \in S
    <3>1. k \in Nat /\ ~ (n <= k)
      BY <2>1
    <3>2. k \notin U
      BY <1>2, <3>1
    <3> QED
      BY <3>1, <3>2
  <2> QED
    BY <2>1, <2>2
<1> DEFINE r == Run(i, S)
<1>4. r \in 0 .. Len(text) /\ P(r)
  <2>1. r = CHOOSE m \in 0 .. Len(text) : P(m)
    BY DEF Run
  <2> HIDE DEF P, r
  <2> QED
    BY <1>3, <2>1
<1> HIDE DEF r
<1>5. r <= Len(text) + 1 - i
  <2>1. CASE r = 0
    BY <2>1
  <2>2. CASE r # 0
    <3>1. r - 1 \in 0 .. r - 1 /\ i + (r - 1) \in Nat \ {0}
      BY <1>4, <2>2
    <3>2. Char(i + (r - 1)) \in S
      BY <1>4, <3>1
    <3>3. i + (r - 1) \in 1 .. Len(text)
      BY <3>1, <3>2, CharFacts
    <3> QED
      BY <1>4, <3>3
  <2> QED
    BY <2>1, <2>2
<1>6. r \in 0 .. Len(text) + 1 - i /\ P(r)
  BY <1>4, <1>5
<1> QED
  BY <1>6 DEF r

\* Operators are short, and only the first character can open a comment.
LEMMA OperatorFacts ==
    ASSUME NEW op \in Operators
    PROVE  /\ Len(op) \in 1 .. 3
           /\ DOMAIN op = 1 .. Len(op)
           /\ op[1] \in {"/", "*", "<", "="}
           /\ \A k \in 2 .. Len(op) : op[k] \in {"<", "="}
<1>1. \A a : Len(<<a>>) = 1 /\ DOMAIN <<a>> = 1 .. 1 /\ <<a>>[1] = a
  OBVIOUS
<1>2. \A a, b : /\ Len(<<a, b>>) = 2 /\ DOMAIN <<a, b>> = 1 .. 2
                /\ <<a, b>>[1] = a /\ <<a, b>>[2] = b
  OBVIOUS
<1>3. \A a, b, c : /\ Len(<<a, b, c>>) = 3 /\ DOMAIN <<a, b, c>> = 1 .. 3
                   /\ <<a, b, c>>[1] = a /\ <<a, b, c>>[2] = b /\ <<a, b, c>>[3] = c
  OBVIOUS
<1>4. CASE \E a \in {"/", "*", "<", "="} : op = <<a>>
  BY <1>4, <1>1
<1>5. CASE \E a \in {"/", "*", "<", "="} : \E b \in {"<", "="} : op = <<a, b>>
  BY <1>5, <1>2
<1>6. CASE op = <<"<", "<", "=">>
  BY <1>6, <1>3
<1> QED
  BY <1>4, <1>5, <1>6, Zenon DEF Operators

\* What a rule matches is in the text, and newlines are matched by their rule.
RuleNames == {"comment", "line_comment", "word", "number", "character", "string",
              "operator", "blank", "newline", "other"}
LEMMA MatchFacts ==
    ASSUME text \in Seq(Character), NEW i \in 1 .. Len(text),
           NEW rule \in RuleNames, NEW n \in Matches(rule, i)
    PROVE  /\ n \in 1 .. Len(text) + 1 - i
           /\ rule # "newline" => \A k \in 0 .. n - 1 : Char(i + k) \in InLine
           /\ rule = "newline" => n = 1 /\ Char(i) = "newline"
<1> DEFINE Good == /\ n \in 1 .. Len(text) + 1 - i
                   /\ \A k \in 0 .. n - 1 : Char(i + k) \in InLine
<1>1. i \in Nat \ {0} /\ i <= Len(text) /\ Len(text) \in Nat
  OBVIOUS
<1>2. Char(i) \in Character /\ End \notin Character
  BY <1>1, CharFacts
<1>3. CASE rule = "comment"
  <2>1. n = 2 /\ Spelled(i, <<"/", "*">>)
    BY <1>3 DEF Matches, Length
  <2>2. Char(i) = "/" /\ Char(i + 1) = "*"
    <3>1. 1 \in DOMAIN <<"/", "*">> /\ 2 \in DOMAIN <<"/", "*">>
          /\ <<"/", "*">>[1] = "/" /\ <<"/", "*">>[2] = "*" /\ i + 1 - 1 = i
          /\ i + 2 - 1 = i + 1
      OBVIOUS
    <3> QED
      BY <2>1, <3>1 DEF Spelled
  <2>3. Good
    <3>1. {"/", "*"} \subseteq InLine /\ InLine \subseteq Character
      BY DEF InLine, Character
    <3>2. i + 1 \in 1 .. Len(text)
      BY <1>1, <1>2, <2>2, <3>1, CharFacts
    <3>3. \A k \in 0 .. 1 : k = 0 \/ k = 1
      OBVIOUS
    <3> QED
      BY <1>1, <2>1, <2>2, <3>1, <3>2, <3>3
  <2> QED
    BY <1>3, <2>3
<1>4. CASE rule = "line_comment"
  <2>1. n = Run(i, InLine) /\ Spelled(i, <<"/", "/">>)
    BY <1>4 DEF Matches, Length
  <2>2. Char(i) = "/"
    <3>1. 1 \in DOMAIN <<"/", "/">> /\ <<"/", "/">>[1] = "/" /\ i + 1 - 1 = i
      OBVIOUS
    <3> QED
      BY <2>1, <3>1 DEF Spelled
  <2>3. InLine \in SUBSET Character /\ "/" \in InLine
    BY DEF InLine, Character
  <2>4. /\ n \in 0 .. Len(text) + 1 - i /\ Char(i + n) \notin InLine
        /\ \A k \in 0 .. n - 1 : Char(i + k) \in InLine
    BY <2>1, <2>3, RunFacts
  <2>5. n # 0
    BY <2>2, <2>3, <2>4
  <2> QED
    BY <1>4, <2>4, <2>5
<1>5. ASSUME NEW S \in SUBSET InLine, Char(i) \in S, n = Run(i, S) PROVE Good
  <2>1. S \in SUBSET Character
    BY DEF InLine
  <2>2. /\ n \in 0 .. Len(text) + 1 - i /\ Char(i + n) \notin S
        /\ \A k \in 0 .. n - 1 : Char(i + k) \in S
    BY <1>5, <2>1, RunFacts
  <2>3. Char(i) = Char(i + 0) /\ Char(i) \in S
    BY <1>1, <1>5
  <2>4. n # 0
    BY <2>2, <2>3
  <2>5. n \in 1 .. Len(text) + 1 - i
    BY <1>1, <2>2, <2>4
  <2>6. \A k \in 0 .. n - 1 : Char(i + k) \in InLine
    BY <2>2
  <2> QED
    BY <2>5, <2>6
<1>6. CASE rule = "word"
  <2>1. n = Run(i, InWord) /\ Char(i) \in Letter
    BY <1>6 DEF Matches, Length
  <2>2. InWord \in SUBSET InLine /\ Letter \subseteq InWord
    BY DEF InWord, InLine, Character, Letter, Digit
  <2> QED
    BY <1>5, <1>6, <2>1, <2>2
<1>7. CASE rule = "number"
  <2>1. n = Run(i, Digit) /\ Char(i) \in Digit
    BY <1>7 DEF Matches, Length
  <2>2. Digit \in SUBSET InLine
    BY DEF InLine, Character, Digit
  <2> QED
    BY <1>5, <1>7, <2>1, <2>2
<1>8. ASSUME NEW q \in {Quote, Apostrophe}, NEW j \in ClosingQuotes(q, i + 1),
             Char(i) = q, n = j - i + 1
      PROVE  Good
  <2>2. /\ j \in i + 1 .. Len(text) /\ Char(j) = q
        /\ \A k \in i + 1 .. j - 1 : Char(k) # "newline"
    BY DEF ClosingQuotes
  <2>3. n \in 1 .. Len(text) + 1 - i
    BY <1>1, <1>8, <2>2
  <2>4. q # "newline"
    BY DEF Quote, Apostrophe
  <2>5. ASSUME NEW k \in 0 .. n - 1 PROVE Char(i + k) \in InLine
    <3>1. i + k \in Nat \ {0} /\ i + k <= Len(text)
      BY <1>1, <1>8, <2>2
    <3>2. Char(i + k) \in Character
      BY <3>1, CharFacts
    <3>3. i + k = i \/ i + k = j \/ i + k \in i + 1 .. j - 1
      BY <1>1, <1>8, <2>2
    <3>4. Char(i + k) # "newline"
      BY <1>8, <2>2, <2>4, <3>3
    <3> QED
      BY <3>2, <3>4 DEF InLine
  <2> QED
    BY <2>3, <2>5
<1>14. CASE rule = "string"
  <2>1. \E j \in ClosingQuotes(Quote, i + 1) : Char(i) = Quote /\ n = j - i + 1
    BY <1>14 DEF Matches
  <2> QED
    BY <1>8, <1>14, <2>1
<1>15. CASE rule = "character"
  <2>1. \E j \in ClosingQuotes(Apostrophe, i + 1) : Char(i) = Apostrophe /\ n = j - i + 1
    BY <1>15 DEF Matches
  <2> QED
    BY <1>8, <1>15, <2>1
<1>9. CASE rule = "operator"
  <2>1. PICK op \in Operators : Spelled(i, op) /\ n = Len(op)
    BY <1>9 DEF Matches
  <2>2. /\ n \in 1 .. 3 /\ DOMAIN op = 1 .. n
        /\ op[1] \in {"/", "*", "<", "="}
        /\ \A k \in 2 .. n : op[k] \in {"<", "="}
    BY <2>1, OperatorFacts
  <2>3. {"/", "*", "<", "="} \subseteq InLine /\ InLine \subseteq Character
    BY DEF InLine, Character
  <2>4. ASSUME NEW k \in 0 .. n - 1 PROVE Char(i + k) \in InLine
    <3>1. k + 1 \in 1 .. n /\ i + (k + 1) - 1 = i + k
      BY <1>1, <2>2
    <3>2. Char(i + k) = op[k + 1]
      BY <2>1, <2>2, <3>1 DEF Spelled
    <3>3. k + 1 = 1 \/ k + 1 \in 2 .. n
      BY <2>2, <3>1
    <3> QED
      BY <2>2, <2>3, <3>2, <3>3
  <2>5. n \in 1 .. Len(text) + 1 - i
    <3>1. n - 1 \in 0 .. n - 1 /\ i + (n - 1) \in Nat \ {0}
      BY <1>1, <2>2
    <3>2. Char(i + (n - 1)) # End
      BY <1>2, <2>3, <2>4, <3>1
    <3>3. i + (n - 1) \in 1 .. Len(text)
      BY <3>1, <3>2, CharFacts
    <3> QED
      BY <1>1, <2>2, <3>3
  <2> QED
    BY <1>9, <2>4, <2>5
<1>10. ASSUME n = 1, Char(i) # "newline" PROVE Good
  <2>1. \A k \in 0 .. n - 1 : i + k = i
    BY <1>1, <1>10
  <2>2. n \in 1 .. Len(text) + 1 - i
    BY <1>1, <1>10
  <2>3. Char(i) \in InLine
    BY <1>2, <1>10 DEF InLine
  <2>4. \A k \in 0 .. n - 1 : Char(i + k) \in InLine
    BY <2>1, <2>3
  <2> QED
    BY <2>2, <2>4
<1>11. CASE rule = "blank"
  <2>1. n = 1 /\ Char(i) \in {"space", "tab"}
    BY <1>11 DEF Matches, Length
  <2> QED
    BY <1>10, <1>11, <2>1
<1>12. CASE rule = "newline"
  <2>1. n = 1 /\ Char(i) = "newline"
    BY <1>12 DEF Matches, Length
  <2> QED
    BY <1>1, <1>12, <2>1
<1>13. CASE rule = "other"
  <2>1. n = 1 /\ Char(i) \notin {"newline", End}
    BY <1>13 DEF Matches, Length
  <2> QED
    BY <1>10, <1>13, <2>1
<1> QED
  BY <1>3, <1>4, <1>6, <1>7, <1>9, <1>11, <1>12, <1>13, <1>14, <1>15 DEF RuleNames

LEMMA RuleFacts ==
    /\ DOMAIN Rules = 1 .. 10
    /\ \A r \in 1 .. 10 : Rules[r] \in RuleNames
    /\ \A rule \in RuleNames : \E r \in 1 .. 10 : Rules[r] = rule
    /\ Rules[1] = "comment"
    /\ \A r \in 1 .. 10 : Rules[r] = "comment" => r = 1
<1>1. /\ Rules[1] = "comment" /\ Rules[2] = "line_comment" /\ Rules[3] = "word"
      /\ Rules[4] = "number" /\ Rules[5] = "character" /\ Rules[6] = "string"
      /\ Rules[7] = "operator" /\ Rules[8] = "blank" /\ Rules[9] = "newline"
      /\ Rules[10] = "other"
      /\ DOMAIN Rules = 1 .. 10
  BY DEF Rules
<1>2. \A r \in 1 .. 10 : r \in {1, 2, 3, 4, 5, 6, 7, 8, 9, 10}
  OBVIOUS
<1> QED
  BY <1>1, <1>2 DEF RuleNames

\* The match of a turn is one of the rule's, and no rule has a longer one.
LEMMA LongestFacts ==
    ASSUME text \in Seq(Character), NEW i \in 1 .. Len(text)
    PROVE  \A rule \in RuleNames : \A n \in Matches(rule, i) : n <= Longest(i)
<1> DEFINE M == UNION {Matches(Rules[r], i) : r \in DOMAIN Rules}
           m == Len(text) + 1 - i
<1>1. ASSUME NEW rule \in RuleNames, NEW n \in Matches(rule, i) PROVE n \in M /\ n \in 1 .. m
  <2>1. PICK r \in 1 .. 10 : Rules[r] = rule
    BY RuleFacts
  <2>2. n \in M
    BY <2>1, RuleFacts
  <2>3. n \in 1 .. m
    BY MatchFacts
  <2> QED
    BY <2>2, <2>3
<1>2. M \in SUBSET (1 .. m)
  BY <1>1, RuleFacts
<1>3. m \in Nat
  OBVIOUS
<1>4. ASSUME NEW rule \in RuleNames, NEW n \in Matches(rule, i) PROVE n <= Longest(i)
  <2>1. Longest(i) = CHOOSE x \in M : \A y \in M : x >= y
    BY DEF Longest, Max
  <2>2. n \in M
    BY <1>1
  <2> HIDE DEF M, m
  <2>3. PICK x \in M : \A y \in M : y <= x
    BY <1>2, <1>3, <2>2, GreatestElement
  <2>4. \A y \in M : y \in Nat
    BY <1>2, <1>3
  <2>5. \A y \in M : x >= y
    BY <2>3, <2>4
  <2> DEFINE l == Longest(i)
  <2>6. l \in M /\ \A y \in M : l >= y
    BY <2>1, <2>5
  <2> HIDE DEF l
  <2>7. n <= l
    BY <2>2, <2>4, <2>6
  <2> QED
    BY <2>7 DEF l
<1> QED
  BY <1>4

-------------------------------------------------------------------------------
\* The steps.

TypeInv == text \in Seq(Character) /\ TypeOK

\* A step stays in place, moves along the line, or moves to the next one.
StepStays == UNCHANGED <<at, line_number, column, comments>>
StepInLine(n) ==
    /\ n \in 1 .. Len(text) + 1 - at
    /\ \A k \in 0 .. n - 1 : Char(at + k) \in InLine
    /\ at' = at + n
    /\ UNCHANGED line_number
    /\ \/ Counted(n) /\ UNCHANGED comments
       \/ column' \in Nat /\ comments' = comments \cup (at .. at + n - 1)
StepToNextLine ==
    /\ at \in 1 .. Len(text)
    /\ Char(at) = "newline"
    /\ at' = at + 1
    /\ line_number' = line_number + 1
    /\ column' = 0
    /\ comments' \in {comments, comments \cup {at}}

LEMMA ScanFacts ==
    ASSUME TypeInv, Scan
    PROVE  /\ at \in 1 .. Len(text)
           /\ \E rule \in RuleNames : \E n \in Matches(rule, at) :
                 /\ \A other \in RuleNames : \A m \in Matches(other, at) : m <= n
                 /\ n \in Matches("comment", at) => rule = "comment"
                 /\ \/ Token(rule, n) \/ Newline(rule, n) \/ UnexpectedCharacter(rule, n)
                    \/ LineComment(rule, n) \/ CommentBegin(rule, n)
<1>1. at \in 1 .. Len(text)
  <2>1. at \in Nat \ {0} /\ Char(at) # End
    BY DEF TypeInv, TypeOK, Scan
  <2> QED
    BY <2>1, CharFacts DEF TypeInv
<1>2. PICK r \in DOMAIN Rules :
          /\ IsFirst(r, Longest(at), at)
          /\ \/ Token(Rules[r], Longest(at)) \/ Newline(Rules[r], Longest(at))
             \/ UnexpectedCharacter(Rules[r], Longest(at))
             \/ LineComment(Rules[r], Longest(at)) \/ CommentBegin(Rules[r], Longest(at))
  BY DEF Scan
<1> DEFINE n == Longest(at)
           rule == Rules[r]
<1>3. r \in 1 .. 10 /\ rule \in RuleNames
  BY RuleFacts
<1>4. n \in Matches(rule, at) /\ \A q \in 1 .. r - 1 : n \notin Matches(Rules[q], at)
  BY <1>2 DEF IsFirst
<1>5. \A other \in RuleNames : \A m \in Matches(other, at) : m <= n
  BY <1>1, LongestFacts DEF TypeInv
<1>6. ASSUME n \in Matches("comment", at) PROVE rule = "comment"
  <2>1. ~ (1 \in 1 .. r - 1)
    BY <1>4, <1>6, RuleFacts
  <2>2. r = 1
    BY <1>3, <2>1
  <2> QED
    BY <2>2, RuleFacts
<1>7. \/ Token(rule, n) \/ Newline(rule, n) \/ UnexpectedCharacter(rule, n)
      \/ LineComment(rule, n) \/ CommentBegin(rule, n)
  BY <1>2, Zenon
<1> HIDE DEF n, rule
<1> QED
  BY <1>1, <1>3, <1>4, <1>5, <1>6, <1>7

LEMMA StepKinds ==
    ASSUME TypeInv, [Next]_vars
    PROVE  /\ text' = text
           /\ mode' \in {"rules", "comment", "done"}
           /\ lex_error_count' \in Nat
           /\ StepStays \/ (\E n \in Nat : StepInLine(n)) \/ StepToNextLine
<1>1. at \in Nat \ {0} /\ text \in Seq(Character) /\ lex_error_count \in Nat /\ column \in Nat
      /\ mode \in {"rules", "comment", "done"}
  BY DEF TypeInv, TypeOK
<1>2. CASE Scan
  <2>1. at \in 1 .. Len(text)
    BY <1>2, ScanFacts
  <2>2. PICK rule \in RuleNames : \E n \in Matches(rule, at) :
            \/ Token(rule, n) \/ Newline(rule, n) \/ UnexpectedCharacter(rule, n)
            \/ LineComment(rule, n) \/ CommentBegin(rule, n)
    BY <1>2, ScanFacts
  <2>3. PICK n \in Matches(rule, at) :
            \/ Token(rule, n) \/ Newline(rule, n) \/ UnexpectedCharacter(rule, n)
            \/ LineComment(rule, n) \/ CommentBegin(rule, n)
    BY <2>2
  <2>4. /\ n \in 1 .. Len(text) + 1 - at
        /\ rule # "newline" => \A k \in 0 .. n - 1 : Char(at + k) \in InLine
        /\ rule = "newline" => n = 1 /\ Char(at) = "newline"
    BY <1>1, <2>1, MatchFacts
  <2>5. n \in Nat
    BY <2>4
  <2>6. CASE Token(rule, n)
    <3>1. StepInLine(n)
      BY <2>4, <2>6 DEF Token, StepInLine, Passed
    <3> QED
      BY <1>1, <2>5, <2>6, <3>1 DEF Token
  <2>7. CASE Newline(rule, n)
    <3>1. StepToNextLine
      BY <2>1, <2>4, <2>7 DEF Newline, StepToNextLine, Passed
    <3> QED
      BY <1>1, <2>7, <3>1 DEF Newline
  <2>8. CASE UnexpectedCharacter(rule, n)
    <3>1. StepInLine(n)
      BY <2>4, <2>8 DEF UnexpectedCharacter, StepInLine, Passed
    <3>2. lex_error_count' \in Nat
      BY <1>1, <2>8 DEF UnexpectedCharacter
    <3> QED
      BY <1>1, <2>5, <2>8, <3>1, <3>2 DEF UnexpectedCharacter
  <2>9. CASE LineComment(rule, n)
    <3>1. StepInLine(n)
      BY <1>1, <2>4, <2>9 DEF LineComment, StepInLine, PassedAsComment, Passed
    <3> QED
      BY <1>1, <2>5, <2>9, <3>1 DEF LineComment
  <2>10. CASE CommentBegin(rule, n)
    <3>1. StepInLine(n)
      BY <1>1, <2>4, <2>10 DEF CommentBegin, StepInLine, PassedAsComment, Passed
    <3> QED
      BY <1>1, <2>5, <2>10, <3>1 DEF CommentBegin
  <2> QED
    BY <2>3, <2>6, <2>7, <2>8, <2>9, <2>10
<1>3. ASSUME Char(at) # End PROVE at \in 1 .. Len(text) /\ Char(at) \in Character
  BY <1>1, <1>3, CharFacts
<1>4. at .. at + 1 - 1 = {at} /\ \A k \in 0 .. 1 - 1 : at + k = at
  BY <1>1
<1>5. CASE CommentChar
  <2>1. at \in 1 .. Len(text) /\ Char(at) \in Character
    BY <1>3, <1>5 DEF CommentChar
  <2>2. CASE Char(at) = "newline"
    <3>1. StepToNextLine
      BY <1>4, <1>5, <2>1, <2>2 DEF CommentChar, StepToNextLine, PassedAsComment, Passed
    <3> QED
      BY <1>1, <1>5, <3>1 DEF CommentChar
  <2>3. CASE Char(at) # "newline"
    <3>1. Char(at) \in InLine /\ 1 \in 1 .. Len(text) + 1 - at
      BY <2>1, <2>3 DEF InLine
    <3>2. \A k \in 0 .. 1 - 1 : Char(at + k) \in InLine
      BY <1>4, <3>1
    <3>3. column + 1 \in Nat
      BY <1>1
    <3>4. StepInLine(1)
      BY <1>5, <2>3, <3>1, <3>2, <3>3
         DEF CommentChar, StepInLine, PassedAsComment, Passed
    <3> QED
      BY <1>1, <1>5, <3>4 DEF CommentChar
  <2> QED
    BY <2>2, <2>3
<1>6. CASE CommentStar
  <2>1. at \in 1 .. Len(text) /\ Char(at) \in InLine
    <3>1. "*" # "newline" /\ "*" # End
      BY DEF End
    <3> QED
      BY <1>3, <1>6, <3>1 DEF CommentStar, InLine
  <2>2. column + 1 \in Nat /\ column + 2 \in Nat
    BY <1>1
  <2>3. CASE Char(at + 1) = "/"
    <3>1. "/" \in InLine /\ InLine \subseteq Character
      BY DEF InLine, Character
    <3>2. at + 1 \in 1 .. Len(text)
      BY <1>1, <2>3, <3>1, CharFacts
    <3>3. 2 \in 1 .. Len(text) + 1 - at
      BY <1>1, <3>2
    <3>4. \A k \in 0 .. 2 - 1 : Char(at + k) \in InLine
      <4>1. \A k \in 0 .. 2 - 1 : k = 0 \/ k = 1
        OBVIOUS
      <4>2. at + 0 = at
        BY <1>1
      <4> QED
        BY <2>1, <2>3, <3>1, <4>1, <4>2
    <3>5. StepInLine(2)
      BY <1>6, <2>2, <2>3, <3>3, <3>4
         DEF CommentStar, StepInLine, PassedAsComment, Passed
    <3> QED
      BY <1>1, <1>6, <2>3, <3>5 DEF CommentStar
  <2>4. CASE Char(at + 1) # "/"
    <3>1. 1 \in 1 .. Len(text) + 1 - at
      BY <2>1
    <3>2. \A k \in 0 .. 1 - 1 : Char(at + k) \in InLine
      BY <1>4, <2>1
    <3>3. StepInLine(1)
      BY <1>6, <2>2, <2>4, <3>1, <3>2
         DEF CommentStar, StepInLine, PassedAsComment, Passed
    <3> QED
      BY <1>1, <1>6, <2>4, <3>3 DEF CommentStar
  <2> QED
    BY <2>3, <2>4
<1>7. CASE CommentAtEnd
  BY <1>1, <1>7 DEF CommentAtEnd, StepStays
<1>8. CASE ScanEnd
  BY <1>1, <1>8 DEF ScanEnd, StepStays
<1>9. CASE UNCHANGED vars
  BY <1>1, <1>9 DEF vars, StepStays
<1> QED
  BY <1>2, <1>5, <1>6, <1>7, <1>8, <1>9 DEF Next

-------------------------------------------------------------------------------
\* The positions.

LEMMA TypeInit == Init => TypeInv
<1> SUFFICES ASSUME Init PROVE TypeInv
  OBVIOUS
<1>1. text \in Seq(Character)
  BY TextsAssumption DEF Init
<1>2. Len(text) \in Nat /\ 1 \in 1 .. Len(text) + 1
  BY <1>1
<1> QED
  BY <1>1, <1>2 DEF Init, TypeInv, TypeOK

LEMMA TypeStep == TypeInv /\ [Next]_vars => TypeInv'
<1> SUFFICES ASSUME TypeInv, [Next]_vars PROVE TypeInv'
  OBVIOUS
<1>1. /\ text' = text
      /\ mode' \in {"rules", "comment", "done"}
      /\ lex_error_count' \in Nat
      /\ StepStays \/ (\E n \in Nat : StepInLine(n)) \/ StepToNextLine
  BY StepKinds
<1>2. /\ text \in Seq(Character) /\ Len(text) \in Nat
      /\ at \in 1 .. Len(text) + 1 /\ line_number \in Nat \ {0}
      /\ column \in Nat /\ comments \subseteq 1 .. at - 1
  BY DEF TypeInv, TypeOK
<1> DEFINE Good == /\ at' \in 1 .. Len(text) + 1
                   /\ line_number' \in Nat \ {0}
                   /\ column' \in Nat
                   /\ comments' \subseteq 1 .. at' - 1
<1>3. ASSUME StepStays PROVE Good
  BY <1>2, <1>3 DEF StepStays
<1>4. ASSUME NEW n \in Nat, StepInLine(n) PROVE Good
  <2>1. n \in 1 .. Len(text) + 1 - at /\ at' = at + n /\ line_number' = line_number
    BY <1>4 DEF StepInLine
  <2>2. column' \in Nat
    <3>1. count_chars(column, n) \in Nat
      BY <1>2, CountType, Zenon
    <3> QED
      BY <1>4, <3>1 DEF StepInLine, Counted
  <2>3. comments' \subseteq comments \cup (at .. at + n - 1)
    BY <1>4 DEF StepInLine
  <2>4. comments' \subseteq 1 .. at' - 1
    BY <1>2, <2>1, <2>3
  <2>5. at' \in 1 .. Len(text) + 1
    BY <1>2, <2>1
  <2> QED
    BY <1>2, <2>1, <2>2, <2>4, <2>5
<1>5. ASSUME StepToNextLine PROVE Good
  <2>1. /\ at \in 1 .. Len(text) /\ at' = at + 1 /\ line_number' = line_number + 1
        /\ column' = 0 /\ comments' \subseteq comments \cup {at}
    BY <1>5 DEF StepToNextLine
  <2>2. comments' \subseteq 1 .. at' - 1
    BY <1>2, <2>1
  <2>3. at' \in 1 .. Len(text) + 1 /\ line_number' \in Nat \ {0} /\ column' \in Nat
    BY <1>2, <2>1
  <2> QED
    BY <2>2, <2>3
<1>6. Good
  <2> HIDE DEF Good
  <2> QED
    BY <1>1, <1>3, <1>4, <1>5
<1> QED
  BY <1>1, <1>2, <1>6 DEF TypeInv, TypeOK

\* The scanner stays within the text, and has passed over what it counts as
\* comments.
THEOREM TypeInvariance == Spec => []TypeOK
<1>1. TypeInv => TypeOK
  BY DEF TypeInv
<1> QED
  BY <1>1, TypeInit, TypeStep, PTL DEF Spec

LEMMA TypeInvHolds == Spec => []TypeInv
  BY TypeInit, TypeStep, PTL DEF Spec

\* The newlines before a place are finitely many places of the text.
LEMMA LinesFacts ==
    ASSUME text \in Seq(Character), NEW i \in 1 .. Len(text) + 1
    PROVE  /\ LinesBefore(i) \in SUBSET (1 .. i - 1)
           /\ IsFiniteSet(LinesBefore(i))
           /\ Cardinality(LinesBefore(i)) \in Nat
<1>1. LinesBefore(i) \in SUBSET (1 .. i - 1)
  BY DEF LinesBefore
<1>2. 1 \in Int /\ i - 1 \in Int
  OBVIOUS
<1>3. IsFiniteSet(1 .. i - 1)
  BY <1>2, FS_Interval
<1>4. IsFiniteSet(LinesBefore(i))
  BY <1>1, <1>3, FS_Subset
<1> QED
  BY <1>1, <1>4, FS_CardinalityType

LEMMA LinesInLine ==
    ASSUME TypeInv, text' = text, NEW n \in Nat, StepInLine(n)
    PROVE  LinesBefore(at + n) = LinesBefore(at)
<1>1. /\ text \in Seq(Character) /\ at \in Nat \ {0} /\ n \in 1 .. Len(text) + 1 - at
      /\ \A k \in 0 .. n - 1 : Char(at + k) \in InLine
  BY DEF TypeInv, TypeOK, StepInLine
<1>2. ASSUME NEW k \in 1 .. (at + n) - 1, text[k] = "newline" PROVE k \in 1 .. at - 1
  <2>1. SUFFICES ASSUME ~ (k \in 1 .. at - 1) PROVE FALSE
    OBVIOUS
  <2>2. k - at \in 0 .. n - 1 /\ at + (k - at) = k /\ k \in Nat \ {0} /\ k <= Len(text)
    BY <1>1, <2>1
  <2>3. Char(k) \in InLine
    BY <1>1, <2>2
  <2>4. Char(k) = "newline"
    BY <1>1, <1>2, <2>2, CharFacts
  <2> QED
    BY <2>3, <2>4 DEF InLine
<1>3. \A k \in 1 .. at - 1 : k \in 1 .. (at + n) - 1
  BY <1>1
<1>4. ASSUME NEW k PROVE k \in LinesBefore(at + n) <=> k \in LinesBefore(at)
  <2>1. \A i : k \in LinesBefore(i) <=> k \in 1 .. i - 1 /\ text[k] = "newline"
    BY Zenon DEF LinesBefore
  <2> QED
    BY <1>2, <1>3, <2>1, Zenon
<1> QED
  BY <1>4, Zenon

LEMMA LinesStep == TypeInv /\ LinesAreCounted /\ [Next]_vars => LinesAreCounted'
<1> SUFFICES ASSUME TypeInv, LinesAreCounted, [Next]_vars PROVE LinesAreCounted'
  OBVIOUS
<1>1. /\ text' = text
      /\ StepStays \/ (\E n \in Nat : StepInLine(n)) \/ StepToNextLine
  BY StepKinds
<1>2. /\ text \in Seq(Character) /\ Len(text) \in Nat /\ at \in 1 .. Len(text) + 1
      /\ line_number = Cardinality(LinesBefore(at)) + 1
  BY DEF TypeInv, TypeOK, LinesAreCounted
<1>3. LinesAreCounted' <=> line_number' = Cardinality(LinesBefore(at')) + 1
  BY <1>1 DEF LinesAreCounted, LinesBefore
<1>4. CASE StepStays
  BY <1>2, <1>3, <1>4 DEF StepStays
<1>5. ASSUME NEW n \in Nat, StepInLine(n) PROVE LinesAreCounted'
  <2>1. LinesBefore(at + n) = LinesBefore(at)
    BY <1>1, <1>5, LinesInLine
  <2>2. at' = at + n /\ line_number' = line_number
    BY <1>5 DEF StepInLine
  <2> QED
    BY <1>2, <1>3, <2>1, <2>2
<1>6. CASE StepToNextLine
  <2>1. /\ at \in 1 .. Len(text) /\ Char(at) = "newline"
        /\ at' = at + 1 /\ line_number' = line_number + 1
    BY <1>6 DEF StepToNextLine
  <2>2. text[at] = "newline"
    BY <1>2, <2>1, CharFacts
  <2>3. 1 .. at + 1 - 1 = (1 .. at - 1) \cup {at}
    BY <2>1
  <2>4. LinesBefore(at + 1) = LinesBefore(at) \cup {at}
    BY <2>2, <2>3 DEF LinesBefore
  <2>5. IsFiniteSet(LinesBefore(at)) /\ Cardinality(LinesBefore(at)) \in Nat
    BY <1>2, LinesFacts
  <2>6. at \notin LinesBefore(at)
    BY <2>1 DEF LinesBefore
  <2>7. Cardinality(LinesBefore(at) \cup {at}) = Cardinality(LinesBefore(at)) + 1
    BY <2>5, <2>6, FS_AddElement
  <2> QED
    BY <1>2, <1>3, <2>1, <2>4, <2>5, <2>7
<1> QED
  BY <1>1, <1>4, <1>5, <1>6

LEMMA LinesInit == Init => LinesAreCounted
<1> SUFFICES ASSUME Init PROVE LinesAreCounted
  OBVIOUS
<1>1. at = 1 /\ line_number = 1
  BY DEF Init
<1>2. LinesBefore(1) = {}
  BY DEF LinesBefore
<1>3. Cardinality(LinesBefore(at)) = 0
  BY <1>1, <1>2, FS_EmptySet
<1> QED
  BY <1>1, <1>3 DEF LinesAreCounted

\* The line of a message is the line the scanner is on, for every text.
THEOREM LinesInvariance == Spec => []LinesAreCounted
  BY TypeInvHolds, LinesInit, LinesStep, PTL DEF Spec

LEMMA LineStartFacts ==
    ASSUME text \in Seq(Character), NEW i \in 1 .. Len(text) + 1
    PROVE  LineStart(i) \in 1 .. i
<1> DEFINE S == LinesBefore(i) \cup {0}
           m == Max(S)
<1>1. LinesBefore(i) \in SUBSET (1 .. i - 1) /\ i - 1 \in Nat
  BY LinesFacts
<1>2. \E x \in S : \A y \in S : x >= y
  <2>1. CASE LinesBefore(i) = {}
    BY <2>1
  <2>2. CASE LinesBefore(i) # {}
    <3>1. PICK x \in LinesBefore(i) : \A y \in LinesBefore(i) : y <= x
      BY <1>1, <2>2, GreatestElement
    <3>2. x \in 1 .. i - 1 /\ \A y \in LinesBefore(i) : y \in 1 .. i - 1
      BY <1>1
    <3>3. \A y \in S : x >= y
      BY <3>1, <3>2
    <3> QED
      BY <3>3
  <2> QED
    BY <2>1, <2>2
<1>3. S \in SUBSET (0 .. i - 1)
  BY <1>1
<1>4. m = CHOOSE x \in S : \A y \in S : x >= y
  BY DEF Max
<1>5. LineStart(i) = m + 1
  BY DEF LineStart
<1> HIDE DEF S, m
<1>6. m \in S
  BY <1>2, <1>4
<1>7. m \in 0 .. i - 1
  BY <1>3, <1>6
<1> QED
  BY <1>5, <1>7

\* Of a text that stays the same, the column of each place does too.
LEMMA ColumnAtStays ==
    ASSUME text' = text
    PROVE  ColumnAt' = ColumnAt
  BY DEF ColumnAt, NextTabStop, Char

\* Counting the characters of a match leads to the column of the place after it.
LEMMA CountFacts ==
    ASSUME text \in Seq(Character), NEW n \in Nat, at \in 1 .. Len(text),
           n \in 1 .. Len(text) + 1 - at,
           \A k \in 0 .. n - 1 : Char(at + k) \in InLine
    PROVE  count_chars(ColumnAt[at], n) = ColumnAt[at + n]
<1> DEFINE col == ColumnAt[at]
<1>1. /\ ColumnAt \in [1 .. Len(text) + 1 -> Nat]
      /\ \A i \in 2 .. Len(text) + 1 :
            ColumnAt[i] = IF Char(i - 1) = "newline" THEN 0
                          ELSE IF Char(i - 1) = "tab" THEN NextTabStop(ColumnAt[i - 1])
                          ELSE ColumnAt[i - 1] + 1
  BY ColumnAtUnfolds
<1>2. col \in Nat /\ at \in Nat /\ Len(text) \in Nat
  BY <1>1
<1> HIDE DEF col
<1>3. PICK h \in [0 .. n -> Nat] :
          /\ h[0] = col
          /\ \A k \in 1 .. n : h[k] = IF Char(at + k - 1) = "tab"
                                      THEN NextTabStop(h[k - 1]) ELSE h[k - 1] + 1
          /\ count_chars(col, n) = h[n]
  BY <1>2, CountUnfolds
<1> DEFINE T == {k \in 0 .. n : h[k] = ColumnAt[at + k]}
<1>4. T \in SUBSET (0 .. n) /\ 0 \in T
  <2>1. at + 0 = at /\ 0 \in 0 .. n
    BY <1>2
  <2> QED
    BY <1>3, <2>1 DEF col
<1>5. ASSUME NEW k \in 0 + 1 .. n, k - 1 \in T PROVE k \in T
  <2>1. /\ k \in 1 .. n /\ k \in 0 .. n /\ k - 1 \in 0 .. n - 1
        /\ at + k - 1 = at + (k - 1) /\ (at + k) - 1 = at + (k - 1)
        /\ at + k \in 2 .. Len(text) + 1
    BY <1>2
  <2>2. Char(at + (k - 1)) # "newline"
    BY <2>1 DEF InLine
  <2>3. h[k] = IF Char(at + (k - 1)) = "tab" THEN NextTabStop(h[k - 1]) ELSE h[k - 1] + 1
    BY <1>3, <2>1
  <2>4. ColumnAt[at + k] = IF Char(at + (k - 1)) = "newline" THEN 0
                           ELSE IF Char(at + (k - 1)) = "tab"
                                THEN NextTabStop(ColumnAt[at + (k - 1)])
                           ELSE ColumnAt[at + (k - 1)] + 1
    BY <1>1, <2>1
  <2>5. h[k - 1] = ColumnAt[at + (k - 1)]
    BY <1>5
  <2>6. h[k] = ColumnAt[at + k]
    BY <2>2, <2>3, <2>4, <2>5, Zenon
  <2> QED
    BY <2>1, <2>6
<1>6. n \in T
  <2> HIDE DEF T
  <2>1. T = 0 .. n
    BY <1>4, <1>5, Stretch
  <2> QED
    BY <2>1
<1> QED
  BY <1>3, <1>6 DEF col

LEMMA ColumnsStep == TypeInv /\ ColumnsAreCounted /\ [Next]_vars => ColumnsAreCounted'
<1> SUFFICES ASSUME TypeInv, ColumnsAreCounted, [Next]_vars PROVE ColumnsAreCounted'
  OBVIOUS
<1>1. /\ text' = text
      /\ StepStays \/ (\E n \in Nat : StepInLine(n)) \/ StepToNextLine
  BY StepKinds
<1>2. /\ text \in Seq(Character) /\ Len(text) \in Nat /\ at \in 1 .. Len(text) + 1
      /\ (comments \cap LineStart(at) .. at - 1 = {}) => column = ColumnAt[at]
  BY DEF TypeInv, TypeOK, ColumnsAreCounted
<1>3. ColumnsAreCounted'
        <=> (comments' \cap LineStart(at') .. at' - 1 = {} => column' = ColumnAt[at'])
  <2>1. ColumnAt' = ColumnAt
    BY <1>1, ColumnAtStays
  <2>2. LineStart(at)' = LineStart(at')
    BY <1>1 DEF LineStart, LinesBefore
  <2> QED
    BY <2>1, <2>2 DEF ColumnsAreCounted
<1>4. CASE StepStays
  BY <1>2, <1>3, <1>4 DEF StepStays
<1>5. ASSUME NEW n \in Nat, StepInLine(n) PROVE ColumnsAreCounted'
  <2>1. /\ n \in 1 .. Len(text) + 1 - at /\ at' = at + n /\ at \in 1 .. Len(text)
        /\ \A k \in 0 .. n - 1 : Char(at + k) \in InLine
    BY <1>2, <1>5 DEF StepInLine
  <2>2. LineStart(at') = LineStart(at)
    BY <1>1, <1>5, <2>1, LinesInLine DEF LineStart
  <2>3. LineStart(at) \in 1 .. at
    BY <1>2, LineStartFacts
  <2>4. CASE Counted(n) /\ UNCHANGED comments
    <3>1. SUFFICES ASSUME comments \cap LineStart(at) .. at' - 1 = {}
                   PROVE  column' = ColumnAt[at']
      BY <1>3, <2>2, <2>4
    <3>2. LineStart(at) .. at - 1 \subseteq LineStart(at) .. at' - 1
      BY <2>1, <2>3
    <3>3. column = ColumnAt[at]
      BY <1>2, <3>1, <3>2
    <3>4. count_chars(ColumnAt[at], n) = ColumnAt[at + n]
      BY <1>2, <2>1, CountFacts
    <3> QED
      BY <2>1, <2>4, <3>3, <3>4 DEF Counted
  <2>5. CASE comments' = comments \cup (at .. at + n - 1)
    <3>1. at \in at .. at + n - 1 /\ at \in LineStart(at) .. at' - 1
      BY <2>1, <2>3
    <3> QED
      BY <1>3, <2>2, <2>5, <3>1
  <2> QED
    BY <1>5, <2>4, <2>5 DEF StepInLine
<1>6. CASE StepToNextLine
  <2>1. /\ at \in 1 .. Len(text) /\ Char(at) = "newline" /\ at' = at + 1 /\ column' = 0
    BY <1>6 DEF StepToNextLine
  <2>2. at + 1 \in 2 .. Len(text) + 1 /\ (at + 1) - 1 = at
    BY <2>1
  <2>3. ColumnAt[at + 1] = 0
    BY <1>2, <2>1, <2>2, ColumnAtUnfolds
  <2> QED
    BY <1>3, <2>1, <2>3
<1> QED
  BY <1>1, <1>4, <1>5, <1>6

LEMMA ColumnsInit == Init => ColumnsAreCounted
<1> SUFFICES ASSUME Init PROVE ColumnsAreCounted
  OBVIOUS
<1>1. at = 1 /\ column = 0 /\ text \in Seq(Character)
  BY TextsAssumption DEF Init
<1>2. ColumnAt[1] = 0
  BY <1>1, ColumnAtUnfolds
<1> QED
  BY <1>1, <1>2 DEF ColumnsAreCounted

\* The column of a message is the one a terminal shows, for every text, on the
\* lines on which no comment began or ended before.
THEOREM ColumnsInvariance == Spec => []ColumnsAreCounted
  BY TypeInvHolds, ColumnsInit, ColumnsStep, PTL DEF Spec

-------------------------------------------------------------------------------
\* The comments.

InsideOf(q) == IF q = Quote THEN "string" ELSE "character"
EscapeOf(q) == IF q = Quote THEN "escape" ELSE "character_escape"

LEMMA AfterFacts ==
    ASSUME NEW c, NEW d
    PROVE  /\ c \notin {Quote, Apostrophe, "/"} => After("code", c, d) = "code"
           /\ d \notin {"*", "/"} => After("code", "/", d) = "code"
           /\ After("code", "/", "*") = "comment_opens"
           /\ After("code", "/", "/") = "line_comment"
           /\ After("comment_opens", c, d) = "comment"
           /\ ~ (c = "*" /\ d = "/") => After("comment", c, d) = "comment"
           /\ After("comment", "*", "/") = "comment_closes"
           /\ After("comment_closes", c, d) = "code"
           /\ d # "newline" => After("line_comment", c, d) = "line_comment"
           /\ After("line_comment", c, "newline") = "code"
<1>1. Quote # "/" /\ Apostrophe # "/"
  BY DEF Quote, Apostrophe
<1>2. /\ c \notin {Quote, Apostrophe, "/"} => After("code", c, d) = "code"
      /\ d \notin {"*", "/"} => After("code", "/", d) = "code"
      /\ After("code", "/", "*") = "comment_opens"
      /\ After("code", "/", "/") = "line_comment"
  BY <1>1 DEF After
<1>4. /\ After("comment_opens", c, d) = "comment"
      /\ ~ (c = "*" /\ d = "/") => After("comment", c, d) = "comment"
      /\ After("comment", "*", "/") = "comment_closes"
      /\ After("comment_closes", c, d) = "code"
  BY DEF After
<1>5. /\ d # "newline" => After("line_comment", c, d) = "line_comment"
      /\ After("line_comment", c, "newline") = "code"
  BY DEF After
<1> QED
  BY <1>2, <1>4, <1>5

\* Within quotes, of either kind.
LEMMA AfterQuoted ==
    ASSUME NEW q \in {Quote, Apostrophe}, NEW c, NEW d
    PROVE  /\ After("code", q, d) = InsideOf(q)
           /\ c \notin {q, Backslash} => After(InsideOf(q), c, d) = InsideOf(q)
           /\ After(InsideOf(q), Backslash, d) = EscapeOf(q)
           /\ After(InsideOf(q), q, d) = "code"
           /\ After(EscapeOf(q), c, d) = InsideOf(q)
<1>1. Quote # Backslash /\ Apostrophe # Backslash /\ Apostrophe # Quote
  BY DEF Quote, Apostrophe, Backslash
<1>2. CASE q = Quote
  BY <1>1, <1>2 DEF After, InsideOf, EscapeOf
<1>3. CASE q = Apostrophe
  BY <1>1, <1>3 DEF After, InsideOf, EscapeOf
<1> QED
  BY <1>2, <1>3

\* One state after another.
LEMMA StateNext ==
    ASSUME text \in Seq(Character), NEW i \in 1 .. Len(text)
    PROVE  StateAt[i + 1] = After(StateAt[i], Char(i), Char(i + 1))
<1>1. i + 1 \in 2 .. Len(text) + 1 /\ (i + 1) - 1 = i
  OBVIOUS
<1>2. StateAt[i + 1] = After(StateAt[(i + 1) - 1], Char((i + 1) - 1), Char(i + 1))
  BY <1>1, StateAtUnfolds
<1> QED
  BY <1>1, <1>2

\* A character is in a comment by its state and that of the next one.
CommentStates == {"comment_opens", "comment", "comment_closes", "line_comment"}
LEMMA InCommentNext ==
    ASSUME text \in Seq(Character), NEW i \in 1 .. Len(text)
    PROVE  InComment(StateAt, i) <=> \/ StateAt[i] \in CommentStates
                                     \/ StateAt[i + 1] \in {"comment_opens", "line_comment"}
  BY StateNext DEF InComment, CommentStates

\* Characters that open nothing leave the code where it is.
LEMMA CodeGoesOn ==
    ASSUME text \in Seq(Character), NEW i \in 1 .. Len(text) + 1, NEW n \in Nat,
           n <= Len(text) + 1 - i, StateAt[i] = "code",
           \A k \in 0 .. n - 1 : Char(i + k) \notin {Quote, Apostrophe, "/"}
    PROVE  \A k \in 0 .. n : StateAt[i + k] = "code"
<1> DEFINE T == {k \in 0 .. n : StateAt[i + k] = "code"}
<1>1. T \in SUBSET (0 .. n) /\ 0 \in T
  <2>1. i + 0 = i /\ 0 \in 0 .. n
    OBVIOUS
  <2> QED
    BY <2>1
<1>2. ASSUME NEW k \in 0 + 1 .. n, k - 1 \in T PROVE k \in T
  <2>1. /\ k \in 0 .. n /\ k - 1 \in 0 .. n - 1
        /\ i + (k - 1) \in 1 .. Len(text) /\ (i + (k - 1)) + 1 = i + k
    OBVIOUS
  <2>2. StateAt[i + (k - 1)] = "code" /\ Char(i + (k - 1)) \notin {Quote, Apostrophe, "/"}
    BY <1>2, <2>1
  <2>3. StateAt[(i + (k - 1)) + 1]
          = After(StateAt[i + (k - 1)], Char(i + (k - 1)), Char((i + (k - 1)) + 1))
    BY <2>1, StateNext
  <2>4. StateAt[i + k] = "code"
    BY <2>1, <2>2, <2>3, AfterFacts
  <2> QED
    BY <2>1, <2>4
<1>3. T = 0 .. n
  <2> HIDE DEF T
  <2> QED
    BY <1>1, <1>2, Stretch
<1> QED
  BY <1>3

\* In a line comment, up to the newline or the end of the text.
LEMMA LineCommentGoesOn ==
    ASSUME text \in Seq(Character), NEW i \in 1 .. Len(text) + 1, NEW n \in Nat,
           n <= Len(text) + 1 - i, StateAt[i] = "line_comment",
           \A k \in 1 .. n : Char(i + k) # "newline"
    PROVE  \A k \in 0 .. n : StateAt[i + k] = "line_comment"
<1> DEFINE T == {k \in 0 .. n : StateAt[i + k] = "line_comment"}
<1>1. T \in SUBSET (0 .. n) /\ 0 \in T
  <2>1. i + 0 = i /\ 0 \in 0 .. n
    OBVIOUS
  <2> QED
    BY <2>1
<1>2. ASSUME NEW k \in 0 + 1 .. n, k - 1 \in T PROVE k \in T
  <2>1. /\ k \in 0 .. n /\ k \in 1 .. n
        /\ i + (k - 1) \in 1 .. Len(text) /\ (i + (k - 1)) + 1 = i + k
    OBVIOUS
  <2>2. StateAt[i + (k - 1)] = "line_comment" /\ Char(i + k) # "newline"
    BY <1>2, <2>1
  <2>3. StateAt[(i + (k - 1)) + 1]
          = After(StateAt[i + (k - 1)], Char(i + (k - 1)), Char((i + (k - 1)) + 1))
    BY <2>1, StateNext
  <2>4. StateAt[i + k] = "line_comment"
    BY <2>1, <2>2, <2>3, AfterFacts
  <2> QED
    BY <2>1, <2>4
<1>3. T = 0 .. n
  <2> HIDE DEF T
  <2> QED
    BY <1>1, <1>2, Stretch
<1> QED
  BY <1>3

\* Whether a character is escaped depends on the one before it.
LEMMA EscapedNext ==
    ASSUME NEW i \in Nat, NEW j \in Nat, i <= j
    PROVE  Escaped(i, j + 1) <=> Char(j) = Backslash /\ ~ Escaped(i, j)
<1> DEFINE Starts(b, e) == /\ \A k \in b .. e - 1 : Char(k) = Backslash
                           /\ b = i \/ Char(b - 1) # Backslash
<1>1. \A e : Escaped(i, e) <=> \E b \in i .. e - 1 : Starts(b, e) /\ (e - b) % 2 = 1
  BY Zenon DEF Escaped
<1>2. (j + 1) - 1 = j
  OBVIOUS
<1>3. ASSUME NEW a \in i .. j, Starts(a, j + 1), NEW b \in i .. j - 1, Starts(b, j) PROVE a = b
  <2>1. ASSUME a < b PROVE FALSE
    <3>1. b # i /\ b - 1 \in a .. j
      BY <2>1
    <3>2. Char(b - 1) = Backslash
      BY <1>2, <1>3, <3>1
    <3> QED
      BY <1>3, <3>1, <3>2
  <2>2. ASSUME b < a PROVE FALSE
    <3>1. a # i /\ a - 1 \in b .. j - 1
      BY <2>2
    <3>2. Char(a - 1) = Backslash
      BY <1>3, <3>1
    <3> QED
      BY <1>3, <3>1, <3>2
  <2> QED
    BY <2>1, <2>2
<1>4. ASSUME Escaped(i, j + 1) PROVE Char(j) = Backslash /\ ~ Escaped(i, j)
  <2>1. PICK a \in i .. j : Starts(a, j + 1) /\ (j + 1 - a) % 2 = 1
    BY <1>1, <1>2, <1>4
  <2>2. Char(j) = Backslash
    <3>1. j \in a .. (j + 1) - 1
      OBVIOUS
    <3> QED
      BY <2>1, <3>1
  <2>3. ASSUME Escaped(i, j) PROVE FALSE
    <3>1. PICK b \in i .. j - 1 : Starts(b, j) /\ (j - b) % 2 = 1
      BY <1>1, <2>3
    <3> HIDE DEF Starts
    <3>2. a = b
      BY <1>3, <2>1, <3>1
    <3> QED
      BY <2>1, <3>1, <3>2
  <2> QED
    BY <2>2, <2>3
<1>5. ASSUME Char(j) = Backslash, ~ Escaped(i, j) PROVE Escaped(i, j + 1)
  <2>1. CASE i = j \/ Char(j - 1) # Backslash
    <3>1. j \in i .. (j + 1) - 1 /\ (j + 1 - j) % 2 = 1 /\ \A k \in j .. (j + 1) - 1 : k = j
      OBVIOUS
    <3>2. Starts(j, j + 1)
      BY <1>5, <2>1, <3>1
    <3> HIDE DEF Starts
    <3> QED
      BY <1>1, <3>1, <3>2
  <2>2. CASE i # j /\ Char(j - 1) = Backslash
    <3> DEFINE B == {b \in i .. j - 1 : \A k \in b .. j - 1 : Char(k) = Backslash}
    <3>1. B \in SUBSET Nat /\ j - 1 \in B
      <4>1. j - 1 \in i .. j - 1 /\ \A k \in j - 1 .. j - 1 : k = j - 1
        BY <2>2
      <4> QED
        BY <2>2, <4>1
    <3>2. PICK b \in B : \A y \in B : b <= y
      <4> HIDE DEF B
      <4> QED
        BY <3>1, LeastElement
    <3>3. b \in i .. j - 1 /\ \A k \in b .. j - 1 : Char(k) = Backslash
      OBVIOUS
    <3>4. b = i \/ Char(b - 1) # Backslash
      <4>1. SUFFICES ASSUME b # i, Char(b - 1) = Backslash PROVE FALSE
        OBVIOUS
      <4>2. b - 1 \in i .. j - 1 /\ \A k \in b - 1 .. j - 1 : k = b - 1 \/ k \in b .. j - 1
        BY <3>3, <4>1
      <4>3. b - 1 \in B
        BY <3>3, <4>1, <4>2
      <4> HIDE DEF B
      <4>4. b <= b - 1
        BY <3>2, <4>3
      <4> QED
        BY <3>3, <4>4
    <3>5. Starts(b, j)
      BY <3>3, <3>4
    <3>6. \A k \in b .. (j + 1) - 1 : k = j \/ k \in b .. j - 1
      BY <3>3
    <3>7. Starts(b, j + 1)
      BY <1>5, <3>3, <3>4, <3>6
    <3> HIDE DEF Starts, B
    <3>8. (j - b) % 2 # 1
      BY <1>1, <1>5, <3>3, <3>5
    <3>9. (j + 1 - b) % 2 = 1 /\ b \in i .. (j + 1) - 1
      BY <3>3, <3>8
    <3> QED
      BY <1>1, <3>7, <3>9
  <2> QED
    BY <2>1, <2>2
<1> QED
  BY <1>4, <1>5

\* Characters with these states, up to the one after them, are in no comment.
OutsideStates == {"code", "string", "escape", "character", "character_escape"}
LEMMA Outside ==
    ASSUME text \in Seq(Character), NEW i \in 1 .. Len(text), NEW n \in Nat,
           n <= Len(text) + 1 - i,
           \A k \in 0 .. n : StateAt[i + k] \in OutsideStates
    PROVE  \A k \in 0 .. n - 1 : ~ InComment(StateAt, i + k)
<1> TAKE k \in 0 .. n - 1
<1>1. k \in 0 .. n /\ k + 1 \in 0 .. n /\ i + (k + 1) = (i + k) + 1 /\ i + k \in 1 .. Len(text)
  OBVIOUS
<1>2. StateAt[i + k] \in OutsideStates /\ StateAt[(i + k) + 1] \in OutsideStates
  BY <1>1, Zenon
<1> QED
  BY <1>1, <1>2, InCommentNext DEF OutsideStates, CommentStates

\* A string or a constant is one to C as well: its quotes are met as code and
\* within it.
LEMMA QuotedIsOutside ==
    ASSUME text \in Seq(Character), NEW i \in 1 .. Len(text), StateAt[i] = "code",
           NEW q \in {Quote, Apostrophe}, NEW j \in ClosingQuotes(q, i + 1),
           Char(i) = q, NEW n, n = j - i + 1
    PROVE  /\ \A k \in 0 .. n : StateAt[i + k] \in OutsideStates
           /\ StateAt[i + n] = "code"
<1>2. /\ j \in i + 1 .. Len(text) /\ Char(j) = q /\ ~ Escaped(i + 1, j)
      /\ \A k \in i + 1 .. j - 1 : Char(k) = q => Escaped(i + 1, k)
  BY DEF ClosingQuotes
<1> DEFINE Inside(k) == StateAt[k] = IF Escaped(i + 1, k) THEN EscapeOf(q) ELSE InsideOf(q)
           T == {k \in i + 1 .. j : Inside(k)}
<1>3. T \in SUBSET (i + 1 .. j) /\ i + 1 \in T
  <2>1. StateAt[i + 1] = InsideOf(q)
    <3>1. StateAt[i + 1] = After(StateAt[i], Char(i), Char(i + 1))
      BY StateNext
    <3>2. StateAt[i + 1] = After("code", q, Char(i + 1))
      BY <3>1
    <3>3. After("code", q, Char(i + 1)) = InsideOf(q)
      BY AfterQuoted, Zenon
    <3> QED
      BY <3>2, <3>3
  <2>2. ~ Escaped(i + 1, i + 1)
    <3>1. ~ \E b \in i + 1 .. (i + 1) - 1 : TRUE
      OBVIOUS
    <3> QED
      BY <3>1 DEF Escaped
  <2>3. i + 1 \in i + 1 .. j
    BY <1>2
  <2> QED
    BY <2>1, <2>2, <2>3
<1>4. ASSUME NEW k \in (i + 1) + 1 .. j, k - 1 \in T PROVE k \in T
  <2> DEFINE p == k - 1
  <2>1. /\ k \in i + 1 .. j /\ p \in i + 1 .. j - 1 /\ p \in 1 .. Len(text) /\ p + 1 = k
        /\ i + 1 \in Nat /\ p \in Nat /\ i + 1 <= p
    BY <1>2
  <2>2. Inside(p)
    BY <1>4
  <2> HIDE DEF p
  <2>3. Escaped(i + 1, k) <=> Char(p) = Backslash /\ ~ Escaped(i + 1, p)
    BY <2>1, EscapedNext
  <2>4. StateAt[k] = After(StateAt[p], Char(p), Char(k))
    BY <2>1, StateNext
  <2>5. CASE Escaped(i + 1, p)
    BY <2>1, <2>2, <2>3, <2>4, <2>5, AfterQuoted
  <2>6. CASE ~ Escaped(i + 1, p)
    <3>1. Char(p) # q
      BY <1>2, <2>1, <2>6
    <3>2. StateAt[p] = InsideOf(q)
      BY <2>2, <2>6
    <3>3. Char(p) = Backslash => StateAt[k] = EscapeOf(q)
      BY <2>4, <3>2, AfterQuoted
    <3>4. Char(p) # Backslash => StateAt[k] = InsideOf(q)
      BY <2>4, <3>1, <3>2, AfterQuoted
    <3> QED
      BY <2>1, <2>3, <2>6, <3>3, <3>4
  <2> QED
    BY <2>5, <2>6
<1>5. T = i + 1 .. j
  <2>1. i + 1 \in Nat /\ j \in Nat
    BY <1>2
  <2> HIDE DEF T
  <2> QED
    BY <1>3, <1>4, <2>1, Stretch
<1>6. \A k \in i + 1 .. j : Inside(k)
  BY <1>5
<1>7. StateAt[j + 1] = "code"
  <2>1. j \in i + 1 .. j /\ j \in 1 .. Len(text)
    BY <1>2
  <2>2. StateAt[j] = InsideOf(q)
    BY <1>2, <1>6, <2>1
  <2> QED
    BY <1>2, <2>1, <2>2, StateNext, AfterQuoted
<1>8. i + n = j + 1
  BY <1>2
<1>9. EscapeOf(q) \in OutsideStates /\ InsideOf(q) \in OutsideStates /\ "code" \in OutsideStates
  BY DEF OutsideStates, EscapeOf, InsideOf
<1>10. ASSUME NEW k \in 0 .. n PROVE StateAt[i + k] \in OutsideStates
  <2>1. i + k = i \/ i + k = j + 1 \/ i + k \in i + 1 .. j
    BY <1>2
  <2> QED
    BY <1>6, <1>7, <1>9, <2>1
<1> QED
  BY <1>7, <1>8, <1>10

\* So is an operator: no comment begins in one, nor one that the rules miss
\* unless a line comment runs to the end of the text.
LEMMA OperatorIsCode ==
    ASSUME text \in Seq(Character), NEW i \in 1 .. Len(text), StateAt[i] = "code",
           StateAt[Len(text) + 1] # "line_comment",
           NEW n \in Matches("operator", i),
           \A m \in Matches("comment", i) \cup Matches("line_comment", i) : m <= n
    PROVE  \A k \in 0 .. n : StateAt[i + k] = "code"
<1>1. PICK op \in Operators : Spelled(i, op) /\ n = Len(op)
  BY DEF Matches
<1>2. /\ n \in 1 .. 3 /\ DOMAIN op = 1 .. n
      /\ op[1] \in {"/", "*", "<", "="}
      /\ \A k \in 2 .. n : op[k] \in {"<", "="}
  BY <1>1, OperatorFacts
<1>3. Char(i) = op[1] /\ \A k \in 1 .. n - 1 : Char(i + k) \in {"<", "="}
  <2>1. \A k \in 1 .. n : Char(i + k - 1) = op[k]
    BY <1>1, <1>2 DEF Spelled
  <2>2. 1 \in 1 .. n /\ i + 1 - 1 = i
    BY <1>2
  <2>3. ASSUME NEW k \in 1 .. n - 1 PROVE Char(i + k) \in {"<", "="}
    <3>1. k + 1 \in 2 .. n /\ k + 1 \in 1 .. n /\ i + (k + 1) - 1 = i + k
      BY <1>2
    <3> QED
      BY <1>2, <2>1, <3>1
  <2>4. Char(i) = op[1]
    BY <2>1, <2>2
  <2> QED
    BY <2>3, <2>4
<1>4. n \in Nat /\ n <= Len(text) + 1 - i /\ n >= 1
  <2>1. "operator" \in RuleNames
    BY DEF RuleNames
  <2> QED
    BY <2>1, MatchFacts
<1>5. Quote \notin {"/", "*", "<", "="} /\ Apostrophe \notin {"/", "*", "<", "="}
  BY DEF Quote, Apostrophe
<1>6. CASE op[1] # "/"
  <2>1. ASSUME NEW k \in 0 .. n - 1 PROVE Char(i + k) \notin {Quote, Apostrophe, "/"}
    <3>1. k = 0 \/ k \in 1 .. n - 1
      BY <1>4
    <3>2. i + 0 = i
      OBVIOUS
    <3> QED
      BY <1>2, <1>3, <1>5, <1>6, <3>1, <3>2
  <2>2. i \in 1 .. Len(text) + 1
    OBVIOUS
  <2> QED
    BY <1>4, <2>1, <2>2, CodeGoesOn, Zenon
<1>7. CASE op[1] = "/"
  <2>1. Char(i) = "/"
    BY <1>3, <1>7
  <2>2. Char(i + 1) # "*"
    <3>1. SUFFICES ASSUME Char(i + 1) = "*" PROVE FALSE
      OBVIOUS
    <3>2. Spelled(i, <<"/", "*">>)
      <4>1. \A k \in DOMAIN <<"/", "*">> : \/ k = 1 /\ i + k - 1 = i /\ <<"/", "*">>[k] = "/"
                                           \/ k = 2 /\ i + k - 1 = i + 1 /\ <<"/", "*">>[k] = "*"
        OBVIOUS
      <4> QED
        BY <2>1, <3>1, <4>1 DEF Spelled
    <3>3. 2 \in Matches("comment", i)
      BY <3>2 DEF Matches, Length
    <3>4. 1 \in 1 .. n - 1
      BY <1>4, <3>3
    <3> QED
      BY <1>3, <3>1, <3>4
  <2>3. Char(i + 1) # "/"
    <3>1. SUFFICES ASSUME Char(i + 1) = "/" PROVE FALSE
      OBVIOUS
    <3>2. Spelled(i, <<"/", "/">>)
      <4>1. \A k \in DOMAIN <<"/", "/">> : \/ k = 1 /\ i + k - 1 = i /\ <<"/", "/">>[k] = "/"
                                           \/ k = 2 /\ i + k - 1 = i + 1 /\ <<"/", "/">>[k] = "/"
        OBVIOUS
      <4> QED
        BY <2>1, <3>1, <4>1 DEF Spelled
    <3> DEFINE r == Run(i, InLine)
    <3>3. InLine \in SUBSET Character /\ "/" \in InLine
      BY DEF InLine, Character
    <3>4. /\ r \in 0 .. Len(text) + 1 - i /\ Char(i + r) \notin InLine
          /\ \A k \in 0 .. r - 1 : Char(i + k) \in InLine
      BY <3>3, RunFacts
    <3> HIDE DEF r
    <3>5. r >= 2
      <4>1. i + 0 = i /\ Char(i + 0) \in InLine /\ Char(i + 1) \in InLine
        BY <2>1, <3>1, <3>3
      <4>2. r # 0 /\ r # 1
        BY <3>4, <4>1
      <4> QED
        BY <3>4, <4>2
    <3>6. Char(i + r) # "newline"
      <4>1. SUFFICES ASSUME Char(i + r) = "newline" PROVE FALSE
        OBVIOUS
      <4>2. r \in Matches("line_comment", i)
        BY <3>2, <4>1 DEF Matches, Length, r
      <4>3. 1 \in 1 .. n - 1
        BY <1>4, <3>4, <3>5, <4>2
      <4> QED
        BY <1>3, <3>1, <4>3
    <3>7. i + r = Len(text) + 1
      <4>1. SUFFICES ASSUME i + r # Len(text) + 1 PROVE FALSE
        OBVIOUS
      <4>2. i + r \in Nat \ {0} /\ i + r <= Len(text)
        BY <3>4, <4>1
      <4>3. Char(i + r) \in Character
        BY <4>2, CharFacts
      <4> QED
        BY <3>4, <3>6, <4>3 DEF InLine
    <3>8. StateAt[i + 1] = "line_comment"
      BY <2>1, <3>1, StateNext, AfterFacts
    <3> DEFINE m == r - 1
    <3>9. /\ m \in Nat /\ i + 1 \in 1 .. Len(text) + 1
          /\ m <= Len(text) + 1 - (i + 1) /\ (i + 1) + m = Len(text) + 1
      BY <3>4, <3>5, <3>7
    <3>10. ASSUME NEW k \in 1 .. m PROVE Char((i + 1) + k) # "newline"
      <4>1. (i + 1) + k = i + (k + 1) /\ (k + 1 = r \/ k + 1 \in 0 .. r - 1)
        BY <3>4, <3>5
      <4> QED
        BY <3>4, <3>6, <4>1 DEF InLine
    <3> HIDE DEF m
    <3>11. StateAt[(i + 1) + m] = "line_comment"
      <4>1. m \in 0 .. m
        BY <3>9
      <4> QED
        BY <3>8, <3>9, <3>10, <4>1, LineCommentGoesOn
    <3> QED
      BY <3>9, <3>11
  <2>4. StateAt[i + 1] = "code"
    BY <2>1, <2>2, <2>3, StateNext, AfterFacts
  <2> DEFINE m == n - 1
  <2>5. m \in Nat /\ i + 1 \in 1 .. Len(text) + 1 /\ m <= Len(text) + 1 - (i + 1)
    BY <1>4
  <2>6. ASSUME NEW k \in 0 .. m - 1 PROVE Char((i + 1) + k) \notin {Quote, Apostrophe, "/"}
    <3>1. (i + 1) + k = i + (k + 1) /\ k + 1 \in 1 .. n - 1
      BY <1>4
    <3> QED
      BY <1>3, <1>5, <3>1
  <2> HIDE DEF m
  <2>7. \A k \in 0 .. m : StateAt[(i + 1) + k] = "code"
    BY <2>4, <2>5, <2>6, CodeGoesOn
  <2>8. ASSUME NEW k \in 0 .. n PROVE StateAt[i + k] = "code"
    <3>1. CASE k = 0
      BY <3>1
    <3>2. CASE k # 0
      <4>1. k - 1 \in 0 .. m /\ (i + 1) + (k - 1) = i + k
        BY <1>4, <3>2 DEF m
      <4> QED
        BY <2>7, <4>1
    <3> QED
      BY <3>1, <3>2
  <2> QED
    BY <2>8
<1> QED
  BY <1>6, <1>7

\* What the other rules of tokens and the newline match is code.
LEMMA TokenIsOutside ==
    ASSUME text \in Seq(Character), NEW i \in 1 .. Len(text), StateAt[i] = "code",
           StateAt[Len(text) + 1] # "line_comment",
           NEW rule \in {"word", "number", "character", "string", "operator", "blank", "newline"},
           NEW n \in Matches(rule, i),
           \A other \in RuleNames : \A m \in Matches(other, i) : m <= n
    PROVE  /\ \A k \in 0 .. n - 1 : ~ InComment(StateAt, i + k)
           /\ StateAt[i + n] = "code"
<1>1. rule \in RuleNames
  BY DEF RuleNames
<1>2. n \in Nat /\ n <= Len(text) + 1 - i /\ n >= 1
  BY <1>1, MatchFacts
<1>3. i \in 1 .. Len(text) + 1
  OBVIOUS
<1> DEFINE Good == /\ \A k \in 0 .. n : StateAt[i + k] \in OutsideStates
                   /\ StateAt[i + n] = "code"
<1>4. ASSUME \A k \in 0 .. n : StateAt[i + k] = "code" PROVE Good
  <2>1. n \in 0 .. n
    BY <1>2
  <2> QED
    BY <1>4, <2>1 DEF OutsideStates
<1>5. ASSUME \A k \in 0 .. n - 1 : Char(i + k) \notin {Quote, Apostrophe, "/"} PROVE Good
  <2>1. \A k \in 0 .. n : StateAt[i + k] = "code"
    BY <1>2, <1>3, <1>5, CodeGoesOn, Zenon
  <2> QED
    BY <1>4, <2>1
<1>6. ASSUME NEW S \in SUBSET InWord, n = Run(i, S) PROVE Good
  <2>1. S \in SUBSET Character
    BY DEF InWord, Character
  <2>2. \A k \in 0 .. n - 1 : Char(i + k) \in S
    BY <1>6, <2>1, RunFacts
  <2>3. Quote \notin InWord /\ Apostrophe \notin InWord /\ "/" \notin InWord
    BY DEF InWord, Letter, Digit, Quote, Apostrophe
  <2> QED
    BY <1>5, <2>2, <2>3
<1>7. ASSUME n = 1, Char(i) \in {"space", "tab", "newline"} PROVE Good
  <2>1. \A k \in 0 .. n - 1 : i + k = i
    BY <1>7
  <2>2. Char(i) \notin {Quote, Apostrophe, "/"}
    BY <1>7 DEF Quote, Apostrophe
  <2>3. \A k \in 0 .. n - 1 : Char(i + k) \notin {Quote, Apostrophe, "/"}
    BY <2>1, <2>2
  <2> QED
    BY <1>5, <2>3
<1>8. ASSUME rule = "word" PROVE Good
  <2>1. n = Run(i, InWord) /\ InWord \in SUBSET InWord
    BY <1>8 DEF Matches, Length
  <2> QED
    BY <1>6, <2>1
<1>9. ASSUME rule = "number" PROVE Good
  <2>1. n = Run(i, Digit) /\ Digit \in SUBSET InWord
    BY <1>9 DEF Matches, Length, InWord
  <2> QED
    BY <1>6, <2>1
<1>10. ASSUME rule = "string" PROVE Good
  <2>1. \E j \in ClosingQuotes(Quote, i + 1) : Char(i) = Quote /\ n = j - i + 1
    BY <1>10 DEF Matches
  <2> QED
    BY <2>1, QuotedIsOutside
<1>16. ASSUME rule = "character" PROVE Good
  <2>1. \E j \in ClosingQuotes(Apostrophe, i + 1) : Char(i) = Apostrophe /\ n = j - i + 1
    BY <1>16 DEF Matches
  <2> QED
    BY <2>1, QuotedIsOutside
<1>11. ASSUME rule = "operator" PROVE Good
  <2>1. n \in Matches("operator", i)
    BY <1>11
  <2>2. "comment" \in RuleNames /\ "line_comment" \in RuleNames
    BY DEF RuleNames
  <2>3. \A m \in Matches("comment", i) \cup Matches("line_comment", i) : m <= n
    BY <2>2
  <2>4. \A k \in 0 .. n : StateAt[i + k] = "code"
    BY <2>1, <2>3, OperatorIsCode
  <2> QED
    BY <1>4, <2>4
<1>12. ASSUME rule = "blank" PROVE Good
  <2>1. n = 1 /\ Char(i) \in {"space", "tab"}
    BY <1>12 DEF Matches, Length
  <2> QED
    BY <1>7, <2>1
<1>13. ASSUME rule = "newline" PROVE Good
  <2>1. n = 1 /\ Char(i) = "newline"
    BY <1>13 DEF Matches, Length
  <2> QED
    BY <1>7, <2>1
<1>14. Good
  <2> HIDE DEF Good
  <2> QED
    BY <1>8, <1>9, <1>10, <1>11, <1>12, <1>13, <1>16
<1>15. \A k \in 0 .. n - 1 : ~ InComment(StateAt, i + k)
  BY <1>2, <1>14, Outside
<1> QED
  BY <1>14, <1>15

\* A line comment is one to C, up to its newline.
LEMMA LineCommentIsInside ==
    ASSUME text \in Seq(Character), NEW i \in 1 .. Len(text), StateAt[i] = "code",
           NEW n \in Matches("line_comment", i)
    PROVE  /\ \A k \in 0 .. n - 1 : InComment(StateAt, i + k)
           /\ StateAt[i + n] = "code"
<1>1. n = Run(i, InLine) /\ Spelled(i, <<"/", "/">>) /\ Char(i + n) = "newline"
  BY DEF Matches, Length
<1>2. Char(i) = "/" /\ Char(i + 1) = "/"
  <2>1. /\ 1 \in DOMAIN <<"/", "/">> /\ <<"/", "/">>[1] = "/" /\ i + 1 - 1 = i
        /\ 2 \in DOMAIN <<"/", "/">> /\ <<"/", "/">>[2] = "/" /\ i + 2 - 1 = i + 1
    OBVIOUS
  <2> QED
    BY <1>1, <2>1 DEF Spelled
<1>3. InLine \in SUBSET Character /\ "/" \in InLine
  BY DEF InLine, Character
<1>4. n \in 0 .. Len(text) + 1 - i /\ \A k \in 0 .. n - 1 : Char(i + k) \in InLine
  BY <1>1, <1>3, RunFacts
<1>5. n >= 2
  <2>1. i + 0 = i /\ "/" # "newline"
    OBVIOUS
  <2>2. n # 0 /\ n # 1
    BY <1>1, <1>2, <2>1
  <2> QED
    BY <1>4, <2>2
<1>6. i + n \in 1 .. Len(text)
  <2>1. i + n \in Nat \ {0} /\ "newline" # End
    BY <1>4 DEF End
  <2> QED
    BY <1>1, <2>1, CharFacts
<1>7. StateAt[i + 1] = "line_comment"
  BY <1>2, StateNext, AfterFacts
<1> DEFINE m == n - 2
<1>8. /\ m \in Nat /\ i + 1 \in 1 .. Len(text) + 1 /\ m <= Len(text) + 1 - (i + 1)
      /\ (i + 1) + m \in 1 .. Len(text) /\ ((i + 1) + m) + 1 = i + n
  BY <1>4, <1>5, <1>6
<1>9. ASSUME NEW k \in 1 .. m PROVE Char((i + 1) + k) # "newline"
  <2>1. (i + 1) + k = i + (k + 1) /\ k + 1 \in 0 .. n - 1
    BY <1>4, <1>5
  <2> QED
    BY <1>4, <2>1 DEF InLine
<1> HIDE DEF m
<1>10. \A k \in 0 .. m : StateAt[(i + 1) + k] = "line_comment"
  BY <1>7, <1>8, <1>9, LineCommentGoesOn
<1>11. StateAt[i + n] = "code"
  <2>1. StateAt[(i + 1) + m] = "line_comment"
    <3>1. m \in 0 .. m
      BY <1>8
    <3> QED
      BY <1>10, <3>1
  <2>2. StateAt[((i + 1) + m) + 1]
          = After(StateAt[(i + 1) + m], Char((i + 1) + m), Char(((i + 1) + m) + 1))
    BY <1>8, StateNext
  <2> QED
    BY <1>1, <1>8, <2>1, <2>2, AfterFacts
<1>12. ASSUME NEW k \in 0 .. n - 1 PROVE InComment(StateAt, i + k)
  <2>1. CASE k = 0
    <3>1. i + k = i
      BY <2>1
    <3> QED
      BY <1>7, <3>1, InCommentNext
  <2>2. CASE k # 0
    <3>1. k - 1 \in 0 .. m /\ (i + 1) + (k - 1) = i + k /\ i + k \in 1 .. Len(text)
      BY <1>4, <2>2 DEF m
    <3>2. StateAt[i + k] = "line_comment"
      BY <1>10, <3>1
    <3> QED
      BY <3>1, <3>2, InCommentNext DEF CommentStates
  <2> QED
    BY <2>1, <2>2
<1> QED
  BY <1>11, <1>12

\* The characters that open a comment, and what the loop of a comment passes.
LEMMA CommentOpens ==
    ASSUME text \in Seq(Character), NEW i \in 1 .. Len(text), StateAt[i] = "code",
           NEW n \in Matches("comment", i)
    PROVE  /\ n = 2
           /\ \A k \in 0 .. n - 1 : InComment(StateAt, i + k)
           /\ StateAt[i + n] = "comment"
<1>1. n = 2 /\ Spelled(i, <<"/", "*">>)
  BY DEF Matches, Length
<1>2. Char(i) = "/" /\ Char(i + 1) = "*"
  <2>1. /\ 1 \in DOMAIN <<"/", "*">> /\ <<"/", "*">>[1] = "/" /\ i + 1 - 1 = i
        /\ 2 \in DOMAIN <<"/", "*">> /\ <<"/", "*">>[2] = "*" /\ i + 2 - 1 = i + 1
    OBVIOUS
  <2> QED
    BY <1>1, <2>1 DEF Spelled
<1>3. i + 1 \in 1 .. Len(text)
  <2>1. i + 1 \in Nat \ {0} /\ "*" # End
    BY DEF End
  <2> QED
    BY <1>2, <2>1, CharFacts
<1>4. StateAt[i + 1] = "comment_opens"
  BY <1>2, StateNext, AfterFacts
<1>5. StateAt[(i + 1) + 1] = "comment"
  <2>1. StateAt[(i + 1) + 1] = After(StateAt[i + 1], Char(i + 1), Char((i + 1) + 1))
    BY <1>3, StateNext
  <2> QED
    BY <1>4, <2>1, AfterFacts
<1>6. InComment(StateAt, i)
  BY <1>4, InCommentNext
<1>7. InComment(StateAt, i + 1)
  BY <1>3, <1>4, InCommentNext DEF CommentStates
<1>8. i + 0 = i /\ (i + 1) + 1 = i + 2 /\ \A k \in 0 .. 2 - 1 : k = 0 \/ k = 1
  OBVIOUS
<1> QED
  BY <1>1, <1>5, <1>6, <1>7, <1>8

LEMMA CommentGoesOn ==
    ASSUME text \in Seq(Character), NEW i \in 1 .. Len(text), StateAt[i] = "comment"
    PROVE  /\ InComment(StateAt, i)
           /\ ~ (Char(i) = "*" /\ Char(i + 1) = "/") => StateAt[i + 1] = "comment"
           /\ Char(i) = "*" /\ Char(i + 1) = "/" =>
                 /\ i + 1 \in 1 .. Len(text)
                 /\ InComment(StateAt, i + 1)
                 /\ StateAt[i + 2] = "code"
<1>1. InComment(StateAt, i)
  BY InCommentNext DEF CommentStates
<1>2. ~ (Char(i) = "*" /\ Char(i + 1) = "/") => StateAt[i + 1] = "comment"
  BY StateNext, AfterFacts
<1>3. ASSUME Char(i) = "*", Char(i + 1) = "/"
      PROVE  i + 1 \in 1 .. Len(text) /\ InComment(StateAt, i + 1) /\ StateAt[i + 2] = "code"
  <2>1. i + 1 \in 1 .. Len(text)
    <3>1. i + 1 \in Nat \ {0} /\ "/" # End
      BY DEF End
    <3> QED
      BY <1>3, <3>1, CharFacts
  <2>2. StateAt[i + 1] = "comment_closes"
    BY <1>3, StateNext, AfterFacts
  <2>3. StateAt[(i + 1) + 1] = After(StateAt[i + 1], Char(i + 1), Char((i + 1) + 1))
    BY <2>1, StateNext
  <2>4. (i + 1) + 1 = i + 2
    OBVIOUS
  <2>5. StateAt[i + 2] = "code"
    BY <2>2, <2>3, <2>4, AfterFacts
  <2>6. InComment(StateAt, i + 1)
    BY <2>1, <2>2, InCommentNext DEF CommentStates
  <2> QED
    BY <2>1, <2>5, <2>6
<1> QED
  BY <1>1, <1>2, <1>3

LEMMA CommentsBeforeNext ==
    ASSUME NEW i \in Nat \ {0}, NEW n \in Nat
    PROVE  /\ (\A k \in 0 .. n - 1 : InComment(StateAt, i + k)) =>
                 CommentsBefore(StateAt, i + n)
                    = CommentsBefore(StateAt, i) \cup (i .. i + n - 1)
           /\ (\A k \in 0 .. n - 1 : ~ InComment(StateAt, i + k)) =>
                 CommentsBefore(StateAt, i + n) = CommentsBefore(StateAt, i)
<1>1. \A j, x : x \in CommentsBefore(StateAt, j)
                   <=> x \in 1 .. j - 1 /\ InComment(StateAt, x)
  BY Zenon DEF CommentsBefore
<1>2. ASSUME NEW x
      PROVE  x \in 1 .. (i + n) - 1 <=> x \in 1 .. i - 1 \/ x \in i .. i + n - 1
  OBVIOUS
<1>3. ASSUME NEW x \in i .. i + n - 1 PROVE x - i \in 0 .. n - 1 /\ i + (x - i) = x
  OBVIOUS
<1>4. ASSUME NEW x, x \in 1 .. i - 1 PROVE ~ (x \in i .. i + n - 1)
  BY <1>4
<1>5. ASSUME \A k \in 0 .. n - 1 : InComment(StateAt, i + k)
      PROVE  CommentsBefore(StateAt, i + n)
                = CommentsBefore(StateAt, i) \cup (i .. i + n - 1)
  <2>1. \A x \in i .. i + n - 1 : InComment(StateAt, x)
    BY <1>3, <1>5
  <2>2. \A x : x \in CommentsBefore(StateAt, i + n)
                  <=> x \in CommentsBefore(StateAt, i) \/ x \in i .. i + n - 1
    BY <1>1, <1>2, <2>1, Zenon
  <2> QED
    BY <2>2, Zenon
<1>6. ASSUME \A k \in 0 .. n - 1 : ~ InComment(StateAt, i + k)
      PROVE  CommentsBefore(StateAt, i + n) = CommentsBefore(StateAt, i)
  <2>1. \A x \in i .. i + n - 1 : ~ InComment(StateAt, x)
    BY <1>3, <1>6
  <2>2. \A x : x \in CommentsBefore(StateAt, i + n) <=> x \in CommentsBefore(StateAt, i)
    BY <1>1, <1>2, <2>1, Zenon
  <2> QED
    BY <2>2, Zenon
<1> QED
  BY <1>5, <1>6

\* Between its turns the scanner and C are in step: a rule begins in code, and
\* the loop of a comment runs inside one.
Clean == lex_error_count = 0 /\ StateAt[Len(text) + 1] # "line_comment"
InStep ==
    /\ comments = CommentsBefore(StateAt, at)
    /\ mode = "rules" /\ at <= Len(text) => StateAt[at] = "code"
    /\ mode = "comment" => StateAt[at] = "comment"
CommentInv == Clean => InStep

LEMMA StateAtStays ==
    ASSUME text' = text
    PROVE  StateAt' = StateAt
  BY DEF StateAt, After, Char

LEMMA CommentInit == Init => CommentInv
<1> SUFFICES ASSUME Init PROVE InStep
  BY DEF CommentInv
<1>1. at = 1 /\ mode = "rules" /\ comments = {} /\ text \in Seq(Character)
  BY TextsAssumption DEF Init
<1>2. StateAt[1] = "code"
  BY <1>1, StateAtUnfolds
<1>3. CommentsBefore(StateAt, 1) = {}
  BY DEF CommentsBefore
<1> QED
  BY <1>1, <1>2, <1>3 DEF InStep

\* A turn that passes n characters, all of them in comments or none.
LEMMA InStepNext ==
    ASSUME text' = text, NEW n \in Nat, at \in Nat \ {0}, at' = at + n, InStep,
           \/ /\ comments' = comments
              /\ \A k \in 0 .. n - 1 : ~ InComment(StateAt, at + k)
           \/ /\ comments' = comments \cup (at .. at + n - 1)
              /\ \A k \in 0 .. n - 1 : InComment(StateAt, at + k),
           mode' = "rules" /\ at' <= Len(text) => StateAt[at + n] = "code",
           mode' = "comment" => StateAt[at + n] = "comment"
    PROVE  InStep'
<1>1. comments' = CommentsBefore(StateAt, at + n)
  <2>1. comments = CommentsBefore(StateAt, at)
    BY DEF InStep
  <2> QED
    BY <2>1, CommentsBeforeNext
<1>2. StateAt' = StateAt
  BY StateAtStays
<1>3. InStep' <=> /\ comments' = CommentsBefore(StateAt, at')
                  /\ mode' = "rules" /\ at' <= Len(text) => StateAt[at'] = "code"
                  /\ mode' = "comment" => StateAt[at'] = "comment"
  <2>1. CommentsBefore(StateAt, at)' = CommentsBefore(StateAt, at')
    BY <1>2 DEF CommentsBefore, InComment, After, Char
  <2> QED
    BY <1>2, <2>1 DEF InStep
<1> QED
  BY <1>1, <1>3

LEMMA CommentStep == TypeInv /\ CommentInv /\ [Next]_vars => CommentInv'
<1> SUFFICES ASSUME TypeInv, CommentInv, [Next]_vars, Clean' PROVE InStep'
  BY DEF CommentInv
<1>1. /\ text \in Seq(Character) /\ Len(text) \in Nat /\ at \in 1 .. Len(text) + 1
      /\ at \in Nat \ {0} /\ lex_error_count \in Nat
  BY DEF TypeInv, TypeOK
<1>2. text' = text
  BY StepKinds
<1>3. StateAt' = StateAt /\ StateAt[Len(text) + 1] # "line_comment" /\ lex_error_count' = 0
  BY <1>2, StateAtStays DEF Clean
<1>4. ASSUME lex_error_count' = lex_error_count PROVE InStep
  BY <1>3, <1>4 DEF Clean, CommentInv
<1>5. ASSUME Char(at) # End PROVE at \in 1 .. Len(text)
  BY <1>1, <1>5, CharFacts
<1>6. ASSUME Scan PROVE InStep'
  <2>1. at \in 1 .. Len(text) /\ mode = "rules"
    BY <1>6, ScanFacts DEF Scan
  <2>2. PICK rule \in RuleNames : \E n \in Matches(rule, at) :
            /\ \A other \in RuleNames : \A m \in Matches(other, at) : m <= n
            /\ \/ Token(rule, n) \/ Newline(rule, n) \/ UnexpectedCharacter(rule, n)
               \/ LineComment(rule, n) \/ CommentBegin(rule, n)
    BY <1>6, ScanFacts
  <2>3. PICK n \in Matches(rule, at) :
            /\ \A other \in RuleNames : \A m \in Matches(other, at) : m <= n
            /\ \/ Token(rule, n) \/ Newline(rule, n) \/ UnexpectedCharacter(rule, n)
               \/ LineComment(rule, n) \/ CommentBegin(rule, n)
    BY <2>2
  <2>4. n \in Nat
    BY <1>1, <2>1, MatchFacts
  <2>5. InStep => StateAt[at] = "code"
    BY <2>1 DEF InStep
  <2>6. ASSUME Token(rule, n) \/ Newline(rule, n) PROVE InStep'
    <3>1. /\ at' = at + n /\ comments' = comments /\ mode' = "rules"
          /\ lex_error_count' = lex_error_count
          /\ rule \in {"word", "number", "character", "string", "operator", "blank", "newline"}
      BY <2>1, <2>6 DEF Token, Newline, Passed
    <3>2. InStep
      BY <1>4, <3>1
    <3>3. /\ \A k \in 0 .. n - 1 : ~ InComment(StateAt, at + k)
          /\ StateAt[at + n] = "code"
      BY <1>1, <1>3, <2>1, <2>3, <2>5, <3>1, <3>2, TokenIsOutside
    <3> QED
      BY <1>1, <1>2, <2>4, <3>1, <3>2, <3>3, InStepNext
  <2>7. ASSUME UnexpectedCharacter(rule, n) PROVE FALSE
    BY <1>1, <1>3, <2>7 DEF UnexpectedCharacter
  <2>8. ASSUME LineComment(rule, n) PROVE InStep'
    <3>1. /\ at' = at + n /\ comments' = comments \cup (at .. at + n - 1)
          /\ mode' = "rules" /\ lex_error_count' = lex_error_count
          /\ rule = "line_comment"
      BY <2>1, <2>8 DEF LineComment, PassedAsComment, Passed
    <3>2. InStep
      BY <1>4, <3>1
    <3>3. /\ \A k \in 0 .. n - 1 : InComment(StateAt, at + k)
          /\ StateAt[at + n] = "code"
      BY <1>1, <2>1, <2>3, <2>5, <3>1, <3>2, LineCommentIsInside
    <3> QED
      BY <1>1, <1>2, <2>4, <3>1, <3>2, <3>3, InStepNext
  <2>9. ASSUME CommentBegin(rule, n) PROVE InStep'
    <3>1. /\ at' = at + n /\ comments' = comments \cup (at .. at + n - 1)
          /\ mode' = "comment" /\ lex_error_count' = lex_error_count
          /\ rule = "comment"
      BY <2>9 DEF CommentBegin, PassedAsComment, Passed
    <3>2. InStep
      BY <1>4, <3>1
    <3>3. /\ \A k \in 0 .. n - 1 : InComment(StateAt, at + k)
          /\ StateAt[at + n] = "comment"
      BY <1>1, <2>1, <2>3, <2>5, <3>1, <3>2, CommentOpens
    <3> QED
      BY <1>1, <1>2, <2>4, <3>1, <3>2, <3>3, InStepNext
  <2> QED
    BY <2>3, <2>6, <2>7, <2>8, <2>9
<1>7. \A k \in 0 .. 1 - 1 : at + k = at
  BY <1>1
<1>8. ASSUME CommentChar PROVE InStep'
  <2>1. /\ at' = at + 1 /\ comments' = comments \cup (at .. at + 1 - 1)
        /\ mode = "comment" /\ mode' = "comment"
        /\ lex_error_count' = lex_error_count
        /\ Char(at) # "*" /\ Char(at) # End
    BY <1>8 DEF CommentChar, PassedAsComment, Passed
  <2>2. InStep
    BY <1>4, <2>1
  <2>3. StateAt[at] = "comment" /\ at \in 1 .. Len(text)
    BY <1>5, <2>1, <2>2 DEF InStep
  <2>4. InComment(StateAt, at) /\ StateAt[at + 1] = "comment"
    BY <1>1, <2>1, <2>3, CommentGoesOn
  <2>5. \A k \in 0 .. 1 - 1 : InComment(StateAt, at + k)
    BY <1>7, <2>4
  <2>6. 1 \in Nat
    OBVIOUS
  <2> QED
    BY <1>1, <1>2, <2>1, <2>2, <2>4, <2>5, <2>6, InStepNext
<1>9. ASSUME CommentStar PROVE InStep'
  <2>1. /\ mode = "comment" /\ lex_error_count' = lex_error_count /\ Char(at) = "*"
        /\ "*" # End
    BY <1>9 DEF CommentStar, End
  <2>2. InStep
    BY <1>4, <2>1
  <2>3. StateAt[at] = "comment" /\ at \in 1 .. Len(text)
    BY <1>5, <2>1, <2>2 DEF InStep
  <2>4. 1 \in Nat /\ 2 \in Nat
    OBVIOUS
  <2>5. CASE Char(at + 1) = "/"
    <3>1. /\ at' = at + 2 /\ comments' = comments \cup (at .. at + 2 - 1)
          /\ mode' = "rules"
      BY <1>9, <2>5 DEF CommentStar, PassedAsComment, Passed
    <3>2. /\ InComment(StateAt, at) /\ InComment(StateAt, at + 1)
          /\ StateAt[at + 2] = "code"
      BY <1>1, <2>1, <2>3, <2>5, CommentGoesOn
    <3>3. \A k \in 0 .. 2 - 1 : InComment(StateAt, at + k)
      <4>1. at + 0 = at /\ \A k \in 0 .. 2 - 1 : k = 0 \/ k = 1
        BY <1>1
      <4> QED
        BY <3>2, <4>1
    <3> QED
      BY <1>1, <1>2, <2>2, <2>4, <3>1, <3>2, <3>3, InStepNext
  <2>6. CASE Char(at + 1) # "/"
    <3>1. /\ at' = at + 1 /\ comments' = comments \cup (at .. at + 1 - 1)
          /\ mode' = "comment"
      BY <1>9, <2>1, <2>6 DEF CommentStar, PassedAsComment, Passed
    <3>2. InComment(StateAt, at) /\ StateAt[at + 1] = "comment"
      BY <1>1, <2>3, <2>6, CommentGoesOn
    <3>3. \A k \in 0 .. 1 - 1 : InComment(StateAt, at + k)
      BY <1>7, <3>2
    <3> QED
      BY <1>1, <1>2, <2>2, <2>4, <3>1, <3>2, <3>3, InStepNext
  <2> QED
    BY <2>5, <2>6
<1>10. ASSUME at' = at, comments' = comments, lex_error_count' = lex_error_count,
              mode' = mode \/ mode' = "done" \/ (mode' = "rules" /\ Char(at) = End)
       PROVE  InStep'
  <2>1. InStep
    BY <1>4, <1>10
  <2>2. 0 \in Nat /\ at + 0 = at /\ ~ \E k \in 0 .. 0 - 1 : TRUE
    BY <1>1
  <2>3. Char(at) = End => ~ (at <= Len(text))
    BY <1>1, CharFacts
  <2>4. /\ mode' = "rules" /\ at' <= Len(text) => StateAt[at] = "code"
        /\ mode' = "comment" => StateAt[at] = "comment"
    BY <1>10, <2>1, <2>3 DEF InStep
  <2> QED
    BY <1>1, <1>2, <1>10, <2>1, <2>2, <2>4, InStepNext
<1>11. CASE CommentAtEnd
  BY <1>10, <1>11 DEF CommentAtEnd
<1>12. CASE ScanEnd
  BY <1>10, <1>12 DEF ScanEnd
<1>13. CASE UNCHANGED vars
  BY <1>10, <1>13 DEF vars
<1> QED
  BY <1>6, <1>8, <1>9, <1>11, <1>12, <1>13 DEF Next

\* What is passed over is what C calls a comment, for every text without the two
\* kinds of lines that CommentsAreThoseOfC names.
THEOREM CommentsInvariance == Spec => []CommentsAreThoseOfC
<1>1. CommentInv => CommentsAreThoseOfC
  BY DEF CommentInv, Clean, InStep, CommentsAreThoseOfC
<1> QED
  BY <1>1, TypeInvHolds, CommentInit, CommentStep, PTL DEF Spec
===============================================================================
