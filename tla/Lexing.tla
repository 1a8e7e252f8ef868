-------------------------------- MODULE Lexing --------------------------------
(***************************************************************************)
(* The scanner of lexer.l on one text: which characters are a comment,     *)
(* which a token, and the position the error messages give.  A character   *)
(* is one of a few representatives: a letter, a digit, the characters of   *)
(* comments, strings, character constants and some operators, and one that *)
(* is in a token only within quotes.                                       *)
(***************************************************************************)
EXTENDS Integers, Sequences, FiniteSetsExt

CONSTANTS
    Texts       \* the texts: sequences of characters

Letter == {"a"}
Digit == {"0"}
Quote == "quote"
Apostrophe == "apostrophe"
Backslash == "backslash"
Character == Letter \cup Digit \cup
    {"/", "*", "<", "=", Quote, Apostrophe, Backslash, "space", "tab", "newline"}

InWord == Letter \cup Digit
InLine == Character \ {"newline"}

ASSUME TextsAssumption == Texts \subseteq Seq(Character)

\* The operators spelled with the characters above.
Operators ==
    {<<"/">>, <<"*">>, <<"<">>, <<"=">>, <<"/", "=">>, <<"*", "=">>,
     <<"<", "=">>, <<"<", "<">>, <<"=", "=">>, <<"<", "<", "=">>}

VARIABLES
    text,
    at,              \* the next character of it
    mode,            \* "rules", "comment" or "done"
    line_number,
    column,
    lex_error_count,
    comments         \* places of the characters passed over as comments

vars == <<text, at, mode, line_number, column, lex_error_count, comments>>

-------------------------------------------------------------------------------
\* What the rules match from place i.

End == "EOF"
Char(i) == IF i <= Len(text) THEN text[i] ELSE End
Run(i, S) ==
    CHOOSE n \in 0 .. Len(text) :
        Char(i + n) \notin S /\ \A k \in 0 .. n - 1 : Char(i + k) \in S

\* In a string or constant whose first character is at i, the one at j is
\* escaped: an odd number of backslashes stands before it.
Escaped(i, j) ==
    \E b \in i .. j - 1 :
        /\ \A k \in b .. j - 1 : Char(k) = Backslash
        /\ b = i \/ Char(b - 1) # Backslash
        /\ (j - b) % 2 = 1

\* Mutant: nothing is escaped in a string.
ClosingQuotes_NoEscapes(q, i) ==
    {j \in i .. Len(text) :
        /\ Char(j) = q
        /\ \A k \in i .. j - 1 : Char(k) \notin {"newline", q}}

\* The place of the quote q that ends it, if one does.
ClosingQuotes(q, i) ==
    {j \in i .. Len(text) :
        /\ Char(j) = q /\ ~Escaped(i, j)
        /\ \A k \in i .. j - 1 : /\ Char(k) # "newline"
                                 /\ Char(k) = q => Escaped(i, k)}

Spelled(i, op) == \A k \in DOMAIN op : Char(i + k - 1) = op[k]

\* The lengths that each rule can match, in the order of the rules.
\* "//".*$ needs the end of the line.
Length(n, matches) == IF matches THEN {n} ELSE {}
Rules == <<"comment", "line_comment", "word", "number", "character", "string",
           "operator", "blank", "newline", "other">>
Matches(rule, i) ==
    CASE rule = "comment" -> Length(2, Spelled(i, <<"/", "*">>))
      [] rule = "line_comment" ->
            LET n == Run(i, InLine)
            IN  Length(n, Spelled(i, <<"/", "/">>) /\ Char(i + n) = "newline")
      [] rule = "word" -> Length(Run(i, InWord), Char(i) \in Letter)
      [] rule = "number" -> Length(Run(i, Digit), Char(i) \in Digit)
      [] rule = "character" ->
            {j - i + 1 : j \in {e \in ClosingQuotes(Apostrophe, i + 1) :
                                   Char(i) = Apostrophe /\ e # i + 1}}
      [] rule = "string" ->
            {j - i + 1 : j \in {e \in ClosingQuotes(Quote, i + 1) : Char(i) = Quote}}
      [] rule = "operator" -> {Len(op) : op \in {o \in Operators : Spelled(i, o)}}
      [] rule = "blank" -> Length(1, Char(i) \in {"space", "tab"})
      [] rule = "newline" -> Length(1, Char(i) = "newline")
      [] rule = "other" -> Length(1, Char(i) \notin {"newline", End})

\* flex takes the longest match, and of equal ones that of the first rule.
Longest(i) == Max(UNION {Matches(Rules[r], i) : r \in DOMAIN Rules})
IsFirst(r, n, i) ==
    n \in Matches(Rules[r], i) /\ \A q \in 1 .. r - 1 : n \notin Matches(Rules[q], i)

-------------------------------------------------------------------------------
\* Positions.

\* Mutant: a tab is a column like another.
count_chars_NoTabs(col, n) == col + n

\* The column after the n characters that were matched.
count_chars(col, n) ==
    LET c[k \in 0 .. n] ==
            IF k = 0 THEN col
            ELSE IF Char(at + k - 1) = "tab" THEN c[k - 1] + (8 - (c[k - 1] % 8))
            ELSE c[k - 1] + 1
    IN  c[n]
Counted(n) == column' = count_chars(column, n)

Passed(n) == at' = at + n
PassedAsComment(n) == Passed(n) /\ comments' = comments \cup (at .. at + n - 1)

-------------------------------------------------------------------------------
\* The actions of the rules, with the length of the match.

Token(rule, n) ==
    /\ rule \in {"word", "number", "character", "string", "operator", "blank"}
    /\ Passed(n)
    /\ Counted(n)
    /\ UNCHANGED <<text, mode, line_number, lex_error_count, comments>>

Newline(rule, n) ==
    /\ rule = "newline"
    /\ Passed(n)
    /\ line_number' = line_number + 1
    /\ column' = 0
    /\ UNCHANGED <<text, mode, lex_error_count, comments>>

UnexpectedCharacter(rule, n) ==
    /\ rule = "other"
    /\ Passed(n)
    /\ lex_error_count' = lex_error_count + 1
    /\ Counted(n)
    /\ UNCHANGED <<text, mode, line_number, comments>>

\* Nothing is counted: the newline that follows is not part of the match.
LineComment(rule, n) ==
    /\ rule = "line_comment"
    /\ PassedAsComment(n)
    /\ UNCHANGED <<text, mode, line_number, column, lex_error_count>>

\* The two characters that open a comment are not counted either.
CommentBegin(rule, n) ==
    /\ rule = "comment"
    /\ PassedAsComment(n)
    /\ mode' = "comment"
    /\ UNCHANGED <<text, line_number, column, lex_error_count>>

\* One turn of yylex.
Scan ==
    /\ mode = "rules"
    /\ Char(at) # End
    /\ \E n \in {Longest(at)} : \E r \in DOMAIN Rules :
          /\ IsFirst(r, n, at)
          /\ \/ Token(Rules[r], n)
             \/ Newline(Rules[r], n)
             \/ UnexpectedCharacter(Rules[r], n)
             \/ LineComment(Rules[r], n)
             \/ CommentBegin(Rules[r], n)

\* Mutants: the newlines of a comment are not counted; the star is put back
\* with the character after it.
CommentChar_NoLines ==
    /\ mode = "comment"
    /\ Char(at) \notin {"*", End}
    /\ PassedAsComment(1)
    /\ column' = column + 1
    /\ UNCHANGED <<text, mode, line_number, lex_error_count>>
CommentStar_PutBack ==
    /\ mode = "comment"
    /\ Char(at) = "*"
    /\ IF Char(at + 1) = "/"
       THEN PassedAsComment(2) /\ column' = column + 2 /\ mode' = "rules"
       ELSE UNCHANGED <<at, comments, column, mode>>
    /\ UNCHANGED <<text, line_number, lex_error_count>>

CommentChar ==
    /\ mode = "comment"
    /\ Char(at) \notin {"*", End}
    /\ PassedAsComment(1)
    /\ IF Char(at) = "newline"
       THEN line_number' = line_number + 1 /\ column' = 0
       ELSE column' = column + 1 /\ UNCHANGED line_number
    /\ UNCHANGED <<text, mode, lex_error_count>>

\* The character after a star is read, and put back unless it ends the comment.
CommentStar ==
    /\ mode = "comment"
    /\ Char(at) = "*"
    /\ IF Char(at + 1) = "/"
       THEN PassedAsComment(2) /\ column' = column + 2 /\ mode' = "rules"
       ELSE PassedAsComment(1) /\ column' = column + 1 /\ UNCHANGED mode
    /\ UNCHANGED <<text, line_number, lex_error_count>>

\* Mutant: the end of the text is taken for a character, as it would be with an
\* input() that returns EOF.
CommentAtEnd_GoesOn ==
    /\ mode = "comment"
    /\ Char(at) = End
    /\ PassedAsComment(1)
    /\ UNCHANGED <<text, mode, line_number, column, lex_error_count>>

\* input() is 0 at the end of the text; an open comment ends there in silence.
CommentAtEnd ==
    /\ mode = "comment"
    /\ Char(at) = End
    /\ mode' = "rules"
    /\ UNCHANGED <<text, at, line_number, column, lex_error_count, comments>>

ScanEnd ==
    /\ mode = "rules"
    /\ Char(at) = End
    /\ mode' = "done"
    /\ UNCHANGED <<text, at, line_number, column, lex_error_count, comments>>

Init ==
    /\ text \in Texts
    /\ at = 1
    /\ mode = "rules"
    /\ line_number = 1
    /\ column = 0
    /\ lex_error_count = 0
    /\ comments = {}

Next ==
    \/ Scan
    \/ CommentChar \/ CommentStar \/ CommentAtEnd
    \/ ScanEnd

\* The scanner waits for nobody: as long as it can take a step it takes one.
Spec == Init /\ [][Next]_vars /\ WF_vars(Next)

-------------------------------------------------------------------------------
\* C: every character is code, or of a string, a character constant or a comment,
\* by what precedes it.  C joins a line that ends in a backslash to the next one
\* before all this; here it does not, and a text with such a line is one with
\* LinesContinue.

After(state, c, next) ==
    CASE state = "code" ->
            IF c = Quote THEN "string"
            ELSE IF c = Apostrophe THEN "character"
            ELSE IF c = "/" /\ next = "*" THEN "comment_opens"
            ELSE IF c = "/" /\ next = "/" THEN "line_comment"
            ELSE "code"
      [] state = "string" ->
            IF c = Quote THEN "code"
            ELSE IF c = Backslash THEN "escape" ELSE "string"
      [] state = "escape" -> "string"
      [] state = "character" ->
            IF c = Apostrophe THEN "code"
            ELSE IF c = Backslash THEN "character_escape" ELSE "character"
      [] state = "character_escape" -> "character"
      [] state = "comment_opens" -> "comment"
      [] state = "comment" ->
            IF c = "*" /\ next = "/" THEN "comment_closes" ELSE "comment"
      [] state = "comment_closes" -> "code"
      [] state = "line_comment" ->
            IF next = "newline" THEN "code" ELSE "line_comment"
StateAt ==
    LET state[i \in 1 .. Len(text) + 1] ==
            IF i = 1 THEN "code"
            ELSE After(state[i - 1], Char(i - 1), Char(i))
    IN  state

LinesContinue == \E i \in 1 .. Len(text) : Char(i) = Backslash /\ Char(i + 1) = "newline"

\* The places before n that are in comments.
InComment(state, i) ==
    \/ state[i] \in {"comment_opens", "comment", "comment_closes", "line_comment"}
    \/ After(state[i], Char(i), Char(i + 1)) \in {"comment_opens", "line_comment"}
CommentsBefore(state, n) == {i \in 1 .. n - 1 : InComment(state, i)}

\* The line that place i is on, and the column a terminal shows it in.
LinesBefore(i) == {k \in 1 .. i - 1 : text[k] = "newline"}
LineStart(i) == Max(LinesBefore(i) \cup {0}) + 1
NextTabStop(c) == 8 * ((c \div 8) + 1)
ColumnAt ==
    LET shown[i \in 1 .. Len(text) + 1] ==
            IF i = 1 \/ Char(i - 1) = "newline" THEN 0
            ELSE IF Char(i - 1) = "tab" THEN NextTabStop(shown[i - 1])
            ELSE shown[i - 1] + 1
    IN  shown

-------------------------------------------------------------------------------
\* Properties.

\* Type invariant.
TypeOK ==
    /\ at \in 1 .. Len(text) + 1
    /\ mode \in {"rules", "comment", "done"}
    /\ line_number \in Nat \ {0}
    /\ column \in Nat
    /\ lex_error_count \in Nat
    /\ comments \subseteq 1 .. at - 1

\* The line in an error message is the one the scanner is on, with newlines met
\* by the rules and by the loop of a comment.
LinesAreCounted == line_number = Cardinality(LinesBefore(at)) + 1

\* So is the column, on a line on which no comment began or ended before.  (The
\* column that the loop of a comment counts is not covered.)
ColumnsAreCounted ==
    (comments \cap LineStart(at) .. at - 1 = {}) => column = ColumnAt[at]

\* What is passed over is what C calls a comment, and nothing else: no comment
\* begins in a string or a character constant and none of these in a comment, and
\* stars and slashes close one where they should.  Two kinds of text are left out,
\* which the rules of lexer.l read otherwise than C: one with a // on a last line
\* without a newline, and one with a backslash before a newline, which continues
\* a // comment in C and not here.
CommentsAreThoseOfC ==
    LET state == StateAt
    IN  /\ lex_error_count = 0
        /\ state[Len(text) + 1] # "line_comment"
        /\ ~LinesContinue
        => comments = CommentsBefore(state, at)

\* Every text is scanned to its end, an open comment or string at its end too.
ScanningEnds == <>(mode = "done")
===============================================================================
