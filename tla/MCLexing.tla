------------------------------- MODULE MCLexing -------------------------------
(***************************************************************************)
(* Texts for model checking Lexing: every text of up to four characters,   *)
(* and longer ones over the characters of comments and strings.            *)
(***************************************************************************)
EXTENDS Lexing, SequencesExt

AnyChar == {"a", "0", "/", "*", "<", "=", Quote, Apostrophe, Backslash,
            "newline", "tab"}
MCTexts ==
    BoundedSeq(AnyChar, 4) \cup BoundedSeq({"/", "*", Quote, "newline"}, 6)
        \cup BoundedSeq({"/", Quote, Backslash, "*"}, 6)
        \cup BoundedSeq({"/", Quote, Backslash, Apostrophe}, 6)
===============================================================================
