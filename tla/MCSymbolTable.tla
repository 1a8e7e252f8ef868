---------------------------- MODULE MCSymbolTable ----------------------------
(***************************************************************************)
(* A small instance of SymbolTable for TLC: two names that share one of    *)
(* two buckets, so that every chain of two symbols is walked.  Nothing     *)
(* tells the two names apart, so they may be swapped in every state.       *)
(***************************************************************************)
EXTENDS SymbolTable, TLC

MCHash == [n \in Name |-> 0]
MCSymmetry == Permutations(Name)
===============================================================================
