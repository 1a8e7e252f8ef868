------------------------------- MODULE MCDriver -------------------------------
(***************************************************************************)
(* Constants for model checking Driver: two input files, one of which may  *)
(* be missing, and the temporary file of each.                             *)
(***************************************************************************)
EXTENDS Driver

MCTempOf ==
    [s \in Source |-> CASE s = "one.c" -> "one.c.ll" [] s = "two.c" -> "two.c.ll"]
===============================================================================
