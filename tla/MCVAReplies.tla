---------------------------- MODULE MCVAReplies ----------------------------
(* VAReplies for TLC: a small instance is symmetric in tasks and agents.   *)
EXTENDS VAReplies, TLC

Symmetry == Permutations(Task) \union Permutations(VA)
=============================================================================
