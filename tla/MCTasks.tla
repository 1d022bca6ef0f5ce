------------------------------ MODULE MCTasks ------------------------------
(* Four structs: a ring of three children, or children at two levels.      *)
EXTENDS Tasks, TLC

(* kmalloc picks the address; any two free ones are alike. *)
Symmetry == Permutations(Task \ {main})
=============================================================================
