--------------------------- MODULE MCTaskLists ---------------------------
(* Lists of two slots, so that the third task needs a second list.         *)
EXTENDS TaskLists, TLC

(* kmalloc picks the addresses; any two free ones are alike.               *)
Symmetry == Permutations(Task \ {main}) \cup Permutations(List \ {first})
=============================================================================
