------------------------------ MODULE MCPaging ------------------------------
(* Two programs, a heap of three pages, too few frames for everything.     *)
(* As on the machine, the heap begins inside the direct map, whose end the *)
(* frames go beyond.                                                       *)
EXTENDS Paging, TLC

Symmetry == Permutations(Prog)
=============================================================================
