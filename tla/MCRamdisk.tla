------------------------------ MODULE MCRamdisk ------------------------------
(* Two names in one list, a third in another, and a directory with a slash. *)
EXTENDS Ramdisk, TLC

CONSTANTS e1, e2, e3

MCHash   == [n \in Name |-> IF n = "c" THEN 2 ELSE 1]
MCTexts  == {<<"x">>, <<"y", "y">>}
MCTrap   == [p \in Path |-> {"c"}]
Symmetry == Permutations(Node)
=============================================================================
