------------------------------ MODULE MCFat32 ------------------------------
(* A small disk for TLC.  Other bytes make the links run in a circle and   *)
(* directories text.                                                       *)
EXTENDS Fat32, TLC

CONSTANT a

Strays == {[fat  |-> [c \in Cluster |-> IF c = MaxCluster THEN Root ELSE c + 1],
            data |-> [c \in Cluster |-> Fill(Text)]]}
=============================================================================
