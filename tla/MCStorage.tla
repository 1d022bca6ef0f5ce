----------------------------- MODULE MCStorage -----------------------------
(* Constants for TLC. *)
EXTENDS Storage

MCProtected == {"boot"}
MCWritten   == [l \in Lba |-> CHOOSE d \in Data : TRUE]
=============================================================================
