------------------------------ MODULE MCInput ------------------------------
(* A ring of three places and a line of two characters for TLC.            *)
EXTENDS Input

=============================================================================
