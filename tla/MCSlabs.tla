------------------------------- MODULE MCSlabs ------------------------------
(* Three threads, four frames and slabs of two slots: two threads can find *)
(* the list full at once, and a slab can become empty behind another one.  *)
EXTENDS Slabs, TLC

Symmetry == Permutations(Thread)
=============================================================================
