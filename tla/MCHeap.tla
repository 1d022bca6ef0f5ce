------------------------------- MODULE MCHeap -------------------------------
(* Two tasks, a heap of one page that grows to five.  Four blocks of 1000  *)
(* nearly fill a page, so rests are split and merged; one of 5000 needs    *)
(* two pages, so the heap has to grow for it.                              *)
EXTENDS Heap, TLC

MCSizes  == {1000, 5000}
Symmetry == Permutations(Thread)
=============================================================================
