------------------------------ MODULE KeyQueue ------------------------------
(***************************************************************************)
(* What the ring between the keyboard and the shell promises: a queue of   *)
(* at most Cap keys, in the order they were pressed.  A key pressed while  *)
(* it is full is dropped, which changes nothing.                           *)
(***************************************************************************)
EXTENDS Naturals, Sequences

CONSTANTS Key, Cap, NoKey

VARIABLES
  q,   \* the keys that wait
  c    \* the key the shell has in hand

Init == q = <<>> /\ c = NoKey

Put(k) == Len(q) < Cap /\ q' = Append(q, k) /\ UNCHANGED c

(* The shell reads the first key and removes it afterwards, and what it    *)
(* removes is still what it read.                                          *)
Peek == q # <<>> /\ c' = Head(q) /\ UNCHANGED q
Drop == q # <<>> /\ c = Head(q) /\ q' = Tail(q) /\ UNCHANGED c

Next == (\E k \in Key : Put(k)) \/ Peek \/ Drop

Spec == Init /\ [][Next]_<<q, c>>
=============================================================================
