----------------------------- MODULE Allocator ------------------------------
(***************************************************************************)
(* What kmalloc and kfree promise: a block that is handed out overlaps no  *)
(* block some task still holds, and stays its holder's until given back.   *)
(***************************************************************************)
EXTENDS Naturals

CONSTANT Thread
VARIABLE held    \* the blocks each task holds: first address and size

Init == held = [t \in Thread |-> {}]

Disjoint(b, d) == b.addr + b.size <= d.addr \/ d.addr + d.size <= b.addr

(* Some task gets a block apart from all that are held. *)
Alloc(t) ==
  \E b \in held'[t] \ held[t] :
    /\ \A u \in Thread : \A d \in held[u] : Disjoint(b, d)
    /\ held' = [held EXCEPT ![t] = @ \cup {b}]

(* A task gives one of its blocks back. *)
Free(t) == \E b \in held[t] : held' = [held EXCEPT ![t] = @ \ {b}]

Next == \E t \in Thread : Alloc(t) \/ Free(t)

Spec == Init /\ [][Next]_held
=============================================================================
