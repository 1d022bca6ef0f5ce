------------------------------- MODULE Slabs --------------------------------
(***************************************************************************)
(* One slab cache: kernel/memory/slab{8,16,32,64}.c are the same code with *)
(* another number of slots.  A slab is a page that starts with a mask of   *)
(* used slots, a count of free ones and list pointers; the head is never   *)
(* freed.  Frames come from arch/x86_64/memory/pmm.c, lowest first.        *)
(*                                                                         *)
(* A critical section of slab_lock is one step.  slab_alloc drops the lock *)
(* to get a page, and slab_free drops it before it gives the page back.    *)
(*                                                                         *)
(* An allocation that waits for a page keeps a pointer to the last slab.   *)
(* If slab_free took that slab away meanwhile, the pointer would dangle.   *)
(* The history variable pulled records it, and the behaviour is not        *)
(* followed any further.                                                   *)
(*                                                                         *)
(* The four caches of the kernel (acpi_osl.c) hold one object less in a    *)
(* page than the mask has bits, and for them slab_free never takes a slab  *)
(* away, since it compares the count with the number of bits; caches whose *)
(* pages are full to the last bit are in the model besides.  delete_slab   *)
(* has no caller.                                                          *)
(***************************************************************************)
EXTENDS Integers, FiniteSets

CONSTANTS
  Thread,
  Frames,   \* frames the cache can get; the head has frame 0
  Slots,    \* 8, 16, 32 or 64 in the four files
  Caps,     \* objects that may fit behind the header, Slots at most
  MaxHeld   \* bound: objects a thread holds at a time

ASSUME SlabAssumption == /\ Frames \in Nat \ {0}
                         /\ Slots \in Nat
                         /\ Caps \subseteq 1 .. Slots
                         /\ MaxHeld \in Nat

VARIABLES
  cap,     \* objects a page of this cache holds, from the size of one
  slab,    \* what lies at the start of each page, a freed one too
  live,    \* frames in use: mapped pages
  held,    \* objects each thread holds
  pc, curr, new,   \* where each thread is, and its locals
  pulled   \* history: a slab was freed while an allocation waited on it

vars == <<cap, slab, live, held, pc, curr, new, pulled>>

Page     == 0 .. Frames - 1
NoPage   == -1
Head     == 0
Unusable == cap + 1 .. Slots   \* bits create_slab sets beforehand

Created == [mask |-> Unusable, free |-> cap, next |-> NoPage, prev |-> NoPage]

Init ==
  /\ cap \in Caps
  /\ slab = [p \in Page |-> Created]
  /\ live = {Head}
  /\ held = [t \in Thread |-> {}]
  /\ pc = [t \in Thread |-> "idle"]
  /\ curr = [t \in Thread |-> NoPage]
  /\ new = [t \in Thread |-> NoPage]
  /\ pulled = FALSE

At(t, place) == ~pulled /\ pc[t] = place

(* The slabs met from c along next. *)
Chain(c) ==
  {p \in Page : \A S \in SUBSET Page :
      (c \in S /\ \A q \in S : slab[q].next \in S \cup {NoPage}) => p \in S}

(* The first with a free slot. *)
Roomy(c) == {p \in Chain(c) : slab[p].free > 0}
First(c) == {p \in Roomy(c) : \A q \in Roomy(c) : q \in Chain(p)}
Last(c)  == {p \in Chain(c) : slab[p].next = NoPage}

Lowest(S) == {s \in S : \A r \in S : s <= r}

(* Mutation of Taken: the mask is not updated. *)
TakenUnmarked(x, s) == [x EXCEPT !.free = @ - 1]

Taken(x, s) == [x EXCEPT !.mask = @ \cup {s}, !.free = @ - 1]

(* The lowest clear bit of slab p becomes the thread's object; slabs are as *)
(* m says.                                                                  *)
Place(t, m, p) ==
  \E s \in Lowest((1 .. Slots) \ m[p].mask) :
    /\ slab' = [m EXCEPT ![p] = Taken(@, s)]
    /\ held' = [held EXCEPT ![t] = @ \cup {[page |-> p, slot |-> s]}]
    /\ pc' = [pc EXCEPT ![t] = "idle"]
    /\ curr' = [curr EXCEPT ![t] = NoPage]
    /\ new' = [new EXCEPT ![t] = NoPage]
    /\ UNCHANGED <<cap, live, pulled>>

(* slab_alloc under the lock, walking from slab c: it takes the first slot *)
(* it finds, or unlocks at the last slab.                                  *)
Walk(t, c) ==
  \/ \E p \in First(c) : Place(t, slab, p)
  \/ /\ Roomy(c) = {}
     /\ \E p \in Last(c) : curr' = [curr EXCEPT ![t] = p]
     /\ pc' = [pc EXCEPT ![t] = "create"]
     /\ UNCHANGED <<cap, slab, live, held, new, pulled>>

SlabAlloc(t) == /\ At(t, "idle")
                /\ Cardinality(held[t]) < MaxHeld
                /\ Walk(t, Head)

Retry(t) == At(t, "retry") /\ Walk(t, curr[t])

(* create_slab, unlocked: first the object size is read from the slab, then *)
(* a frame is taken, mapped and filled in.                                  *)
CreateSlab(t) ==
  /\ At(t, "create")
  /\ \/ /\ \E p \in Lowest(Page \ live) :
             /\ live' = live \cup {p}
             /\ slab' = [slab EXCEPT ![p] = Created]
             /\ new' = [new EXCEPT ![t] = p]
        /\ pc' = [pc EXCEPT ![t] = "link"]
        /\ UNCHANGED <<cap, held, curr, pulled>>
     \/ /\ live = Page
        /\ pc' = [pc EXCEPT ![t] = "idle"]
        /\ curr' = [curr EXCEPT ![t] = NoPage]
        /\ UNCHANGED <<cap, slab, live, held, new, pulled>>

(* Mutation of Unclaimed: the second look at next is dropped. *)
UnclaimedAny(c) == TRUE

Unclaimed(c) == slab[c].next = NoPage

(* Mutation of Appended: the backward pointer is not set. *)
AppendedOneWay(m, c, n) == [m EXCEPT ![c].next = n]

Appended(m, c, n) == [m EXCEPT ![c].next = n, ![n].prev = c]

(* Locked again: the new slab is appended, or another thread was faster. *)
LinkSlab(t) ==
  /\ At(t, "link")
  /\ \/ /\ Unclaimed(curr[t])
        /\ Place(t, Appended(slab, curr[t], new[t]), new[t])
     \/ /\ ~Unclaimed(curr[t])
        /\ pc' = [pc EXCEPT ![t] = "drop"]
        /\ UNCHANGED <<cap, slab, live, held, curr, new, pulled>>

(* The surplus slab is unmapped and its frame freed; the walk goes on. *)
DropSlab(t) ==
  /\ At(t, "drop")
  /\ live' = live \ {new[t]}
  /\ new' = [new EXCEPT ![t] = NoPage]
  /\ pc' = [pc EXCEPT ![t] = "retry"]
  /\ UNCHANGED <<cap, slab, held, curr, pulled>>

-----------------------------------------------------------------------------
Cleared(x, s) == [x EXCEPT !.mask = @ \ {s}, !.free = @ + 1]

(* Mutation of ShouldFree: the count is compared with what fits in a page. *)
ShouldFreeEmpty(x) == x.free = cap /\ x.prev # NoPage

ShouldFree(x) == x.free = Slots /\ x.prev # NoPage

Unlinked(m, p) ==
  [q \in Page |-> CASE q = m[p].prev -> [m[q] EXCEPT !.next = m[p].next]
                    [] q = m[p].next -> [m[q] EXCEPT !.prev = m[p].prev]
                    [] OTHER         -> m[q]]

(* slab_free: a slab other than the head whose count has come to the       *)
(* number of bits leaves the list.                                         *)
SlabFree(t) ==
  /\ At(t, "idle")
  /\ \E o \in held[t] :
       /\ held' = [held EXCEPT ![t] = @ \ {o}]
       /\ LET m == [slab EXCEPT ![o.page] = Cleared(@, o.slot)]
          IN  \/ /\ ~ShouldFree(m[o.page])
                 /\ slab' = m
                 /\ UNCHANGED <<pc, new, pulled>>
              \/ /\ ShouldFree(m[o.page])
                 /\ slab' = Unlinked(m, o.page)
                 /\ pc' = [pc EXCEPT ![t] = "unmap"]
                 /\ new' = [new EXCEPT ![t] = o.page]
                 /\ pulled' = (pulled \/ \E u \in Thread : curr[u] = o.page)
  /\ UNCHANGED <<cap, live, curr>>

(* Then, unlocked, it is unmapped and its frame freed. *)
UnmapSlab(t) ==
  /\ At(t, "unmap")
  /\ live' = live \ {new[t]}
  /\ new' = [new EXCEPT ![t] = NoPage]
  /\ pc' = [pc EXCEPT ![t] = "idle"]
  /\ UNCHANGED <<cap, slab, held, curr, pulled>>

Next == \E t \in Thread : \/ SlabAlloc(t) \/ Retry(t) \/ CreateSlab(t) \/ LinkSlab(t)
                          \/ DropSlab(t) \/ SlabFree(t) \/ UnmapSlab(t)

Spec == Init /\ [][Next]_vars

-----------------------------------------------------------------------------
Slab   == [mask : SUBSET (1 .. Slots), free : 0 .. Slots,
           next : Page \cup {NoPage}, prev : Page \cup {NoPage}]
Object == [page : Page, slot : 1 .. Slots]

(* Every variable holds a value of its type; the count never exceeds the   *)
(* number of slots.                                                        *)
TypeOK ==
  /\ cap \in Caps
  /\ slab \in [Page -> Slab]
  /\ live \subseteq Page
  /\ held \in [Thread -> SUBSET Object]
  /\ pc \in [Thread -> {"idle", "create", "link", "drop", "retry", "unmap"}]
  /\ curr \in [Thread -> Page \cup {NoPage}]
  /\ new \in [Thread -> Page \cup {NoPage}]
  /\ pulled \in BOOLEAN

(* free_slots counts the clear bits of mask, so that the bit search in     *)
(* slab_alloc finds one whenever the count is not zero (slab16.c 126-141,  *)
(* 163-167).                                                               *)
Counted == \A p \in Page : slab[p].free = Cardinality((1 .. Slots) \ slab[p].mask)

(* However the parts of allocations and frees interleave, every variable   *)
(* has its type, the list starts at the head and ends, prev undoes next,   *)
(* no slab on it is unmapped, and the counts the walk relies on are right  *)
(* (slab16.c 108-120 against 169-187).                                     *)
ListIntact ==
  /\ TypeOK
  /\ Counted
  /\ Chain(Head) \subseteq live
  /\ slab[Head].prev = NoPage
  /\ Last(Head) # {}
  /\ \A p \in Chain(Head) : slab[p].next # NoPage => slab[slab[p].next].prev = p

(* A frame in use is on the list or in the hands of a thread that links,   *)
(* drops or unmaps it: two threads that both found the list full lose no   *)
(* page (slab16.c 110-119).                                                *)
NoFrameLost == live = Chain(Head) \cup {new[t] : t \in {u \in Thread : new[u] # NoPage}}

(* In the kernel's caches no slab is taken away while an allocation, which *)
(* has dropped the lock to get a page, still points to it (slab16.c 102,   *)
(* 110 against 169-187).  It is the comparison with the number of bits     *)
(* (169) that keeps the allocation safe: the empty slabs it leaves on the  *)
(* list for ever are the price.                                            *)
WaitSafe == pulled => cap = Slots

(* The cache implements the allocator the heap implements, too: no object  *)
(* is handed out twice.                                                    *)
Abs == INSTANCE Allocator
  WITH held <- [t \in Thread |->
                  {[addr |-> o.page * Slots + o.slot, size |-> 1] : o \in held[t]}]

ImplementsAllocator == Abs!Spec
=============================================================================
