-------------------------------- MODULE Heap --------------------------------
(***************************************************************************)
(* The kernel heap, kernel/memory/heap.c: a doubly linked list of segments *)
(* whose headers lie in the heap itself, first fit, merged when freed.     *)
(* Addresses are offsets from heap_start, in bytes.                        *)
(*                                                                         *)
(* A critical section of heap_lock is one step.  What kheap_expand does    *)
(* outside the lock -- mapping pages behind heap_end, and the second       *)
(* locking inside kfree -- are steps of their own, so other tasks get in   *)
(* between.                                                                *)
(***************************************************************************)
EXTENDS Integers, FiniteSets

CONSTANTS
  Thread,     \* tasks that use the heap
  Sizes,      \* sizes they ask for
  InitPages,  \* HEAP_INIT_SIZE_KB in pages
  MaxPages,   \* bound: the heap is not expanded beyond this
  MaxHeld     \* bound: blocks a task holds at a time

ASSUME HeapAssumption == /\ Sizes \subseteq Nat \ {0}
                         /\ InitPages \in Nat \ {0}
                         /\ MaxPages \in Nat
                         /\ MaxHeld \in Nat

VARIABLES
  hdr,      \* headers of the segments met from first_segment along next
  wiped,    \* absorbed headers still referred to, their magic cleared
  heapEnd,  \* heap_end
  mapped,   \* pages that have a frame
  held,     \* blocks each task got: address of the header, size asked for
  pc, req, done, fresh,  \* where each task is in kmalloc, and its locals
  raced,    \* history: the heap was used amid a kheap_expand, see below
  fault     \* "none", or how the heap was lost

vars == <<hdr, wiped, heapEnd, mapped, held, pc, req, done, fresh, raced, fault>>

PageSize == 4096
Hdr      == 40   \* sizeof(HeapSegment)
NoSeg    == -1   \* NULL

RoundUp(n)  == ((n + 15) \div 16) * 16
PagesFor(n) == (n + Hdr + PageSize - 1) \div PageSize
PageOf(a)   == a \div PageSize

Header(s, nx, pv) == [size |-> s, next |-> nx, prev |-> pv, free |-> TRUE]

Init ==
  /\ heapEnd = InitPages * PageSize
  /\ hdr = [s \in {0} |-> Header(InitPages * PageSize - Hdr, NoSeg, NoSeg)]
  /\ wiped = {}
  /\ mapped = 0 .. InitPages - 1
  /\ held = [t \in Thread |-> {}]
  /\ pc = [t \in Thread |-> "idle"]
  /\ req = [t \in Thread |-> 0]
  /\ done = [t \in Thread |-> 0]
  /\ fresh = [t \in Thread |-> NoSeg]
  /\ raced = FALSE
  /\ fault = "none"

At(t, place) == fault = "none" /\ pc[t] = place

(* Tasks inside kheap_expand, and those of them between its two lockings. *)
Expanding  == {t \in Thread : pc[t] \in {"map", "append", "merge"}}
Merging    == {t \in Thread : pc[t] = "merge"}

-----------------------------------------------------------------------------
(* kmalloc(n), up to the lock; the size is rounded up. *)
Malloc(t, n) ==
  /\ At(t, "idle")
  /\ Cardinality(held[t]) < MaxHeld
  /\ pc' = [pc EXCEPT ![t] = "search"]
  /\ req' = [req EXCEPT ![t] = RoundUp(n)]
  /\ UNCHANGED <<hdr, wiped, heapEnd, mapped, held, done, fresh, raced, fault>>

FitsAny(s, n) == hdr[s].free   \* mutation of Fits: the size is not tested
Fits(s, n)  == hdr[s].free /\ hdr[s].size >= n
FirstFit(n) == {s \in DOMAIN hdr :
                  Fits(s, n) /\ \A r \in DOMAIN hdr : Fits(r, n) => s <= r}

(* A block is cut where the payload, rounded up, ends. *)
Cut(s, n)    == s + RoundUp(Hdr + n)
Splits(s, n) == hdr[s].size > n + Hdr + 16

(* Segment s is cut at r; the part behind gets a header of its own. *)
Split(m, s, r) ==
  [x \in DOMAIN m \cup {r} |->
     CASE x = s         -> [m[s] EXCEPT !.size = r - s - Hdr, !.next = r]
       [] x = r         -> Header(m[s].size - (r - s), m[s].next, s)
       [] x = m[s].next -> [m[x] EXCEPT !.prev = r]
       [] OTHER         -> m[x]]

UseNot(m, s) == m   \* mutation of Use: the segment stays free
Use(m, s) == [m EXCEPT ![s].free = FALSE]

Give(t, s) == /\ held' = [held EXCEPT ![t] = @ \cup {[seg |-> s, size |-> req[t]]}]
              /\ pc' = [pc EXCEPT ![t] = "idle"]

(* The first segment that fits is split if the rest is worth it, and taken. *)
Take(t) ==
  /\ At(t, "search")
  /\ \E s \in FirstFit(req[t]) :
       \/ /\ ~Splits(s, req[t])
          /\ hdr' = Use(hdr, s)
          /\ Give(t, s)
          /\ UNCHANGED <<wiped, fault>>
       \/ /\ Splits(s, req[t])
          /\ PageOf(Cut(s, req[t])) \in mapped
          /\ hdr' = Use(Split(hdr, s, Cut(s, req[t])), s)
          /\ wiped' = wiped \ {Cut(s, req[t])}
          /\ Give(t, s)
          /\ UNCHANGED fault
       \/ /\ Splits(s, req[t])
          /\ PageOf(Cut(s, req[t])) \notin mapped
          /\ fault' = "unmapped"
          /\ UNCHANGED <<hdr, wiped, held, pc>>
  /\ raced' = (raced \/ Merging # {})
  /\ UNCHANGED <<heapEnd, mapped, req, done, fresh>>

(* Nothing fits: the lock is released and kheap_expand called. *)
Exhausted(t) ==
  /\ At(t, "search")
  /\ FirstFit(req[t]) = {}
  /\ PageOf(heapEnd) + PagesFor(req[t]) <= MaxPages
  /\ pc' = [pc EXCEPT ![t] = "map"]
  /\ done' = [done EXCEPT ![t] = 0]
  /\ raced' = (raced \/ Expanding # {})
  /\ UNCHANGED <<hdr, wiped, heapEnd, mapped, held, req, fresh, fault>>

(* The page i pages behind heap_end. *)
Behind(i) == PageOf(heapEnd) + i

(* A page is mapped behind heap_end, which is read anew for each, unlocked. *)
MapPage(t) ==
  /\ At(t, "map")
  /\ mapped' = mapped \cup {Behind(done[t])}
  /\ done' = [done EXCEPT ![t] = @ + 1]
  /\ pc' = [pc EXCEPT ![t] = IF done[t] + 1 < PagesFor(req[t]) THEN "map" ELSE "append"]
  /\ UNCHANGED <<hdr, wiped, heapEnd, held, req, fresh, raced, fault>>

(* The chain m gets a segment of n bytes at address e, behind its last. *)
Chain(m, e, n) ==
  [x \in DOMAIN m \cup {e} |->
     IF x = e THEN Header(n - Hdr, NoSeg, CHOOSE l \in DOMAIN m : m[l].next = NoSeg)
     ELSE IF m[x].next = NoSeg THEN [m[x] EXCEPT !.next = e]
     ELSE m[x]]

(* Locked again: the new pages become a free segment at heap_end. *)
Append(t) ==
  /\ At(t, "append")
  /\ LET n == PagesFor(req[t]) * PageSize
     IN  \/ /\ PageOf(heapEnd) \in mapped
            /\ hdr' = Chain(hdr, heapEnd, n)
            /\ wiped' = wiped \ {heapEnd}
            /\ heapEnd' = heapEnd + n
            /\ fresh' = [fresh EXCEPT ![t] = heapEnd]
            /\ pc' = [pc EXCEPT ![t] = "merge"]
            /\ UNCHANGED fault
         \/ /\ PageOf(heapEnd) \notin mapped
            /\ fault' = "unmapped"
            /\ UNCHANGED <<hdr, wiped, heapEnd, fresh, pc>>
  /\ UNCHANGED <<mapped, held, req, done, raced>>

-----------------------------------------------------------------------------
(* Mutation of Absorb: the backward pointer of what follows is not mended. *)
AbsorbOneWay(m, s) ==
  LET r == m[s].next
  IN  [x \in DOMAIN m \ {r} |->
         IF x = s THEN [m[s] EXCEPT !.size = @ + m[r].size + Hdr, !.next = m[r].next]
         ELSE m[x]]

(* Segment s absorbs the one behind it. *)
Absorb(m, s) ==
  LET r == m[s].next
  IN  [x \in DOMAIN m \ {r} |->
         CASE x = s         -> [m[s] EXCEPT !.size = @ + m[r].size + Hdr, !.next = m[r].next]
           [] x = m[r].next -> [m[x] EXCEPT !.prev = s]
           [] OTHER         -> m[x]]

IsFree(m, s)     == s # NoSeg /\ m[s].free
Freed(s)         == [hdr EXCEPT ![s].free = TRUE]
MergeNot(m, s)   == m   \* mutation of MergeRight and MergeLeft
MergeRight(m, s) == IF IsFree(m, m[s].next) THEN Absorb(m, s) ELSE m
MergeLeft(m, s)  == IF IsFree(m, m[s].prev) THEN Absorb(m, m[s].prev) ELSE m

(* Headers that a task will still pass to kfree. *)
Wanted(h, f) == {b.seg : b \in UNION {h[t] : t \in Thread}} \cup {f[t] : t \in Thread}

(* kfree of the block whose header is at s; h and f are the blocks held and *)
(* the fresh segments afterwards.  An absorbed header whose magic was       *)
(* cleared is refused.  One that a segment to its left swallowed keeps its  *)
(* magic, and kfree would merge it a second time: the heap is lost.         *)
Kfree(s, h, f) ==
  \/ /\ s \in DOMAIN hdr
     /\ hdr' = MergeLeft(MergeRight(Freed(s), s), s)
     /\ wiped' = (wiped \cup ({s} \ DOMAIN hdr')) \cap Wanted(h, f)
     /\ UNCHANGED fault
  \/ /\ s \in wiped
     /\ wiped' = wiped \cap Wanted(h, f)
     /\ UNCHANGED <<hdr, fault>>
  \/ /\ s \notin DOMAIN hdr \cup wiped
     /\ fault' = "stale"
     /\ UNCHANGED <<hdr, wiped>>

(* A task gives a block back. *)
Free(t) ==
  /\ At(t, "idle")
  /\ \E b \in held[t] : /\ held' = [held EXCEPT ![t] = @ \ {b}]
                        /\ Kfree(b.seg, held', fresh)
  /\ raced' = (raced \/ Merging # {})
  /\ UNCHANGED <<heapEnd, mapped, pc, req, done, fresh>>

(* kheap_expand frees the new segment, so that it merges; kmalloc retries. *)
Merge(t) ==
  /\ At(t, "merge")
  /\ fresh' = [fresh EXCEPT ![t] = NoSeg]
  /\ Kfree(fresh[t], held, fresh')
  /\ pc' = [pc EXCEPT ![t] = "search"]
  /\ UNCHANGED <<heapEnd, mapped, held, req, done, raced>>

Next == \E t \in Thread :
          \/ \E n \in Sizes : Malloc(t, n)
          \/ Take(t) \/ Exhausted(t) \/ MapPage(t) \/ Append(t) \/ Merge(t)
          \/ Free(t)

Spec == Init /\ [][Next]_vars

-----------------------------------------------------------------------------
Segment == [size : Nat, next : Nat \cup {NoSeg}, prev : Nat \cup {NoSeg}, free : BOOLEAN]
Block   == [seg : Nat, size : Nat]
End(m, s) == s + Hdr + m[s].size

(* Every variable holds a value of its type. *)
TypeOK ==
  /\ DOMAIN hdr \subseteq Nat
  /\ hdr \in [DOMAIN hdr -> Segment]
  /\ heapEnd \in Nat
  /\ mapped \subseteq Nat
  /\ wiped \subseteq Nat
  /\ held \in [Thread -> SUBSET Block]
  /\ pc \in [Thread -> {"idle", "search", "map", "append", "merge"}]
  /\ req \in [Thread -> Nat]
  /\ done \in [Thread -> Nat]
  /\ fresh \in [Thread -> Nat \cup {NoSeg}]
  /\ raced \in BOOLEAN
  /\ fault \in {"none", "unmapped", "stale"}

(* The headers of m tile the addresses from 0 to e, in the order of next,  *)
(* and prev undoes next.                                                   *)
Tiled(m, e) ==
  /\ 0 \in DOMAIN m
  /\ \A s \in DOMAIN m :
       /\ m[s].next = IF End(m, s) = e THEN NoSeg ELSE End(m, s)
       /\ m[s].next # NoSeg => m[s].next \in DOMAIN m /\ m[m[s].next].prev = s
       /\ m[s].prev = NoSeg <=> s = 0
       /\ m[s].prev # NoSeg => m[s].prev \in DOMAIN m /\ m[m[s].prev].next = s
       /\ End(m, s) <= e
  /\ \A r, s \in DOMAIN m : r < s => End(m, r) <= s

(* What SYS_HEAP_AUDIT (arch/x86_64/core/syscalls.c 155-196) looks for and *)
(* get_heap_total relies on: no byte of the heap is lost or in two         *)
(* segments, and the list can be walked both ways, after every kmalloc,    *)
(* kfree and expansion, until the heap is lost; and every variable has its *)
(* type.                                                                   *)
Tiling == TypeOK /\ Tiled(hdr, heapEnd)

(* kernel/memory/README.md "immediate coalescing": two free segments are   *)
(* neighbours only while kheap_expand has yet to free the new one.         *)
Coalesced ==
  \A s \in DOMAIN hdr :
    IsFree(hdr, s) /\ IsFree(hdr, hdr[s].next)
      => \E t \in Merging : fresh[t] \in {s, hdr[s].next}

(* The heap only spans pages that are mapped, so no header or block is     *)
(* written to a page that is not (kheap_expand 160-170); and no header that *)
(* was absorbed was passed to kfree (kfree 134-149).                       *)
Backed == fault = "none" /\ \A p \in 0 .. PageOf(heapEnd) - 1 : p \in mapped

(* A segment in use belongs to one block some task holds, and a block held *)
(* is a segment in use, large enough and on mapped pages: nothing is       *)
(* handed out twice or leaks (kmalloc 98-103, kfree 130-149), provided no  *)
(* other task used the heap amid a kheap_expand.                           *)
OneOwner ==
  ~raced =>
    /\ Backed
    /\ \A t \in Thread : \A b \in held[t] :
         /\ b.seg \in DOMAIN hdr
         /\ ~hdr[b.seg].free
         /\ hdr[b.seg].size >= b.size
         /\ \A u \in Thread : \A d \in held[u] : d.seg = b.seg => u = t /\ d = b
    /\ \A s \in DOMAIN hdr :
         ~hdr[s].free => \E t \in Thread : \E b \in held[t] : b.seg = s

(* The heap implements an allocator that hands out ranges of bytes and     *)
(* knows neither headers nor lists; same proviso.                          *)
Abs == INSTANCE Allocator
  WITH held <- [t \in Thread |-> {[addr |-> b.seg + Hdr, size |-> b.size] : b \in held[t]}]

ImplementsAllocator == Abs!Init /\ [][~raced' => Abs!Next]_held
=============================================================================
