------------------------------- MODULE Paging -------------------------------
(***************************************************************************)
(* Who uses which frame, and what the kernel's addresses lead to: the      *)
(* frame allocator (arch/x86_64/memory/pmm.c), page tables (vmm.c) and     *)
(* their users -- the heap, slabs, the tables of the disk controller and   *)
(* programs being loaded (kernel/fs/types/elf.c).                          *)
(*                                                                         *)
(* The kernel reaches frame f at PHYSICAL_TO_VIRTUAL(f), number f in kmap, *)
(* which init_vmm sets up for the first Direct frames.  The heap lies in   *)
(* the same range, from HeapBase on: real values are 8192 and 4096.  The   *)
(* upper half of every directory points to the same tables, so there is    *)
(* one kmap; the lower half belongs to the program.  Of the four levels of *)
(* tables a program has its directory and one table per region here.       *)
(*                                                                         *)
(* The frame allocator does not know of the heap's window: a frame from    *)
(* there has the address of a page of the heap.  A slab on such a frame    *)
(* takes the heap's page over, and the heap, growing, takes a slab's page; *)
(* the history variable overgrown records the latter, after which the slab *)
(* is no longer the one at its address.                                    *)
(*                                                                         *)
(* Using the first frame because pmm_alloc_page returned NULL, and writing *)
(* to a frame through an address that does not lead to it, are faults; the *)
(* behaviour is not followed any further.  kill_task gives no directory,   *)
(* table or page of a program back, so there is no such step: the frames   *)
(* of a program that has ended stay its own.                               *)
(***************************************************************************)
EXTENDS Integers, Sequences

CONSTANTS
  Frames,    \* frames of the machine, numbered from 0
  Reserved,  \* the first ones: kernel, its tables, the bitmap
  Direct,    \* VMM_INIT_MAP_SIZE_MB in frames
  HeapBase,  \* heap_start as a kernel page
  HeapInit,  \* HEAP_INIT_SIZE_KB in pages
  MaxHeap,   \* bound: pages the heap has at most
  Prog       \* programs that may be loaded

ASSUME PagingAssumption == /\ Frames \in Nat /\ Reserved \in 1 .. Frames
                           /\ Direct \in Nat /\ HeapBase \in Nat
                           /\ HeapInit \in Nat /\ MaxHeap \in Nat

VARIABLES
  used,    \* frames whose bit is set in pmm_bitmap
  kmap,    \* the frame each kernel page leads to
  ktab,    \* the table of the kernel pages from Direct on
  heap,    \* the frames of the heap, in the order of its pages
  slabs,   \* frames that are slabs
  dma,     \* frames the disk controller's tables lie in
  dir, table, low,  \* each program's directory, tables, and its pages
  pc, got,          \* where each exec_elf is, and the frame it has in hand
  overgrown,  \* history: a page of the heap was mapped where a slab was
  fault    \* "none", "frame0" or "direct"

progs == <<dir, table, low, pc, got>>
vars  == <<used, kmap, ktab, heap, slabs, dma, progs, overgrown, fault>>

Frame   == 0 .. Frames - 1
NoFrame == -1
KPage   == 0 .. Frames + HeapBase + MaxHeap

(* A program's pages, in the order exec_elf maps them, and their regions: *)
(* segments lie low, the stack at the top of the lower half.              *)
UPage     == 1 .. 3
Region(v) == IF v = 3 THEN "top" ELSE "low"

Init ==
  /\ used = 0 .. Reserved - 1
  /\ kmap = [v \in KPage |-> IF v < Direct /\ v \in Frame THEN v ELSE NoFrame]
  /\ ktab = NoFrame
  /\ heap = <<>>
  /\ slabs = {}
  /\ dma = {}
  /\ dir = [g \in Prog |-> NoFrame]
  /\ table = [g \in Prog |-> [r \in {"low", "top"} |-> NoFrame]]
  /\ low = [g \in Prog |-> [v \in UPage |-> NoFrame]]
  /\ pc = [g \in Prog |-> "none"]
  /\ got = [g \in Prog |-> NoFrame]
  /\ overgrown = FALSE
  /\ fault = "none"

(* Mutation of FirstFree: the search goes one frame too far. *)
FirstFreeBeyond(u) == {f \in (0 .. Frames) \ u : \A e \in (0 .. Frames) \ u : f <= e}

(* pmm_alloc_page with bitmap u: the first frame that is free, if any. *)
FirstFree(u) == {f \in Frame \ u : \A e \in Frame \ u : f <= e}

(* pmm_alloc_pages(2): the first of the first two neighbours that are free. *)
Pair(f, u)   == {f, f + 1} \subseteq Frame \ u
FirstPair(u) == {f \in Frame : Pair(f, u) /\ \A e \in Frame : Pair(e, u) => f <= e}

(* Does PHYSICAL_TO_VIRTUAL lead to these frames? *)
Reached(S) == \A f \in S : kmap[f] = f

Down(kind) == /\ fault' = kind
              /\ UNCHANGED <<used, kmap, ktab, heap, slabs, dma, progs, overgrown>>

(* vmm_map_page for kernel page v, where u are the frames used by now; a   *)
(* table of its own is allocated and cleared, through the direct map, the  *)
(* first time a page beyond Direct is mapped.                              *)
MapKernel(v, f, u) ==
  \/ /\ v < Direct \/ ktab # NoFrame
     /\ kmap' = [kmap EXCEPT ![v] = f]
     /\ used' = u
     /\ UNCHANGED <<ktab, fault>>
  \/ /\ v >= Direct /\ ktab = NoFrame
     /\ \E e \in FirstFree(u) :
          /\ Reached({e})
          /\ kmap' = [kmap EXCEPT ![v] = f]
          /\ ktab' = e
          /\ used' = u \cup {e}
          /\ UNCHANGED fault

(* No table can be had, or it cannot be reached. *)
MapKernelFails(v, u) ==
  /\ v >= Direct /\ ktab = NoFrame
  /\ \/ u = Frame /\ Down("frame0")
     \/ \E e \in FirstFree(u) : ~Reached({e}) /\ Down("direct")

-----------------------------------------------------------------------------
(* The kernel page behind n pages of heap. *)
HeapPage(n) == HeapBase + n

(* init_heap and kheap_expand, one page; a NULL frame is not noticed. *)
HeapGrow ==
  /\ fault = "none"
  /\ Len(heap) < MaxHeap
  /\ \/ \E f \in FirstFree(used) :
          \/ /\ MapKernel(HeapPage(Len(heap)), f, used \cup {f})
             /\ heap' = Append(heap, f)
             /\ overgrown' = (overgrown \/ HeapPage(Len(heap)) \in slabs)
             /\ UNCHANGED <<slabs, dma, progs>>
          \/ MapKernelFails(HeapPage(Len(heap)), used \cup {f})
     \/ used = Frame /\ Down("frame0")

(* init_heap, before all the rest, gets the heap's first pages. *)
Booted == Len(heap) >= HeapInit

(* create_slab: its page is mapped where the direct map has it, or had it. *)
SlabCreate ==
  /\ fault = "none" /\ Booted
  /\ \E f \in FirstFree(used) :
       \/ /\ MapKernel(f, f, used \cup {f})
          /\ slabs' = slabs \cup {f}
          /\ UNCHANGED <<heap, dma, progs, overgrown>>
       \/ MapKernelFails(f, used \cup {f})

(* A slab is given back: pmm_free_page(vmm_unmap_page(slab)), in slab_alloc *)
(* when another task was faster, and in slab_free.  The frame freed is the  *)
(* one the page leads to, or frame 0 if to none.                            *)
UnmappedNone(p) == 0   \* mutation of Unmapped: the entry is cleared first
Unmapped(p) == IF kmap[p] = NoFrame THEN 0 ELSE kmap[p]

SlabFree ==
  /\ fault = "none"
  /\ \E p \in slabs :
       /\ used' = used \ {Unmapped(p)}
       /\ kmap' = [kmap EXCEPT ![p] = NoFrame]
       /\ slabs' = slabs \ {p}
  /\ UNCHANGED <<ktab, heap, dma, progs, overgrown, fault>>

(* init_ahci gets two pages in a row for the command tables of a port, at   *)
(* boot, when the frames within the direct map are not used up.             *)
PortInit ==
  /\ fault = "none" /\ Booted
  /\ dma = {}
  /\ \E f \in FirstPair(used) :
       /\ f + 1 < Direct
       /\ dma' = {f, f + 1}
       /\ used' = used \cup dma'
       /\ kmap' = [kmap EXCEPT ![f] = f, ![f + 1] = f + 1]
  /\ UNCHANGED <<ktab, heap, slabs, progs, overgrown, fault>>

-----------------------------------------------------------------------------
(* exec_elf: the directory is filled in through the direct map. *)
ExecDirectory(g) ==
  /\ fault = "none" /\ Booted /\ pc[g] = "none"
  /\ \E f \in FirstFree(used) :
       \/ /\ Reached({f})
          /\ used' = used \cup {f}
          /\ dir' = [dir EXCEPT ![g] = f]
          /\ pc' = [pc EXCEPT ![g] = "page"]
          /\ UNCHANGED <<kmap, ktab, heap, slabs, dma, table, low, got, overgrown, fault>>
       \/ ~Reached({f}) /\ Down("direct")

(* A frame is allocated for the next page; NULL is not noticed. *)
ExecFrame(g) ==
  /\ fault = "none" /\ pc[g] = "page"
  /\ \/ \E f \in FirstFree(used) :
          /\ used' = used \cup {f}
          /\ got' = [got EXCEPT ![g] = f]
          /\ pc' = [pc EXCEPT ![g] = "map"]
          /\ UNCHANGED <<kmap, ktab, heap, slabs, dma, dir, table, low, overgrown, fault>>
     \/ used = Frame /\ Down("frame0")

NextPage(g) == {v \in UPage : low[g][v] = NoFrame /\ \A w \in 1 .. v - 1 : low[g][w] # NoFrame}

(* The page is entered in the program's table and then cleared and filled. *)
ExecPage(g, v, t) ==
  /\ low' = [low EXCEPT ![g][v] = got[g]]
  /\ table' = [table EXCEPT ![g][Region(v)] = t]
  /\ got' = [got EXCEPT ![g] = NoFrame]
  /\ pc' = [pc EXCEPT ![g] = IF v = 3 THEN "done" ELSE "page"]
  /\ UNCHANGED <<kmap, ktab, heap, slabs, dma, dir, overgrown, fault>>

(* vmm_map_page for it, which allocates the table if the region has none. *)
ExecMap(g) ==
  /\ fault = "none" /\ pc[g] = "map"
  /\ \E v \in NextPage(g) :
       LET t == table[g][Region(v)]
       IN  \/ /\ t # NoFrame
              /\ Reached({dir[g], t, got[g]})
              /\ ExecPage(g, v, t)
              /\ UNCHANGED used
           \/ /\ t # NoFrame
              /\ ~Reached({dir[g], t, got[g]})
              /\ Down("direct")
           \/ /\ t = NoFrame
              /\ \E e \in FirstFree(used) :
                   \/ /\ Reached({dir[g], e, got[g]})
                      /\ ExecPage(g, v, e)
                      /\ used' = used \cup {e}
                   \/ ~Reached({dir[g], e, got[g]}) /\ Down("direct")
           \/ t = NoFrame /\ used = Frame /\ Down("frame0")

Next == \/ HeapGrow \/ SlabCreate \/ SlabFree \/ PortInit
        \/ \E g \in Prog : ExecDirectory(g) \/ ExecFrame(g) \/ ExecMap(g)

Spec == Init /\ [][Next]_vars

-----------------------------------------------------------------------------
Opt == Frame \cup {NoFrame}

(* Every variable holds a value of its type. *)
TypeOK ==
  /\ used \subseteq Frame /\ slabs \subseteq Frame /\ dma \subseteq Frame
  /\ kmap \in [KPage -> Opt]
  /\ ktab \in Opt
  /\ heap \in Seq(Frame)
  /\ dir \in [Prog -> Opt] /\ got \in [Prog -> Opt]
  /\ table \in [Prog -> [{"low", "top"} -> Opt]]
  /\ low \in [Prog -> [UPage -> Opt]]
  /\ pc \in [Prog -> {"none", "page", "map", "done"}]
  /\ overgrown \in BOOLEAN
  /\ fault \in {"none", "frame0", "direct"}

(* Everything a frame is used for: a name of the use, and the frame. *)
Uses ==
  LET all == {<<"kernel", f, f>> : f \in 0 .. Reserved - 1} \cup {<<"ktab", 0, ktab>>}
             \cup {<<"heap", i, heap[i]>> : i \in DOMAIN heap}
             \cup {<<"slab", f, f>> : f \in slabs} \cup {<<"dma", f, f>> : f \in dma}
             \cup {<<"dir", g, dir[g]>> : g \in Prog} \cup {<<"got", g, got[g]>> : g \in Prog}
             \cup {<<"table", x, table[x[1]][x[2]]>> : x \in Prog \X {"low", "top"}}
             \cup {<<"page", x, low[x[1]][x[2]]>> : x \in Prog \X UPage}
  IN  {x \in all : x[3] # NoFrame}

(* include/memory/README.md:10 "Providing a unique physical address": each *)
(* frame that is allocated has exactly one use -- so programs share no     *)
(* page and no table with each other or with the kernel -- and none is     *)
(* marked used without one.  Frames in the heap's window, whose addresses  *)
(* lead elsewhere once a slab has been on them, do not disturb that; only  *)
(* a heap that grows over a slab does, since the frame given back with the *)
(* slab is then the heap's.                                                *)
FrameOwner ==
  ~overgrown => /\ used = {x[3] : x \in Uses}
                /\ \A x, y \in Uses : x[3] = y[3] => x = y
=============================================================================
