---------------------------- MODULE PagingProofs ----------------------------
(***************************************************************************)
(* Every frame has one use, for any number of frames, programs and heap    *)
(* pages and wherever the heap's window lies, as long as the heap has not  *)
(* grown over a slab.                                                      *)
(***************************************************************************)
EXTENDS Paging, TLAPS

(* Where a program is in exec_elf, and which frames it has by then.        *)
Loading ==
  /\ Len(heap) <= MaxHeap
  /\ \A g \in Prog : /\ pc[g] = "none" => dir[g] = NoFrame
                     /\ pc[g] = "map" <=> got[g] # NoFrame

-----------------------------------------------------------------------------
(* FrameOwner of any set of uses and any set of frames.                    *)
Owned(U, u) == u = {x[3] : x \in U} /\ \A x, y \in U : x[3] = y[3] => x = y

LEMMA AddUse ==
  ASSUME NEW U, NEW u, Owned(U, u), NEW k, NEW n, NEW f, f \notin u
  PROVE  Owned(U \cup {<<k, n, f>>}, u \cup {f})
  <1> DEFINE z == <<k, n, f>>
  <1>1. z[3] = f
    OBVIOUS
  <1> HIDE DEF z
  <1>2. u \cup {f} = {x[3] : x \in U \cup {z}}
    BY <1>1 DEF Owned
  <1>3. \A x \in U : x[3] # f
    BY DEF Owned
  <1>4. \A x, y \in U \cup {z} : x[3] = y[3] => x = y
    BY <1>1, <1>3 DEF Owned
  <1> QED BY <1>2, <1>4 DEF Owned, z

LEMMA DropUse ==
  ASSUME NEW U, NEW u, Owned(U, u), NEW k, NEW n, NEW f, <<k, n, f>> \in U
  PROVE  Owned(U \ {<<k, n, f>>}, u \ {f})
  BY DEF Owned

LEMMA MoveUse ==
  ASSUME NEW U, NEW u, Owned(U, u), NEW k, NEW n, NEW f, <<k, n, f>> \in U, NEW l, NEW o
  PROVE  Owned((U \ {<<k, n, f>>}) \cup {<<l, o, f>>}, u)
  <1> DEFINE z == <<k, n, f>>
             V == U \ {z}
             v == u \ {f}
  <1>1. f \in u
    <2>1. z[3] = f /\ z \in U
      OBVIOUS
    <2> HIDE DEF z
    <2> QED BY <2>1 DEF Owned
  <1>2. Owned(V, v) /\ f \notin v /\ v \cup {f} = u
    BY <1>1, DropUse
  <1> HIDE DEF V, v
  <1>3. Owned(V \cup {<<l, o, f>>}, v \cup {f})
    BY <1>2, AddUse
  <1> QED BY <1>2, <1>3 DEF V

(* The uses of one kind, where a set or a function says which frames.      *)
SetUses(k, S) == {<<k, f, f>> : f \in S}
FunUses(k, F) == {<<k, i, F[i]>> : i \in {j \in DOMAIN F : F[j] # NoFrame}}

UsesOf(kt, hp, sl, dm, di, ta, lo, go) ==
  SetUses("kernel", 0 .. Reserved - 1) \cup FunUses("ktab", [z \in {0} |-> kt])
  \cup FunUses("heap", hp) \cup SetUses("slab", sl) \cup SetUses("dma", dm)
  \cup FunUses("dir", di) \cup FunUses("got", go)
  \cup FunUses("table", [x \in Prog \X {"low", "top"} |-> ta[x[1]][x[2]]])
  \cup FunUses("page", [x \in Prog \X UPage |-> lo[x[1]][x[2]]])

LEMMA UsesAre ==
  ASSUME TypeOK
  PROVE  Uses = UsesOf(ktab, heap, slabs, dma, dir, table, low, got)
  <1>1. /\ NoFrame \notin Frame /\ NoFrame \notin 0 .. Reserved - 1
        /\ slabs \subseteq Frame /\ dma \subseteq Frame
        /\ \A i \in DOMAIN heap : heap[i] \in Frame
        /\ DOMAIN dir = Prog /\ DOMAIN got = Prog
    BY PagingAssumption DEF NoFrame, Frame, TypeOK
  <1> DEFINE T == [x \in Prog \X {"low", "top"} |-> table[x[1]][x[2]]]
             L == [x \in Prog \X UPage |-> low[x[1]][x[2]]]
             K == [z \in {0} |-> ktab]
             all == SetUses("kernel", 0 .. Reserved - 1) \cup {<<"ktab", 0, ktab>>}
                    \cup {<<"heap", i, heap[i]>> : i \in DOMAIN heap}
                    \cup SetUses("slab", slabs) \cup SetUses("dma", dma)
                    \cup {<<"dir", g, dir[g]>> : g \in Prog}
                    \cup {<<"got", g, got[g]>> : g \in Prog}
                    \cup {<<"table", x, T[x]>> : x \in Prog \X {"low", "top"}}
                    \cup {<<"page", x, L[x]>> : x \in Prog \X UPage}
  <1>2. Uses = {x \in all : x[3] # NoFrame}
    BY DEF Uses, SetUses
  <1>3. \A k, F, D : DOMAIN F = D =>
          {x \in {<<k, i, F[i]>> : i \in D} : x[3] # NoFrame} = FunUses(k, F)
    BY DEF FunUses
  <1>4. \A k, S : NoFrame \notin S => {x \in SetUses(k, S) : x[3] # NoFrame} = SetUses(k, S)
    BY DEF SetUses
  <1>5. {x \in {<<"ktab", 0, ktab>>} : x[3] # NoFrame} = FunUses("ktab", K)
    BY DEF FunUses
  <1>6. /\ {x \in SetUses("kernel", 0 .. Reserved - 1) : x[3] # NoFrame}
             = SetUses("kernel", 0 .. Reserved - 1)
        /\ {x \in SetUses("slab", slabs) : x[3] # NoFrame} = SetUses("slab", slabs)
        /\ {x \in SetUses("dma", dma) : x[3] # NoFrame} = SetUses("dma", dma)
    BY <1>1, <1>4
  <1>7. /\ {x \in {<<"heap", i, heap[i]>> : i \in DOMAIN heap} : x[3] # NoFrame}
             = FunUses("heap", heap)
        /\ {x \in {<<"dir", g, dir[g]>> : g \in Prog} : x[3] # NoFrame} = FunUses("dir", dir)
        /\ {x \in {<<"got", g, got[g]>> : g \in Prog} : x[3] # NoFrame} = FunUses("got", got)
    BY <1>1, <1>3
  <1>8. /\ {x \in {<<"table", y, T[y]>> : y \in Prog \X {"low", "top"}} : x[3] # NoFrame}
             = FunUses("table", T)
        /\ {x \in {<<"page", y, L[y]>> : y \in Prog \X UPage} : x[3] # NoFrame}
             = FunUses("page", L)
    BY <1>3
  <1> HIDE DEF T, L, K
  <1>9. Uses = SetUses("kernel", 0 .. Reserved - 1) \cup FunUses("ktab", K)
               \cup FunUses("heap", heap) \cup SetUses("slab", slabs) \cup SetUses("dma", dma)
               \cup FunUses("dir", dir) \cup FunUses("got", got)
               \cup FunUses("table", T) \cup FunUses("page", L)
    BY <1>2, <1>5, <1>6, <1>7, <1>8
  <1> QED BY <1>9 DEF UsesOf, T, L, K

(* A use is of one kind.                                                   *)
LEMMA TagsDiffer ==
  ASSUME NEW k, NEW n, NEW f, NEW l, l # k
  PROVE  /\ \A S : <<k, n, f>> \notin SetUses(l, S)
         /\ \A F : <<k, n, f>> \notin FunUses(l, F)
  BY DEF SetUses, FunUses

(* One frame more, or one less, in a function of frames.                   *)
LEMMA FunAdd ==
  ASSUME NEW k, NEW F, NEW G, NEW i, NEW f, f # NoFrame,
         DOMAIN G = DOMAIN F \cup {i}, i \in DOMAIN F => F[i] = NoFrame,
         G[i] = f, \A j \in DOMAIN F : j # i => G[j] = F[j]
  PROVE  FunUses(k, G) = FunUses(k, F) \cup {<<k, i, f>>}
  BY DEF FunUses

LEMMA FunDrop ==
  ASSUME NEW k, NEW F, NEW G, NEW i \in DOMAIN F, F[i] # NoFrame,
         DOMAIN G = DOMAIN F, G[i] = NoFrame, \A j \in DOMAIN F : j # i => G[j] = F[j]
  PROVE  FunUses(k, G) = FunUses(k, F) \ {<<k, i, F[i]>>} /\ <<k, i, F[i]>> \in FunUses(k, F)
  BY DEF FunUses

-----------------------------------------------------------------------------
(* What the heap disturbs when it grows over a slab: every frame used has  *)
(* one use, and a slab's page leads to the frame given back with it.       *)
Holds == /\ used = {x[3] : x \in Uses}
         /\ \A x, y \in Uses : x[3] = y[3] => x = y
         /\ Reached(slabs)

(* What vmm_map_page for kernel page v does when it succeeds: perhaps one  *)
(* more frame e is taken, for a table.                                     *)
LEMMA MapKernelIs ==
  ASSUME TypeOK, NEW v \in KPage, NEW f \in Frame, NEW u \in SUBSET Frame, MapKernel(v, f, u)
  PROVE  /\ kmap' = [kmap EXCEPT ![v] = f] /\ fault' = fault
         /\ \/ ktab' = ktab /\ used' = u
            \/ \E e \in Frame \ u : ktab = NoFrame /\ ktab' = e /\ used' = u \cup {e}
  BY DEF MapKernel, FirstFree

LEMMA FailsIs ==
  ASSUME NEW v, NEW u, MapKernelFails(v, u)
  PROVE  \E kind \in {"frame0", "direct"} : Down(kind)
  BY DEF MapKernelFails

(* A fault ends the behaviour and changes nothing else.                    *)
LEMMA DownKeeps ==
  ASSUME TypeOK, Loading, NEW kind \in {"frame0", "direct"}, Down(kind)
  PROVE  TypeOK' /\ Loading' /\ overgrown' = overgrown /\ (Holds => Holds')
  <1>1. TypeOK' /\ Loading' /\ overgrown' = overgrown
    BY DEF Down, progs, TypeOK, Loading
  <1>2. UNCHANGED <<used, kmap, ktab, heap, slabs, dma, dir, table, low, pc, got>>
    BY DEF Down, progs
  <1>3. Uses' = Uses
    BY <1>2 DEF Uses
  <1> QED BY <1>1, <1>2, <1>3 DEF Holds, Reached

LEMMA PageTypes ==
  /\ Frame \subseteq KPage /\ NoFrame \notin Frame
  /\ \A n \in Nat : n < MaxHeap => HeapPage(n) \in KPage
  BY PagingAssumption DEF Frame, KPage, HeapPage, NoFrame

(* Holds in terms of the frames of each user.                              *)
LEMMA OwnerIs ==
  ASSUME TypeOK
  PROVE  Holds <=> /\ Owned(UsesOf(ktab, heap, slabs, dma, dir, table, low, got), used)
                   /\ Reached(slabs)
  BY UsesAre DEF Holds, Owned

LEMMA OwnerIsNext ==
  ASSUME TypeOK'
  PROVE  Holds' <=> /\ Owned(UsesOf(ktab', heap', slabs', dma', dir', table', low', got'), used')
                    /\ \A p \in slabs' : kmap'[p] = p
  <1>1. (Holds <=> /\ Owned(UsesOf(ktab, heap, slabs, dma, dir, table, low, got), used)
                   /\ Reached(slabs))'
    BY OwnerIs, PTL
  <1> QED BY <1>1 DEF Owned, UsesOf, SetUses, FunUses, Reached

(* The frame for a table of kernel pages, if one was taken.                *)
LEMMA TableUse ==
  ASSUME NEW kt, NEW w, NEW kt2, NEW w2,
         NEW hp, NEW sl, NEW dm, NEW di, NEW ta, NEW lo, NEW go,
         Owned(UsesOf(kt, hp, sl, dm, di, ta, lo, go), w),
         \/ kt2 = kt /\ w2 = w
         \/ \E e \in Frame \ w : kt = NoFrame /\ kt2 = e /\ w2 = w \cup {e}
  PROVE  Owned(UsesOf(kt2, hp, sl, dm, di, ta, lo, go), w2)
  <1> DEFINE U == UsesOf(kt, hp, sl, dm, di, ta, lo, go)
  <1>1. CASE kt2 = kt /\ w2 = w
    BY <1>1
  <1>2. ASSUME NEW e \in Frame \ w, kt = NoFrame, kt2 = e, w2 = w \cup {e}
        PROVE  Owned(UsesOf(kt2, hp, sl, dm, di, ta, lo, go), w2)
    <2>1. FunUses("ktab", [z \in {0} |-> e])
            = FunUses("ktab", [z \in {0} |-> NoFrame]) \cup {<<"ktab", 0, e>>}
      <3>1. e # NoFrame
        BY <1>2, PageTypes
      <3> QED BY <3>1 DEF FunUses
    <2>2. UsesOf(kt2, hp, sl, dm, di, ta, lo, go) = U \cup {<<"ktab", 0, e>>}
      BY <1>2, <2>1 DEF UsesOf
    <2> HIDE DEF U
    <2>3. e \notin w
      BY <1>2
    <2>4. Owned(U, w)
      BY DEF U
    <2>5. Owned(U \cup {<<"ktab", 0, e>>}, w \cup {e})
      BY <2>3, <2>4, AddUse, Zenon
    <2> QED BY <1>2, <2>2, <2>5
  <1> QED BY <1>1, <1>2

LEMMA HeapGrowStep ==
  ASSUME TypeOK, Loading, HeapGrow
  PROVE  /\ TypeOK' /\ Loading' /\ (overgrown => overgrown')
         /\ Holds /\ ~overgrown' => Holds'
  <1>1. PICK f \in FirstFree(used) \cup {NoFrame} :
          \/ /\ f \in FirstFree(used)
             /\ MapKernel(HeapPage(Len(heap)), f, used \cup {f})
             /\ heap' = Append(heap, f)
             /\ overgrown' = (overgrown \/ HeapPage(Len(heap)) \in slabs)
             /\ UNCHANGED <<slabs, dma, progs>>
          \/ \E kind \in {"frame0", "direct"} : Down(kind)
    BY FailsIs DEF HeapGrow
  <1>2. CASE \E kind \in {"frame0", "direct"} : Down(kind)
    BY <1>2, DownKeeps
  <1>3. CASE /\ f \in FirstFree(used)
             /\ MapKernel(HeapPage(Len(heap)), f, used \cup {f})
             /\ heap' = Append(heap, f)
             /\ overgrown' = (overgrown \/ HeapPage(Len(heap)) \in slabs)
             /\ UNCHANGED <<slabs, dma, progs>>
    <2> DEFINE n == Len(heap)
               v == HeapPage(n)
               w == used \cup {f}
    <2>1. f \in Frame \ used /\ n \in Nat /\ n < MaxHeap /\ heap \in Seq(Frame)
      BY <1>3, PagingAssumption DEF HeapGrow, FirstFree, TypeOK
    <2>2. v \in KPage /\ overgrown' = (overgrown \/ v \in slabs)
      BY <1>3, <2>1, PageTypes
    <2>3. w \in SUBSET Frame
      BY <2>1 DEF TypeOK
    <2>4. /\ kmap' = [kmap EXCEPT ![v] = f] /\ fault' = fault
          /\ \/ ktab' = ktab /\ used' = w
             \/ \E e \in Frame \ w : ktab = NoFrame /\ ktab' = e /\ used' = w \cup {e}
      <3> HIDE DEF v, w
      <3>1. MapKernel(v, f, w)
        BY <1>3 DEF v, w
      <3> QED BY <2>1, <2>2, <2>3, <3>1, MapKernelIs
    <2>5. UNCHANGED <<slabs, dma, dir, table, low, pc, got>>
      BY <1>3 DEF progs
    <2>6. /\ heap' \in Seq(Frame) /\ Len(heap') = n + 1
          /\ DOMAIN heap' = 1 .. n + 1 /\ DOMAIN heap = 1 .. n
          /\ heap'[n + 1] = f /\ \A i \in 1 .. n : heap'[i] = heap[i]
      BY <1>3, <2>1
    <2> HIDE DEF v, w, n
    <2>7. TypeOK'
      <3>1. kmap' \in [KPage -> Opt]
        BY <2>1, <2>2, <2>4 DEF TypeOK, Opt
      <3>2. used' \subseteq Frame /\ ktab' \in Opt
        BY <2>3, <2>4 DEF TypeOK, Opt
      <3> QED BY <2>2, <2>4, <2>5, <2>6, <3>1, <3>2 DEF TypeOK
    <2>8. Loading'
      BY <2>1, <2>5, <2>6, PagingAssumption DEF Loading
    <2>9. ASSUME Holds, ~overgrown' PROVE Holds'
      <3>1. \A p \in slabs : kmap'[p] = p
        <4>1. \A p \in slabs : p \in KPage /\ p # v /\ kmap[p] = p
          BY <2>2, <2>9, PageTypes DEF TypeOK, Holds, Reached
        <4> QED BY <2>4, <4>1 DEF TypeOK
      <3>2. FunUses("heap", heap') = FunUses("heap", heap) \cup {<<"heap", n + 1, f>>}
        <4>1. DOMAIN heap' = DOMAIN heap \cup {n + 1} /\ n + 1 \notin DOMAIN heap /\ f # NoFrame
          BY <2>1, <2>6, PageTypes
        <4>2. heap'[n + 1] = f /\ \A j \in DOMAIN heap : j # n + 1 => heap'[j] = heap[j]
          BY <2>6
        <4> DEFINE i == n + 1
        <4> HIDE DEF i
        <4> QED BY <4>1, <4>2, FunAdd DEF i
      <3> DEFINE U == UsesOf(ktab, heap, slabs, dma, dir, table, low, got)
                 V == UsesOf(ktab, heap', slabs, dma, dir, table, low, got)
      <3>3. Owned(V, w)
        <4>1. Owned(U, used)
          BY <2>9, OwnerIs
        <4>2. V = U \cup {<<"heap", n + 1, f>>}
          BY <3>2 DEF UsesOf
        <4> HIDE DEF U, V
        <4> QED BY <2>1, <4>1, <4>2, AddUse DEF w
      <3>4. Owned(UsesOf(ktab', heap', slabs', dma', dir', table', low', got'), used')
        <4>1. Owned(UsesOf(ktab', heap', slabs, dma, dir, table, low, got), used')
          BY <2>4, <3>3, TableUse
        <4> QED BY <2>5, <4>1
      <3> QED BY <2>5, <2>7, <3>1, <3>4, OwnerIsNext
    <2> QED BY <2>2, <2>7, <2>8, <2>9
  <1> QED BY <1>1, <1>2, <1>3

LEMMA SlabCreateStep ==
  ASSUME TypeOK, Loading, SlabCreate
  PROVE  TypeOK' /\ Loading' /\ overgrown' = overgrown /\ (Holds => Holds')
  <1>1. PICK f \in FirstFree(used) :
          \/ /\ MapKernel(f, f, used \cup {f})
             /\ slabs' = slabs \cup {f}
             /\ UNCHANGED <<heap, dma, progs, overgrown>>
          \/ \E kind \in {"frame0", "direct"} : Down(kind)
    BY FailsIs DEF SlabCreate
  <1>2. CASE \E kind \in {"frame0", "direct"} : Down(kind)
    BY <1>2, DownKeeps
  <1>3. CASE /\ MapKernel(f, f, used \cup {f})
             /\ slabs' = slabs \cup {f}
             /\ UNCHANGED <<heap, dma, progs, overgrown>>
    <2> DEFINE w == used \cup {f}
    <2>1. f \in Frame \ used /\ f \in KPage /\ f # NoFrame
      BY PageTypes DEF FirstFree
    <2>2. w \in SUBSET Frame
      BY <2>1 DEF TypeOK
    <2>3. /\ kmap' = [kmap EXCEPT ![f] = f] /\ fault' = fault
          /\ \/ ktab' = ktab /\ used' = w
             \/ \E e \in Frame \ w : ktab = NoFrame /\ ktab' = e /\ used' = w \cup {e}
      <3> HIDE DEF w
      <3>1. MapKernel(f, f, w)
        BY <1>3 DEF w
      <3> QED BY <2>1, <2>2, <3>1, MapKernelIs
    <2>4. UNCHANGED <<heap, dma, dir, table, low, pc, got, overgrown>> /\ slabs' = slabs \cup {f}
      BY <1>3 DEF progs
    <2> HIDE DEF w
    <2>5. TypeOK'
      <3>1. kmap' \in [KPage -> Opt]
        BY <2>1, <2>3 DEF TypeOK, Opt
      <3>2. used' \subseteq Frame /\ ktab' \in Opt
        BY <2>2, <2>3 DEF TypeOK, Opt
      <3> QED BY <2>1, <2>3, <2>4, <3>1, <3>2 DEF TypeOK
    <2>6. Loading'
      BY <2>4 DEF Loading
    <2>7. ASSUME Holds PROVE Holds'
      <3>1. \A p \in slabs \cup {f} : kmap'[p] = p
        <4>1. \A p \in slabs : kmap[p] = p /\ p \in KPage
          BY <2>7, PageTypes DEF Holds, Reached, TypeOK
        <4> QED BY <2>1, <2>3, <4>1 DEF TypeOK
      <3> DEFINE U == UsesOf(ktab, heap, slabs, dma, dir, table, low, got)
                 V == UsesOf(ktab, heap, slabs \cup {f}, dma, dir, table, low, got)
      <3>2. Owned(V, w)
        <4>1. Owned(U, used)
          BY <2>7, OwnerIs
        <4>2. V = U \cup {<<"slab", f, f>>}
          BY DEF UsesOf, SetUses
        <4> HIDE DEF U, V
        <4> QED BY <2>1, <4>1, <4>2, AddUse DEF w
      <3>3. Owned(UsesOf(ktab', heap, slabs \cup {f}, dma, dir, table, low, got), used')
        BY <2>3, <3>2, TableUse
      <3> QED BY <2>4, <2>5, <3>1, <3>3, OwnerIsNext
    <2> QED BY <2>4, <2>5, <2>6, <2>7
  <1> QED BY <1>1, <1>2, <1>3

(* A slab leaves, with the frame its page leads to.                        *)
LEMMA SlabFreeStep ==
  ASSUME TypeOK, Loading, SlabFree
  PROVE  TypeOK' /\ Loading' /\ overgrown' = overgrown /\ (Holds => Holds')
  <1>1. PICK p \in slabs : /\ used' = used \ {Unmapped(p)}
                           /\ kmap' = [kmap EXCEPT ![p] = NoFrame]
                           /\ slabs' = slabs \ {p}
    BY DEF SlabFree
  <1>2. UNCHANGED <<ktab, heap, dma, dir, table, low, pc, got, overgrown, fault>>
    BY DEF SlabFree, progs
  <1>3. p \in Frame /\ p \in KPage /\ p # NoFrame
    BY PageTypes DEF TypeOK
  <1>4. TypeOK'
    <2>1. kmap' \in [KPage -> Opt]
      BY <1>1, <1>3 DEF TypeOK, Opt
    <2> QED BY <1>1, <1>2, <2>1 DEF TypeOK
  <1>5. Loading'
    BY <1>2 DEF Loading
  <1>6. ASSUME Holds PROVE Holds'
    <2> DEFINE U == UsesOf(ktab, heap, slabs, dma, dir, table, low, got)
               V == UsesOf(ktab, heap, slabs \ {p}, dma, dir, table, low, got)
               z == <<"slab", p, p>>
    <2>1. Owned(U, used)
      BY <1>6, OwnerIs
    <2>2. kmap[p] = p
      BY <1>6 DEF Holds, Reached
    <2>3. used' = used \ {p}
      BY <1>1, <1>3, <2>2 DEF Unmapped
    <2>4. \A q \in slabs \ {p} : kmap'[q] = q
      <3>1. \A q \in slabs : kmap[q] = q /\ q \in KPage
        BY <1>6, PageTypes DEF Holds, Reached, TypeOK
      <3> QED BY <1>1, <1>3, <3>1 DEF TypeOK
    <2>5. V = U \ {z} /\ z \in U
      <3>1. SetUses("slab", slabs \ {p}) = SetUses("slab", slabs) \ {z} /\ z \in SetUses("slab", slabs)
        BY DEF SetUses
      <3>2. /\ z \notin SetUses("kernel", 0 .. Reserved - 1) /\ z \notin SetUses("dma", dma)
            /\ \A F : /\ z \notin FunUses("ktab", F) /\ z \notin FunUses("heap", F)
                     /\ z \notin FunUses("dir", F) /\ z \notin FunUses("got", F)
                     /\ z \notin FunUses("table", F) /\ z \notin FunUses("page", F)
        BY TagsDiffer
      <3> DEFINE R == SetUses("kernel", 0 .. Reserved - 1) \cup FunUses("ktab", [x \in {0} |-> ktab])
                      \cup FunUses("heap", heap) \cup SetUses("dma", dma)
                      \cup FunUses("dir", dir) \cup FunUses("got", got)
                      \cup FunUses("table", [x \in Prog \X {"low", "top"} |-> table[x[1]][x[2]]])
                      \cup FunUses("page", [x \in Prog \X UPage |-> low[x[1]][x[2]]])
      <3>3. z \notin R
        <4> HIDE DEF z
        <4> QED BY <3>2
      <3>4. U = SetUses("slab", slabs) \cup R /\ V = SetUses("slab", slabs \ {p}) \cup R
        <4> HIDE DEF z
        <4> QED BY Zenon DEF UsesOf
      <3> HIDE DEF z, R, U, V
      <3> QED BY <3>1, <3>3, <3>4
    <2>6. Owned(V, used \ {p})
      <3> HIDE DEF U, V
      <3> QED BY <2>1, <2>5, DropUse
    <2> QED BY <1>1, <1>2, <1>4, <2>3, <2>4, <2>6, OwnerIsNext
  <1> QED BY <1>2, <1>4, <1>5, <1>6

(* The controller's tables are two frames of their own, mapped one to one. *)
LEMMA PortInitStep ==
  ASSUME TypeOK, Loading, PortInit
  PROVE  TypeOK' /\ Loading' /\ overgrown' = overgrown /\ (Holds => Holds')
  <1>1. PICK f \in FirstPair(used) :
          /\ dma' = {f, f + 1}
          /\ used' = used \cup dma'
          /\ kmap' = [kmap EXCEPT ![f] = f, ![f + 1] = f + 1]
    BY DEF PortInit
  <1>2. UNCHANGED <<ktab, heap, slabs, dir, table, low, pc, got, overgrown, fault>> /\ dma = {}
    BY DEF PortInit, progs
  <1>3. f \in Frame \ used /\ f + 1 \in Frame \ used /\ f + 1 # f /\ f \in KPage /\ f + 1 \in KPage
    BY PageTypes DEF FirstPair, Pair, Frame
  <1>4. \A v \in KPage : kmap'[v] = IF v = f + 1 THEN f + 1 ELSE IF v = f THEN f ELSE kmap[v]
    BY <1>1, <1>3 DEF TypeOK
  <1>5. TypeOK'
    <2>1. kmap' \in [KPage -> Opt]
      BY <1>1, <1>3 DEF TypeOK, Opt
    <2> QED BY <1>1, <1>2, <1>3, <2>1 DEF TypeOK
  <1>6. Loading'
    BY <1>2 DEF Loading
  <1>7. ASSUME Holds PROVE Holds'
    <2>1. \A q \in slabs : kmap'[q] = q
      <3>1. \A q \in slabs : kmap[q] = q /\ q \in KPage
        BY <1>7, PageTypes DEF Holds, Reached, TypeOK
      <3> QED BY <1>3, <1>4, <3>1
    <2> DEFINE U == UsesOf(ktab, heap, slabs, {}, dir, table, low, got)
               V == UsesOf(ktab, heap, slabs, {f, f + 1}, dir, table, low, got)
               h == f + 1
    <2>2. Owned(U, used)
      BY <1>2, <1>7, OwnerIs
    <2>3. V = (U \cup {<<"dma", f, f>>}) \cup {<<"dma", h, h>>}
      BY DEF UsesOf, SetUses
    <2>4. f \notin used /\ h \notin used \cup {f} /\ used' = (used \cup {f}) \cup {h}
      BY <1>1, <1>3
    <2> HIDE DEF U, h
    <2>5. Owned(U \cup {<<"dma", f, f>>}, used \cup {f})
      BY <2>2, <2>4, AddUse
    <2>6. Owned((U \cup {<<"dma", f, f>>}) \cup {<<"dma", h, h>>}, (used \cup {f}) \cup {h})
      BY <2>4, <2>5, AddUse
    <2>7. Owned(V, used')
      <3> HIDE DEF V
      <3> QED BY <2>3, <2>4, <2>6
    <2> QED BY <1>1, <1>2, <1>5, <2>1, <2>7, OwnerIsNext
  <1> QED BY <1>2, <1>5, <1>6, <1>7

-----------------------------------------------------------------------------
(* exec_elf does not touch what the kernel maps.                           *)
LEMMA KernelKept ==
  ASSUME UNCHANGED <<kmap, slabs>>, Holds
  PROVE  \A p \in slabs' : kmap'[p] = p
  BY DEF Holds, Reached

LEMMA ExecDirectoryStep ==
  ASSUME TypeOK, Loading, NEW g \in Prog, ExecDirectory(g)
  PROVE  TypeOK' /\ Loading' /\ overgrown' = overgrown /\ (Holds => Holds')
  <1>1. CASE \E kind \in {"frame0", "direct"} : Down(kind)
    BY <1>1, DownKeeps
  <1>2. ASSUME NEW f \in FirstFree(used),
               used' = used \cup {f}, dir' = [dir EXCEPT ![g] = f], pc' = [pc EXCEPT ![g] = "page"],
               UNCHANGED <<kmap, ktab, heap, slabs, dma, table, low, got, overgrown, fault>>
        PROVE  TypeOK' /\ Loading' /\ overgrown' = overgrown /\ (Holds => Holds')
    <2>1. f \in Frame \ used /\ f # NoFrame /\ pc[g] = "none"
      BY PageTypes DEF FirstFree, ExecDirectory
    <2>2. TypeOK'
      BY <1>2, <2>1 DEF TypeOK, Opt
    <2>3. Loading'
      BY <1>2, <2>1 DEF Loading, TypeOK
    <2>4. ASSUME Holds PROVE Holds'
      <3> DEFINE U == UsesOf(ktab, heap, slabs, dma, dir, table, low, got)
                 V == UsesOf(ktab, heap, slabs, dma, dir', table, low, got)
      <3>1. Owned(U, used)
        BY <2>4, OwnerIs
      <3>2. FunUses("dir", dir') = FunUses("dir", dir) \cup {<<"dir", g, f>>}
        <4>1. /\ g \in DOMAIN dir /\ DOMAIN dir' = DOMAIN dir \cup {g} /\ dir[g] = NoFrame
              /\ dir'[g] = f /\ \A h \in DOMAIN dir : h # g => dir'[h] = dir[h]
          BY <1>2, <2>1 DEF TypeOK, Loading
        <4> QED BY <2>1, <4>1, FunAdd
      <3>3. V = U \cup {<<"dir", g, f>>}
        BY <3>2 DEF UsesOf
      <3>4. Owned(V, used')
        <4> HIDE DEF U, V
        <4> QED BY <1>2, <2>1, <3>1, <3>3, AddUse
      <3> QED BY <1>2, <2>2, <2>4, <3>4, OwnerIsNext, KernelKept
    <2> QED BY <1>2, <2>2, <2>3, <2>4
  <1> QED BY <1>1, <1>2 DEF ExecDirectory

LEMMA ExecFrameStep ==
  ASSUME TypeOK, Loading, NEW g \in Prog, ExecFrame(g)
  PROVE  TypeOK' /\ Loading' /\ overgrown' = overgrown /\ (Holds => Holds')
  <1>1. CASE \E kind \in {"frame0", "direct"} : Down(kind)
    BY <1>1, DownKeeps
  <1>2. ASSUME NEW f \in FirstFree(used),
               used' = used \cup {f}, got' = [got EXCEPT ![g] = f], pc' = [pc EXCEPT ![g] = "map"],
               UNCHANGED <<kmap, ktab, heap, slabs, dma, dir, table, low, overgrown, fault>>
        PROVE  TypeOK' /\ Loading' /\ overgrown' = overgrown /\ (Holds => Holds')
    <2>1. f \in Frame \ used /\ f # NoFrame /\ pc[g] = "page" /\ got[g] = NoFrame
      BY PageTypes DEF FirstFree, ExecFrame, Loading
    <2>2. TypeOK'
      BY <1>2, <2>1 DEF TypeOK, Opt
    <2>3. Loading'
      BY <1>2, <2>1 DEF Loading, TypeOK
    <2>4. ASSUME Holds PROVE Holds'
      <3> DEFINE U == UsesOf(ktab, heap, slabs, dma, dir, table, low, got)
                 V == UsesOf(ktab, heap, slabs, dma, dir, table, low, got')
      <3>1. Owned(U, used)
        BY <2>4, OwnerIs
      <3>2. FunUses("got", got') = FunUses("got", got) \cup {<<"got", g, f>>}
        <4>1. /\ g \in DOMAIN got /\ DOMAIN got' = DOMAIN got \cup {g} /\ got[g] = NoFrame
              /\ got'[g] = f /\ \A h \in DOMAIN got : h # g => got'[h] = got[h]
          BY <1>2, <2>1 DEF TypeOK
        <4> QED BY <2>1, <4>1, FunAdd
      <3>3. V = U \cup {<<"got", g, f>>}
        BY <3>2 DEF UsesOf
      <3>4. Owned(V, used')
        <4> HIDE DEF U, V
        <4> QED BY <1>2, <2>1, <3>1, <3>3, AddUse
      <3> QED BY <1>2, <2>2, <2>4, <3>4, OwnerIsNext, KernelKept
    <2> QED BY <1>2, <2>2, <2>3, <2>4
  <1> QED BY <1>1, <1>2 DEF ExecFrame

(* A frame that is mapped goes from the program's hand to one of its pages. *)
LEMMA PageUse ==
  ASSUME NEW kt, NEW hp, NEW sl, NEW dm, NEW di, NEW ta, NEW lo, NEW go, NEW lo2, NEW go2, NEW w,
         Owned(UsesOf(kt, hp, sl, dm, di, ta, lo, go), w),
         DOMAIN go = Prog, DOMAIN go2 = Prog,
         NEW g \in Prog, NEW v \in UPage, go[g] # NoFrame, go2[g] = NoFrame,
         \A h \in Prog : h # g => go2[h] = go[h],
         lo[g][v] = NoFrame, lo2[g][v] = go[g],
         \A h \in Prog, x \in UPage : h # g \/ x # v => lo2[h][x] = lo[h][x]
  PROVE  Owned(UsesOf(kt, hp, sl, dm, di, ta, lo2, go2), w)
  <1> DEFINE f == go[g]
             y == <<"got", g, f>>
             z == <<"page", <<g, v>>, f>>
             L(l) == [x \in Prog \X UPage |-> l[x[1]][x[2]]]
             T == [x \in Prog \X {"low", "top"} |-> ta[x[1]][x[2]]]
             R == SetUses("kernel", 0 .. Reserved - 1) \cup FunUses("ktab", [x \in {0} |-> kt])
                  \cup FunUses("heap", hp) \cup SetUses("slab", sl) \cup SetUses("dma", dm)
                  \cup FunUses("dir", di) \cup FunUses("table", T)
             U == UsesOf(kt, hp, sl, dm, di, ta, lo, go)
             V == UsesOf(kt, hp, sl, dm, di, ta, lo2, go2)
  <1>1. U = FunUses("got", go) \cup FunUses("page", L(lo)) \cup R
        /\ V = FunUses("got", go2) \cup FunUses("page", L(lo2)) \cup R
    BY Zenon DEF UsesOf
  <1>2. FunUses("got", go2) = FunUses("got", go) \ {y} /\ y \in FunUses("got", go)
    BY FunDrop
  <1>3. FunUses("page", L(lo2)) = FunUses("page", L(lo)) \cup {z}
    <2> DEFINE F == L(lo)
               G == L(lo2)
               i == <<g, v>>
    <2>1. i \in DOMAIN F /\ DOMAIN G = DOMAIN F /\ F[i] = NoFrame /\ G[i] = f
      OBVIOUS
    <2>2. \A j \in DOMAIN F : j # i => G[j] = F[j]
      OBVIOUS
    <2> HIDE DEF F, G, i, f
    <2>3. f # NoFrame
      BY DEF f
    <2>4. FunUses("page", G) = FunUses("page", F) \cup {<<"page", i, f>>}
      BY <2>1, <2>2, <2>3, FunAdd
    <2> QED BY <2>4 DEF F, G, i
  <1>4. y \notin R /\ y \notin FunUses("page", L(lo))
    <2>1. /\ y \notin SetUses("kernel", 0 .. Reserved - 1) /\ y \notin SetUses("dma", dm)
          /\ y \notin SetUses("slab", sl)
          /\ \A F : /\ y \notin FunUses("ktab", F) /\ y \notin FunUses("heap", F)
                    /\ y \notin FunUses("dir", F)
                    /\ y \notin FunUses("table", F) /\ y \notin FunUses("page", F)
      BY TagsDiffer
    <2> HIDE DEF y, L, T
    <2> QED BY <2>1
  <1> HIDE DEF f, y, z, L, R
  <1>5. V = (U \ {y}) \cup {z} /\ y \in U
    BY <1>1, <1>2, <1>3, <1>4
  <1> HIDE DEF U, V
  <1>6. Owned((U \ {y}) \cup {z}, w)
    <2>1. Owned(U, w)
      BY DEF U
    <2> QED BY <1>5, <2>1, MoveUse DEF y, z
  <1> QED BY <1>5, <1>6 DEF V

LEMMA ExecMapStep ==
  ASSUME TypeOK, Loading, NEW g \in Prog, ExecMap(g)
  PROVE  TypeOK' /\ Loading' /\ overgrown' = overgrown /\ (Holds => Holds')
  <1>1. CASE \E kind \in {"frame0", "direct"} : Down(kind)
    BY <1>1, DownKeeps
  <1>2. ASSUME NEW v \in NextPage(g), NEW t \in Frame, ExecPage(g, v, t),
               \/ t = table[g][Region(v)] /\ used' = used
               \/ table[g][Region(v)] = NoFrame /\ t \notin used /\ used' = used \cup {t}
        PROVE  TypeOK' /\ Loading' /\ overgrown' = overgrown /\ (Holds => Holds')
    <2> DEFINE f == got[g]
               r == Region(v)
    <2>1. /\ v \in UPage /\ low[g][v] = NoFrame /\ pc[g] = "map" /\ f # NoFrame /\ f \in Opt
          /\ r \in {"low", "top"} /\ t # NoFrame
      BY PageTypes DEF NextPage, ExecMap, Loading, TypeOK, Region
    <2>2. /\ low' = [low EXCEPT ![g][v] = f]
          /\ table' = [table EXCEPT ![g][r] = t]
          /\ got' = [got EXCEPT ![g] = NoFrame]
          /\ pc' = [pc EXCEPT ![g] = IF v = 3 THEN "done" ELSE "page"]
          /\ UNCHANGED <<kmap, ktab, heap, slabs, dma, dir, overgrown, fault>>
      BY <1>2 DEF ExecPage
    <2> HIDE DEF f, r
    <2>3. TypeOK'
      <3>1. low' \in [Prog -> [UPage -> Opt]]
        BY <2>1, <2>2 DEF TypeOK
      <3>2. table' \in [Prog -> [{"low", "top"} -> Opt]]
        BY <1>2, <2>1, <2>2 DEF TypeOK, Opt
      <3>3. got' \in [Prog -> Opt] /\ pc' \in [Prog -> {"none", "page", "map", "done"}]
        BY <2>2 DEF TypeOK, Opt
      <3>4. used' \subseteq Frame
        BY <1>2 DEF TypeOK
      <3> QED BY <2>2, <3>1, <3>2, <3>3, <3>4 DEF TypeOK
    <2>4. Loading'
      <3>1. \A h \in Prog : pc'[h] = "map" <=> got'[h] # NoFrame
        BY <2>1, <2>2 DEF Loading, TypeOK
      <3>2. \A h \in Prog : pc'[h] = "none" => pc[h] = "none"
        BY <2>1, <2>2 DEF TypeOK
      <3> QED BY <2>2, <3>1, <3>2 DEF Loading
    <2>5. ASSUME Holds PROVE Holds'
      <3> DEFINE U == UsesOf(ktab, heap, slabs, dma, dir, table, low, got)
                 V == UsesOf(ktab, heap, slabs, dma, dir, table', low, got)
                 T == [x \in Prog \X {"low", "top"} |-> table[x[1]][x[2]]]
                 S == [x \in Prog \X {"low", "top"} |-> table'[x[1]][x[2]]]
      <3>1. Owned(U, used)
        BY <2>5, OwnerIs
      <3>2. \A x \in Prog \X {"low", "top"} : S[x] = IF x = <<g, r>> THEN t ELSE T[x]
        BY <2>1, <2>2 DEF TypeOK
      <3>3. Owned(V, used')
        <4>1. CASE t = table[g][r] /\ used' = used
          <5>1. S = T
            <6>1. T[<<g, r>>] = t
              BY <2>1, <4>1
            <6>2. \A x \in Prog \X {"low", "top"} : S[x] = T[x]
              BY <3>2, <6>1
            <6> QED BY <6>2
          <5> HIDE DEF S, T
          <5>2. V = U
            BY <5>1 DEF UsesOf, S, T
          <5> QED BY <3>1, <4>1, <5>2
        <4>2. CASE table[g][r] = NoFrame /\ t \notin used /\ used' = used \cup {t}
          <5> DEFINE i == <<g, r>>
          <5>1. i \in DOMAIN T /\ DOMAIN S = DOMAIN T /\ T[i] = NoFrame /\ S[i] = t
            BY <2>1, <3>2, <4>2
          <5>2. \A j \in DOMAIN T : j # i => S[j] = T[j]
            BY <3>2
          <5>3. FunUses("table", S) = FunUses("table", T) \cup {<<"table", i, t>>}
            <6> HIDE DEF S, T, i
            <6>1. DOMAIN S = DOMAIN T \cup {i} /\ t # NoFrame
              BY <2>1, <5>1
            <6> QED BY <5>1, <5>2, <6>1, FunAdd
          <5>4. V = U \cup {<<"table", i, t>>}
            BY <5>3 DEF UsesOf
          <5> HIDE DEF U, V, i
          <5> QED BY <3>1, <4>2, <5>4, AddUse
        <4> QED BY <1>2, <4>1, <4>2 DEF r
      <3>4. Owned(UsesOf(ktab, heap, slabs, dma, dir, table', low', got'), used')
        <4>1. DOMAIN got = Prog /\ DOMAIN got' = Prog /\ got[g] # NoFrame /\ got'[g] = NoFrame
              /\ \A h \in Prog : h # g => got'[h] = got[h]
          BY <2>1, <2>2 DEF TypeOK, f
        <4>2. low'[g][v] = got[g]
              /\ \A h \in Prog, x \in UPage : h # g \/ x # v => low'[h][x] = low[h][x]
          BY <2>1, <2>2 DEF TypeOK, f
        <4> QED BY <2>1, <3>3, <4>1, <4>2, PageUse
      <3> QED BY <2>2, <2>3, <2>5, <3>4, OwnerIsNext, KernelKept
    <2> QED BY <2>2, <2>3, <2>4, <2>5
  <1>3. ASSUME NEW v \in NextPage(g)
        PROVE  v \in UPage /\ table[g][Region(v)] \in Frame \cup {NoFrame}
    BY DEF NextPage, TypeOK, Region, Opt
  <1> QED BY <1>1, <1>2, <1>3 DEF ExecMap, FirstFree

-----------------------------------------------------------------------------
LEMMA InitHolds == Init => TypeOK /\ Loading /\ Holds
  <1> SUFFICES ASSUME Init PROVE TypeOK /\ Loading /\ Holds
    OBVIOUS
  <1>1. TypeOK
    <2>1. kmap \in [KPage -> Opt]
      BY DEF Init, Opt
    <2>2. dir \in [Prog -> Opt] /\ got \in [Prog -> Opt]
      BY DEF Init, Opt
    <2>3. table \in [Prog -> [{"low", "top"} -> Opt]] /\ low \in [Prog -> [UPage -> Opt]]
      BY DEF Init, Opt
    <2>4. used \subseteq Frame
      BY PagingAssumption DEF Init, Frame
    <2>5. heap \in Seq(Frame) /\ ktab \in Opt /\ slabs \subseteq Frame /\ dma \subseteq Frame
      BY DEF Init, Opt
    <2>6. /\ pc \in [Prog -> {"none", "page", "map", "done"}]
          /\ overgrown \in BOOLEAN /\ fault \in {"none", "frame0", "direct"}
      BY Zenon DEF Init
    <2> QED BY <2>1, <2>2, <2>3, <2>4, <2>5, <2>6 DEF TypeOK
  <1>2. Loading
    BY PagingAssumption DEF Init, Loading
  <1>3. Reached(slabs)
    BY DEF Init, Reached
  <1>4. UsesOf(ktab, heap, slabs, dma, dir, table, low, got) = SetUses("kernel", used)
    <2>1. /\ \A i \in DOMAIN heap : FALSE
          /\ slabs = {} /\ dma = {} /\ ktab = NoFrame
          /\ \A g \in Prog : dir[g] = NoFrame /\ got[g] = NoFrame
          /\ \A x \in Prog \X {"low", "top"} : table[x[1]][x[2]] = NoFrame
          /\ \A x \in Prog \X UPage : low[x[1]][x[2]] = NoFrame
          /\ DOMAIN dir = Prog /\ DOMAIN got = Prog
      BY DEF Init
    <2>2. \A k, F : (\A i \in DOMAIN F : F[i] = NoFrame) => FunUses(k, F) = {}
      BY DEF FunUses
    <2>3. \A k : SetUses(k, {}) = {}
      BY DEF SetUses
    <2>4. /\ FunUses("ktab", [z \in {0} |-> ktab]) = {} /\ FunUses("heap", heap) = {}
          /\ FunUses("dir", dir) = {} /\ FunUses("got", got) = {}
          /\ FunUses("table", [x \in Prog \X {"low", "top"} |-> table[x[1]][x[2]]]) = {}
          /\ FunUses("page", [x \in Prog \X UPage |-> low[x[1]][x[2]]]) = {}
          /\ SetUses("slab", slabs) = {} /\ SetUses("dma", dma) = {}
      BY <2>1, <2>2, <2>3
    <2>5. used = 0 .. Reserved - 1
      BY DEF Init
    <2> QED BY <2>4, <2>5 DEF UsesOf
  <1>5. Owned(SetUses("kernel", used), used)
    <2>1. \A x \in SetUses("kernel", used) : x[3] \in used /\ x = <<"kernel", x[3], x[3]>>
      BY DEF SetUses
    <2>2. \A f \in used : <<"kernel", f, f>> \in SetUses("kernel", used) /\ <<"kernel", f, f>>[3] = f
      BY DEF SetUses
    <2>3. used = {x[3] : x \in SetUses("kernel", used)}
      BY <2>1, <2>2
    <2>4. \A x, y \in SetUses("kernel", used) : x[3] = y[3] => x = y
      BY <2>1, Zenon
    <2> QED BY <2>3, <2>4 DEF Owned
  <1> QED BY <1>1, <1>2, <1>3, <1>4, <1>5, OwnerIs

LEMMA StepHolds ==
  TypeOK /\ Loading /\ [Next]_vars
    => TypeOK' /\ Loading' /\ (overgrown => overgrown') /\ (Holds /\ ~overgrown' => Holds')
  <1> SUFFICES ASSUME TypeOK, Loading, [Next]_vars
               PROVE  TypeOK' /\ Loading' /\ (overgrown => overgrown')
                      /\ (Holds /\ ~overgrown' => Holds')
    OBVIOUS
  <1>1. CASE Next
    BY <1>1, HeapGrowStep, SlabCreateStep, SlabFreeStep, PortInitStep,
       ExecDirectoryStep, ExecFrameStep, ExecMapStep DEF Next
  <1>2. CASE UNCHANGED vars
    <2>1. TypeOK' /\ Loading'
      BY <1>2 DEF vars, progs, TypeOK, Loading
    <2>2. UNCHANGED <<used, kmap, ktab, heap, slabs, dma, dir, table, low, pc, got, overgrown>>
      BY <1>2 DEF vars, progs
    <2>3. Uses' = Uses
      BY <2>2 DEF Uses
    <2> QED BY <2>1, <2>2, <2>3 DEF Holds, Reached
  <1> QED BY <1>1, <1>2

(* Every variable keeps its type, whatever the faults.                     *)
THEOREM TypeCorrect == Spec => []TypeOK
  BY InitHolds, StepHolds, PTL DEF Spec

(* Every frame marked used has one use and one only, and every use has its *)
(* frame -- programs share no page and no table -- on machines of any size *)
(* and wherever the heap's window lies, until the heap grows over a slab.  *)
THEOREM FrameOwnerHolds == Spec => []FrameOwner
  <1> DEFINE Inv == TypeOK /\ Loading /\ (~overgrown => Holds)
  <1>1. Init => Inv
    BY InitHolds
  <1>2. Inv /\ [Next]_vars => Inv'
    BY StepHolds
  <1>3. Inv => FrameOwner
    BY DEF Holds, FrameOwner
  <1> QED BY <1>1, <1>2, <1>3, PTL DEF Spec
=============================================================================
