----------------------------- MODULE HeapProofs -----------------------------
(***************************************************************************)
(* The kernel heap for any number of tasks, any sizes and any number of    *)
(* pages: the segments tile the heap, free ones are merged, and the heap   *)
(* implements the abstract allocator.                                      *)
(***************************************************************************)
EXTENDS Heap, TLAPS

(* A chain of headers that covers the addresses from 0 to e.               *)
IsChain(m, e) ==
  /\ DOMAIN m \subseteq Nat
  /\ m \in [DOMAIN m -> Segment]
  /\ e \in Nat
  /\ Tiled(m, e)
  /\ \E l \in DOMAIN m : m[l].next = NoSeg

(* Two free segments are neighbours only when the second is one of T.      *)
Apart(m, T) ==
  \A s \in DOMAIN m : IsFree(m, s) /\ IsFree(m, m[s].next) => m[s].next \in T

(* The headers the kheap_expands under way are about to free.              *)
FreshOnes == {fresh[t] : t \in Merging}

ChainInv ==
  /\ IsChain(hdr, heapEnd)
  /\ heapEnd = PageOf(heapEnd) * PageSize
  /\ wiped \cap DOMAIN hdr = {}
  /\ Apart(hdr, FreshOnes)

(* Pages that a kheap_expand has mapped behind the heap's end so far, and  *)
(* the segment it is about to free.                                        *)
ExpandInv ==
  /\ \A t, u \in Expanding : t = u
  /\ \A t \in Merging : fresh[t] \in DOMAIN hdr /\ hdr[fresh[t]].free
  /\ \A t \in Thread :
       /\ pc[t] = "map" => done[t] < PagesFor(req[t])
       /\ pc[t] = "append" => done[t] = PagesFor(req[t])
       /\ pc[t] \in {"map", "append"} => \A i \in 0 .. done[t] - 1 : Behind(i) \in mapped

(* In the chain m, the segments in use and the blocks of h belong together *)
(* one to one.                                                             *)
OwnedOnce(m, h) ==
  /\ \A t \in Thread : \A b \in h[t] :
       /\ b.seg \in DOMAIN m
       /\ ~m[b.seg].free
       /\ m[b.seg].size >= b.size
       /\ \A u \in Thread : \A d \in h[u] : d.seg = b.seg => u = t /\ d = b
  /\ \A s \in DOMAIN m : ~m[s].free => \E t \in Thread : \E b \in h[t] : b.seg = s

(* What holds as long as no task used the heap amid a kheap_expand.        *)
Undisturbed == Backed /\ OwnedOnce(hdr, held) /\ ExpandInv

IInv == TypeOK /\ ChainInv /\ (~raced => Undisturbed)

LEMMA RoundUpIs ==
  ASSUME NEW n \in Nat
  PROVE  RoundUp(n) \in Nat /\ n <= RoundUp(n) /\ RoundUp(n) <= n + 15
  BY DEF RoundUp

LEMMA PagesForIs ==
  ASSUME NEW n \in Nat
  PROVE  PagesFor(n) \in Nat \ {0} /\ n + Hdr <= PagesFor(n) * PageSize
  BY DEF PagesFor, PageSize, Hdr

LEMMA PageOfIs ==
  ASSUME NEW a \in Nat, NEW n \in Nat
  PROVE  /\ PageOf(a) \in Nat
         /\ PageOf(n * PageSize) = n
         /\ a < n * PageSize => PageOf(a) < n
  BY DEF PageOf, PageSize

-----------------------------------------------------------------------------
(* What the types of a chain's headers are, one by one.                    *)
LEMMA HeaderType ==
  ASSUME NEW m, NEW e, IsChain(m, e), NEW s \in DOMAIN m
  PROVE  /\ s \in Nat /\ m[s] \in Segment /\ m[s].size \in Nat /\ m[s].free \in BOOLEAN
         /\ m[s].next \in Nat \cup {NoSeg} /\ m[s].prev \in Nat \cup {NoSeg}
         /\ End(m, s) \in Nat /\ s + Hdr <= End(m, s) /\ End(m, s) <= e
         /\ m[s].next # NoSeg => m[s].next = End(m, s) /\ m[s].next \in DOMAIN m /\ m[m[s].next].prev = s
         /\ m[s].prev # NoSeg => m[s].prev \in DOMAIN m /\ m[m[s].prev].next = s
         /\ m[s].next = NoSeg => End(m, s) = e
         /\ \A r \in DOMAIN m : r < s => End(m, r) <= s
         /\ \A r \in DOMAIN m : s < r => End(m, s) <= r
  BY DEF IsChain, Tiled, Segment, End, Hdr, NoSeg

(* The chain k has one segment more than m: s ends at r, where it begins.  *)
Divides(m, s, r, k) ==
  /\ r \notin DOMAIN m
  /\ DOMAIN k = DOMAIN m \cup {r}
  /\ k[s].size = r - s - Hdr /\ k[s].next = r
  /\ k[r].next = m[s].next
  /\ \A x \in DOMAIN m \ {s} :
       k[x].size = m[x].size /\ k[x].next = m[x].next /\ k[x].free = m[x].free

(* kmalloc's cut: the part behind r becomes a free segment of its own.     *)
LEMMA SplitChain ==
  ASSUME NEW m, NEW e, IsChain(m, e), NEW s \in DOMAIN m,
         NEW r \in Nat, s + Hdr <= r, r + Hdr <= End(m, s)
  PROVE  IsChain(Split(m, s, r), e) /\ Divides(m, s, r, Split(m, s, r)) /\ Split(m, s, r)[r].free
  <1> DEFINE k == Split(m, s, r)
  <1>0. /\ s \in Nat /\ m[s] \in Segment /\ m[s].size \in Nat
        /\ End(m, s) \in Nat /\ End(m, s) = s + Hdr + m[s].size
    BY HeaderType DEF End
  <1>1. r \notin DOMAIN m /\ r # s /\ m[s].next # s /\ m[s].next # r
    BY HeaderType, <1>0 DEF Hdr, NoSeg
  <1>2. DOMAIN k = DOMAIN m \cup {r}
    BY DEF Split
  <1>3. /\ k[s] \in Segment
        /\ k[s].size = r - s - Hdr /\ k[s].next = r
        /\ k[s].prev = m[s].prev /\ k[s].free = m[s].free
    <2>1. k[s] = [m[s] EXCEPT !.size = r - s - Hdr, !.next = r]
      BY <1>1 DEF Split
    <2>2. r - s - Hdr \in Nat
      BY <1>0 DEF Hdr
    <2> HIDE DEF k
    <2> QED BY <1>0, <2>1, <2>2 DEF Segment
  <1>4. /\ k[r] \in Segment
        /\ k[r].size = m[s].size - (r - s) /\ k[r].next = m[s].next
        /\ k[r].prev = s /\ k[r].free
    <2>1. k[r] = Header(m[s].size - (r - s), m[s].next, s)
      BY <1>1 DEF Split
    <2>2. m[s].size - (r - s) \in Nat
      BY <1>0 DEF Hdr
    <2> HIDE DEF k
    <2> QED BY <1>0, <2>1, <2>2 DEF Segment, Header
  <1>5. ASSUME NEW x \in DOMAIN m, x # s
        PROVE  /\ k[x] \in Segment
               /\ k[x].size = m[x].size /\ k[x].next = m[x].next /\ k[x].free = m[x].free
               /\ k[x].prev = IF x = m[s].next THEN r ELSE m[x].prev
    <2>1. k[x] = IF x = m[s].next THEN [m[x] EXCEPT !.prev = r] ELSE m[x]
      BY <1>1, <1>5 DEF Split
    <2>2. m[x] \in Segment
      BY HeaderType
    <2> HIDE DEF k
    <2> QED BY <2>1, <2>2 DEF Segment
  <1>6. k \in [DOMAIN k -> Segment]
    BY <1>2, <1>3, <1>4, <1>5 DEF Split
  <1>7. /\ End(k, s) = r /\ End(k, r) = End(m, s)
        /\ \A x \in DOMAIN m : x # s => End(k, x) = End(m, x)
    BY <1>0, <1>3, <1>4, <1>5 DEF End, Hdr
  <1> HIDE DEF k
  <1>8. Tiled(k, e)
    <2>1. 0 \in DOMAIN k
      BY <1>2 DEF IsChain, Tiled
    <2>2. ASSUME NEW x \in DOMAIN k
          PROVE  /\ k[x].next = IF End(k, x) = e THEN NoSeg ELSE End(k, x)
                 /\ k[x].next # NoSeg => k[x].next \in DOMAIN k /\ k[k[x].next].prev = x
                 /\ k[x].prev = NoSeg <=> x = 0
                 /\ k[x].prev # NoSeg => k[x].prev \in DOMAIN k /\ k[k[x].prev].next = x
                 /\ End(k, x) <= e
      <3>1. CASE x = s
        <4>1. /\ m[s].prev = NoSeg <=> s = 0
              /\ m[s].prev # NoSeg => m[s].prev \in DOMAIN m /\ m[m[s].prev].next = s
          BY DEF IsChain, Tiled
        <4>2. m[s].prev # NoSeg => m[s].prev # s /\ k[m[s].prev].next = s
          BY <1>0, <1>5, <4>1 DEF IsChain, Tiled, NoSeg, Hdr
        <4>3. /\ k[s].next = r /\ r \in DOMAIN k /\ k[r].prev = s
              /\ k[s].prev # NoSeg => k[s].prev \in DOMAIN k
          BY <1>2, <1>3, <1>4, <4>1
        <4>4. End(k, s) = r /\ r < e /\ e \in Nat
          <5>1. End(m, s) <= e /\ e \in Nat
            BY HeaderType DEF IsChain
          <5> QED BY <1>0, <1>7, <5>1 DEF Hdr
        <4> QED BY <1>3, <3>1, <4>1, <4>2, <4>3, <4>4 DEF NoSeg
      <3>2. CASE x = r
        BY <1>0, <1>1, <1>2, <1>3, <1>4, <1>5, <1>7, <3>2, HeaderType DEF IsChain, Tiled, NoSeg, Hdr
      <3>3. CASE x \in DOMAIN m /\ x # s
        <4>1. /\ k[x].next = IF End(k, x) = e THEN NoSeg ELSE End(k, x)
              /\ End(k, x) <= e
          BY <1>5, <1>7, <3>3 DEF IsChain, Tiled
        <4>2. k[x].next # NoSeg => k[x].next \in DOMAIN k /\ k[k[x].next].prev = x
          BY <1>1, <1>2, <1>3, <1>5, <3>3, HeaderType
        <4>3. k[x].prev = NoSeg <=> x = 0
          BY <1>0, <1>1, <1>5, <3>3, HeaderType DEF IsChain, Tiled, NoSeg
        <4>4. k[x].prev # NoSeg => k[x].prev \in DOMAIN k /\ k[k[x].prev].next = x
          BY <1>0, <1>1, <1>2, <1>3, <1>4, <1>5, <3>3, HeaderType
        <4> QED BY <4>1, <4>2, <4>3, <4>4
      <3> QED BY <1>2, <3>1, <3>2, <3>3
    <2>3. ASSUME NEW x \in DOMAIN k, NEW y \in DOMAIN k, x < y
          PROVE  End(k, x) <= y
      BY <1>0, <1>2, <1>7, <2>3, HeaderType DEF Hdr
    <2> QED BY <2>1, <2>2, <2>3 DEF Tiled
  <1>9. \E l \in DOMAIN k : k[l].next = NoSeg
    BY <1>2, <1>4, <1>5 DEF IsChain
  <1>10. DOMAIN k \subseteq Nat /\ e \in Nat
    BY <1>2 DEF IsChain
  <1>11. IsChain(k, e)
    BY <1>6, <1>8, <1>9, <1>10 DEF IsChain
  <1>12. Divides(m, s, r, k)
    BY <1>1, <1>2, <1>3, <1>4, <1>5 DEF Divides
  <1> QED BY <1>4, <1>11, <1>12 DEF k

(* A segment is taken or freed: only its flag changes.                     *)
LEMMA MarkChain ==
  ASSUME NEW m, NEW e, IsChain(m, e), NEW s \in DOMAIN m, NEW b \in BOOLEAN
  PROVE  IsChain([m EXCEPT ![s].free = b], e)
  <1> DEFINE k == [m EXCEPT ![s].free = b]
  <1>1. DOMAIN k = DOMAIN m
    OBVIOUS
  <1>2. ASSUME NEW x \in DOMAIN m
        PROVE  /\ k[x] \in Segment
               /\ k[x].size = m[x].size /\ k[x].next = m[x].next /\ k[x].prev = m[x].prev
    <2>1. k[x] = IF x = s THEN [m[s] EXCEPT !.free = b] ELSE m[x]
      BY DEF IsChain
    <2> HIDE DEF k
    <2> QED BY <2>1, HeaderType DEF Segment
  <1>3. k \in [DOMAIN k -> Segment]
    BY <1>2
  <1> HIDE DEF k
  <1>4. \A x \in DOMAIN m : End(k, x) = End(m, x)
    BY <1>2 DEF End
  <1>5. Tiled(k, e)
    <2>1. 0 \in DOMAIN k
      BY <1>1 DEF IsChain, Tiled
    <2>2. ASSUME NEW x \in DOMAIN k
          PROVE  /\ k[x].next = IF End(k, x) = e THEN NoSeg ELSE End(k, x)
                 /\ k[x].next # NoSeg => k[x].next \in DOMAIN k /\ k[k[x].next].prev = x
                 /\ k[x].prev = NoSeg <=> x = 0
                 /\ k[x].prev # NoSeg => k[x].prev \in DOMAIN k /\ k[k[x].prev].next = x
                 /\ End(k, x) <= e
      BY <1>1, <1>2, <1>4 DEF IsChain, Tiled
    <2>3. \A x, y \in DOMAIN k : x < y => End(k, x) <= y
      BY <1>1, <1>4 DEF IsChain, Tiled
    <2> QED BY <2>1, <2>2, <2>3 DEF Tiled
  <1> QED BY <1>1, <1>2, <1>3, <1>5 DEF IsChain, k

(* The chain k has one segment more than m: a free one at its end, e.      *)
Extended(m, e, k) ==
  /\ e \notin DOMAIN m
  /\ DOMAIN k = DOMAIN m \cup {e}
  /\ k[e].free /\ k[e].next = NoSeg
  /\ \A x \in DOMAIN m : /\ k[x].free = m[x].free /\ k[x].size = m[x].size
                         /\ k[x].next = IF m[x].next = NoSeg THEN e ELSE m[x].next

(* kheap_expand appends a segment that begins where the heap ended.        *)
LEMMA AppendChain ==
  ASSUME NEW m, NEW e, IsChain(m, e), NEW n \in Nat, Hdr <= n
  PROVE  IsChain(Chain(m, e, n), e + n) /\ Extended(m, e, Chain(m, e, n))
  <1> DEFINE k == Chain(m, e, n)
             l == CHOOSE x \in DOMAIN m : m[x].next = NoSeg
  <1>0. e \in Nat /\ l \in DOMAIN m /\ m[l].next = NoSeg
    BY DEF IsChain
  <1> HIDE DEF l
  <1>1. e \notin DOMAIN m
    BY <1>0, HeaderType DEF Hdr
  <1>2. \A x \in DOMAIN m : m[x].next = NoSeg => x = l
    <2> SUFFICES ASSUME NEW x \in DOMAIN m, m[x].next = NoSeg, x # l PROVE FALSE
      OBVIOUS
    <2>1. x \in Nat /\ l \in Nat /\ End(m, x) = e /\ End(m, l) = e
      BY <1>0, HeaderType
    <2>2. x < l => e <= l
      BY <1>0, <2>1, HeaderType
    <2>3. l < x => e <= x
      BY <1>0, <2>1, HeaderType
    <2>4. x + Hdr <= e /\ l + Hdr <= e
      BY <1>0, <2>1, HeaderType
    <2> QED BY <1>0, <2>1, <2>2, <2>3, <2>4 DEF Hdr
  <1>3. DOMAIN k = DOMAIN m \cup {e}
    BY DEF Chain
  <1>4. k[e] = Header(n - Hdr, NoSeg, l)
    BY DEF Chain, l
  <1>5. ASSUME NEW x \in DOMAIN m
        PROVE  /\ k[x] \in Segment
               /\ k[x].size = m[x].size /\ k[x].prev = m[x].prev /\ k[x].free = m[x].free
               /\ k[x].next = IF m[x].next = NoSeg THEN e ELSE m[x].next
    <2>1. k[x] = IF m[x].next = NoSeg THEN [m[x] EXCEPT !.next = e] ELSE m[x]
      BY <1>1 DEF Chain
    <2> HIDE DEF k
    <2> QED BY <1>0, <2>1, HeaderType DEF Segment
  <1>6. k \in [DOMAIN k -> Segment]
    <2>1. n - Hdr \in Nat /\ l \in Nat
      BY <1>0, HeaderType DEF Hdr
    <2>2. k[e] \in Segment
      BY <1>4, <2>1 DEF Segment, Header
    <2> QED BY <1>3, <1>5, <2>2 DEF Chain
  <1>7. /\ k[e].size = n - Hdr /\ k[e].next = NoSeg /\ k[e].prev = l /\ k[e].free
    BY <1>4 DEF Header
  <1> HIDE DEF k
  <1>8. End(k, e) = e + n /\ \A x \in DOMAIN m : End(k, x) = End(m, x)
    BY <1>0, <1>5, <1>7 DEF End, Hdr
  <1>9. Tiled(k, e + n)
    <2>1. 0 \in DOMAIN k
      BY <1>3 DEF IsChain, Tiled
    <2>2. ASSUME NEW x \in DOMAIN k
          PROVE  /\ k[x].next = IF End(k, x) = e + n THEN NoSeg ELSE End(k, x)
                 /\ k[x].next # NoSeg => k[x].next \in DOMAIN k /\ k[k[x].next].prev = x
                 /\ k[x].prev = NoSeg <=> x = 0
                 /\ k[x].prev # NoSeg => k[x].prev \in DOMAIN k /\ k[k[x].prev].next = x
                 /\ End(k, x) <= e + n
      <3>1. CASE x = e
        <4>1. e # 0 /\ l # NoSeg
          BY <1>0, <1>1, HeaderType DEF IsChain, Tiled, NoSeg
        <4> QED BY <1>0, <1>3, <1>5, <1>7, <1>8, <3>1, <4>1
      <3>2. CASE x = l
        <4>1. End(k, x) = e /\ k[x].next = e
          BY <1>0, <1>5, <1>8, <3>2, HeaderType
        <4>2. k[x].prev # NoSeg => m[x].prev \in DOMAIN m /\ m[m[x].prev].next = x
          BY <1>0, <1>5, <3>2, HeaderType
        <4>3. k[x].prev = NoSeg <=> x = 0
          BY <1>0, <1>5, <3>2 DEF IsChain, Tiled
        <4>4. l # NoSeg
          BY <1>0, HeaderType DEF NoSeg
        <4> QED BY <1>0, <1>3, <1>5, <1>7, <3>2, <4>1, <4>2, <4>3, <4>4 DEF Hdr, NoSeg
      <3>3. CASE x \in DOMAIN m /\ x # l
        <4>1. m[x].next # NoSeg /\ m[x].next = End(m, x) /\ m[x].next \in DOMAIN m
              /\ m[m[x].next].prev = x
          BY <1>2, <3>3, HeaderType
        <4>2. End(m, x) \in Nat /\ End(m, x) <= e
          BY <3>3, HeaderType
        <4>3. k[x].prev = NoSeg <=> x = 0
          BY <1>5, <3>3 DEF IsChain, Tiled
        <4>4. k[x].prev # NoSeg => m[x].prev \in DOMAIN m /\ m[m[x].prev].next = x
          BY <1>5, <3>3, HeaderType
        <4>5. x # NoSeg
          BY <3>3, HeaderType DEF NoSeg
        <4> QED BY <1>0, <1>3, <1>5, <1>8, <3>3, <4>1, <4>2, <4>3, <4>4, <4>5 DEF Hdr
      <3> QED BY <1>3, <3>1, <3>2, <3>3
    <2>3. ASSUME NEW x \in DOMAIN k, NEW y \in DOMAIN k, x < y
          PROVE  End(k, x) <= y
      BY <1>0, <1>3, <1>8, <2>3, HeaderType DEF Hdr
    <2> QED BY <2>1, <2>2, <2>3 DEF Tiled
  <1>10. DOMAIN k \subseteq Nat /\ e + n \in Nat
    BY <1>0, <1>3 DEF IsChain
  <1>11. IsChain(k, e + n)
    BY <1>3, <1>6, <1>7, <1>9, <1>10 DEF IsChain
  <1>12. Extended(m, e, k)
    BY <1>1, <1>3, <1>5, <1>7 DEF Extended
  <1> QED BY <1>11, <1>12 DEF k

(* Of the chain m, k lacks the segment behind s; the others stay.          *)
Swallows(m, s, k) ==
  /\ m[s].next # s
  /\ DOMAIN k = DOMAIN m \ {m[s].next}
  /\ k[s].next = m[m[s].next].next
  /\ \A x \in DOMAIN k : /\ k[x].free = m[x].free
                         /\ x # s => k[x].size = m[x].size /\ k[x].next = m[x].next

(* A segment absorbs the one behind it.                                    *)
LEMMA AbsorbChain ==
  ASSUME NEW m, NEW e, IsChain(m, e), NEW s \in DOMAIN m, m[s].next # NoSeg
  PROVE  IsChain(Absorb(m, s), e) /\ Swallows(m, s, Absorb(m, s))
  <1> DEFINE k == Absorb(m, s)
             r == m[s].next
             q == m[r].next
  <1>0. /\ s \in Nat /\ r \in DOMAIN m /\ r \in Nat /\ r = End(m, s) /\ m[r].prev = s
        /\ m[s] \in Segment /\ m[r] \in Segment /\ m[s].size \in Nat /\ m[r].size \in Nat
        /\ End(m, s) = s + Hdr + m[s].size /\ End(m, r) = r + Hdr + m[r].size
        /\ q \in Nat \cup {NoSeg}
    BY HeaderType DEF End
  <1>1. q # NoSeg => q \in DOMAIN m /\ q = End(m, r) /\ m[q].prev = r
    BY <1>0, HeaderType
  <1>2. r # s /\ q # s /\ q # r /\ s < r
    BY <1>0, <1>1 DEF Hdr, NoSeg
  <1>3. DOMAIN k = DOMAIN m \ {r}
    BY DEF Absorb
  <1>4. k[s] = [m[s] EXCEPT !.size = @ + m[r].size + Hdr, !.next = q]
    BY <1>0, <1>2 DEF Absorb
  <1>5. /\ k[s] \in Segment /\ k[s].size = m[s].size + m[r].size + Hdr
        /\ k[s].next = q /\ k[s].prev = m[s].prev /\ k[s].free = m[s].free
    <2> DEFINE n == m[s].size + m[r].size + Hdr
    <2>1. k[s] = [m[s] EXCEPT !.size = n, !.next = q]
      BY <1>0, <1>4 DEF Segment
    <2>2. n \in Nat
      BY <1>0 DEF Hdr
    <2> HIDE DEF k, r, q, n
    <2>3. k[s] \in Segment /\ k[s].size = n /\ k[s].next = q /\ k[s].prev = m[s].prev
          /\ k[s].free = m[s].free
      BY <1>0, <2>1, <2>2 DEF Segment
    <2> QED BY <2>3 DEF n
  <1>6. ASSUME NEW x \in DOMAIN m \ {r}, x # s
        PROVE  /\ k[x] \in Segment
               /\ k[x].size = m[x].size /\ k[x].next = m[x].next /\ k[x].free = m[x].free
               /\ k[x].prev = IF x = q THEN s ELSE m[x].prev
    <2>1. k[x] = IF x = q THEN [m[x] EXCEPT !.prev = s] ELSE m[x]
      BY <1>6 DEF Absorb
    <2> HIDE DEF k, r, q
    <2> QED BY <1>0, <2>1, HeaderType DEF Segment
  <1>7. k \in [DOMAIN k -> Segment]
    BY <1>3, <1>5, <1>6 DEF Absorb
  <1>8. End(k, s) = End(m, r) /\ \A x \in DOMAIN m \ {r} : x # s => End(k, x) = End(m, x)
    <2> HIDE DEF k, r, q
    <2> QED BY <1>0, <1>5, <1>6 DEF End, Hdr
  <1> HIDE DEF k, r, q
  <1>9. ASSUME NEW x \in DOMAIN m \ {r}, x # s PROVE m[x].next # r
    <2>1. m[r].prev = s /\ (m[x].next # NoSeg => m[m[x].next].prev = x)
      BY <1>0, HeaderType
    <2>2. r # NoSeg
      BY <1>0 DEF NoSeg
    <2> QED BY <1>9, <2>1, <2>2
  <1>10. Tiled(k, e)
    <2>1. 0 \in DOMAIN k
      BY <1>0, <1>2, <1>3 DEF IsChain, Tiled
    <2>2. ASSUME NEW x \in DOMAIN k
          PROVE  /\ k[x].next = IF End(k, x) = e THEN NoSeg ELSE End(k, x)
                 /\ k[x].next # NoSeg => k[x].next \in DOMAIN k /\ k[k[x].next].prev = x
                 /\ k[x].prev = NoSeg <=> x = 0
                 /\ k[x].prev # NoSeg => k[x].prev \in DOMAIN k /\ k[k[x].prev].next = x
                 /\ End(k, x) <= e
      <3>1. CASE x = s
        <4>1. k[x].next = (IF End(k, x) = e THEN NoSeg ELSE End(k, x)) /\ End(k, x) <= e
          BY <1>0, <1>5, <1>8, <3>1 DEF IsChain, Tiled, q
        <4>2. k[x].next # NoSeg => k[x].next \in DOMAIN k /\ k[k[x].next].prev = x
          BY <1>1, <1>2, <1>3, <1>5, <1>6, <3>1
        <4>3. k[x].prev = NoSeg <=> x = 0
          BY <1>5, <3>1 DEF IsChain, Tiled
        <4>4. k[x].prev # NoSeg => k[x].prev \in DOMAIN m /\ m[k[x].prev].next = x /\ k[x].prev # s
          BY <1>2, <1>5, <3>1, HeaderType DEF r
        <4>5. k[x].prev # NoSeg => k[x].prev # r
          BY <1>2, <3>1, <4>4 DEF q
        <4> QED BY <1>3, <1>6, <4>1, <4>2, <4>3, <4>4, <4>5
      <3>2. CASE x # s
        <4>0. x \in DOMAIN m \ {r}
          BY <1>3
        <4>1. k[x].next = (IF End(k, x) = e THEN NoSeg ELSE End(k, x)) /\ End(k, x) <= e
          BY <1>6, <1>8, <3>2, <4>0 DEF IsChain, Tiled
        <4>2. k[x].next # NoSeg => /\ k[x].next \in DOMAIN m /\ m[k[x].next].prev = x
                                   /\ k[x].next # r /\ k[x].next # q
          BY <1>0, <1>1, <1>6, <1>9, <3>2, <4>0, HeaderType
        <4>3. k[x].prev = NoSeg <=> x = 0
          <5>1. s # NoSeg /\ (x = q => x # 0)
            BY <1>0, <1>1, <1>2, <4>0 DEF NoSeg, Hdr
          <5>2. m[x].prev = NoSeg <=> x = 0
            BY <4>0 DEF IsChain, Tiled
          <5> QED BY <1>6, <3>2, <4>0, <5>1, <5>2
        <4>4. k[x].prev # NoSeg => k[x].prev \in DOMAIN k /\ k[k[x].prev].next = x
          <5>1. CASE x = q
            BY <1>2, <1>3, <1>5, <1>6, <3>2, <4>0, <5>1, HeaderType
          <5>2. CASE x # q
            <6>1. k[x].prev = m[x].prev
              BY <1>6, <3>2, <4>0, <5>2
            <6>2. m[x].prev # NoSeg => m[x].prev \in DOMAIN m /\ m[m[x].prev].next = x
              BY <4>0, HeaderType
            <6>3. m[x].prev # s /\ m[x].prev # r
              BY <1>0, <3>2, <4>0, <5>2, <6>2 DEF r, q, NoSeg
            <6> QED BY <1>3, <1>6, <6>1, <6>2, <6>3
          <5> QED BY <5>1, <5>2
        <4>5. k[x].next # NoSeg => k[k[x].next].prev = x
          BY <1>0, <1>5, <1>6, <3>2, <4>2
        <4> QED BY <1>3, <4>1, <4>2, <4>3, <4>4, <4>5
      <3> QED BY <3>1, <3>2
    <2>3. ASSUME NEW x \in DOMAIN k, NEW y \in DOMAIN k, x < y
          PROVE  End(k, x) <= y
      <3>1. x \in DOMAIN m /\ y \in DOMAIN m /\ x # r /\ y # r
        BY <1>3
      <3>2. CASE x # s
        BY <1>8, <2>3, <3>1, <3>2, HeaderType
      <3>3. CASE x = s
        <4>1. r <= y
          BY <1>0, <2>3, <3>1, <3>3, HeaderType
        <4>2. r < y
          BY <1>0, <3>1, <4>1, HeaderType
        <4> QED BY <1>0, <1>8, <3>1, <3>3, <4>2, HeaderType
      <3> QED BY <3>2, <3>3
    <2> QED BY <2>1, <2>2, <2>3 DEF Tiled
  <1>11. \E l \in DOMAIN k : k[l].next = NoSeg
    <2>1. PICK l \in DOMAIN m : m[l].next = NoSeg
      BY DEF IsChain
    <2>2. CASE l = r
      BY <1>0, <1>2, <1>3, <1>5, <2>1, <2>2 DEF q
    <2>3. CASE l # r
      BY <1>0, <1>3, <1>6, <2>1, <2>3 DEF r, NoSeg
    <2> QED BY <2>2, <2>3
  <1>12. DOMAIN k \subseteq Nat /\ e \in Nat
    BY <1>3 DEF IsChain
  <1>13. IsChain(k, e)
    BY <1>7, <1>10, <1>11, <1>12 DEF IsChain
  <1>14. Swallows(m, s, k)
    BY <1>2, <1>3, <1>5, <1>6 DEF Swallows, r, q
  <1> QED BY <1>13, <1>14 DEF k

-----------------------------------------------------------------------------
(* What kfree leaves of the chain m when it frees segment s.               *)
Coalesce(m, s) == LET f == [m EXCEPT ![s].free = TRUE]
                  IN  MergeLeft(MergeRight(f, s), s)

(* Free segments are neighbours as T allows, whatever s and what follows.  *)
ApartBut(m, T, s) ==
  \A x \in DOMAIN m : x # s /\ m[x].next # s /\ IsFree(m, x) /\ IsFree(m, m[x].next)
                        => m[x].next \in T

(* One step of the merging: the chain stays one, and segments in use stay. *)
Keeps(m, k) ==
  /\ DOMAIN k \subseteq DOMAIN m
  /\ \A x \in DOMAIN m : ~m[x].free => x \in DOMAIN k /\ ~k[x].free /\ k[x].size = m[x].size
  /\ \A x \in DOMAIN k : ~k[x].free => ~m[x].free

LEMMA MergeRightChain ==
  ASSUME NEW m, NEW e, NEW T, IsChain(m, e), NEW s \in DOMAIN m, m[s].free, ApartBut(m, T, s)
  PROVE  LET k == MergeRight(m, s)
         IN  /\ IsChain(k, e) /\ Keeps(m, k) /\ s \in DOMAIN k /\ k[s].free
             /\ ApartBut(k, T, s)
             /\ IsFree(k, k[s].next) => k[s].next \in T
  <1> DEFINE k == MergeRight(m, s)
             r == m[s].next
  <1>1. CASE ~IsFree(m, r)
    <2>1. k = m
      BY <1>1 DEF MergeRight
    <2> HIDE DEF k
    <2> QED BY <1>1, <2>1 DEF Keeps, k
  <1>2. CASE IsFree(m, r)
    <2>1. k = Absorb(m, s) /\ r # NoSeg /\ m[r].free /\ r \in DOMAIN m
      BY <1>2, HeaderType DEF MergeRight, IsFree
    <2> HIDE DEF k
    <2>2. /\ IsChain(k, e) /\ r # s /\ DOMAIN k = DOMAIN m \ {r} /\ k[s].next = m[r].next
          /\ \A x \in DOMAIN k : /\ k[x].free = m[x].free
                                 /\ x # s => k[x].size = m[x].size /\ k[x].next = m[x].next
      <3>1. IsChain(k, e) /\ Swallows(m, s, k)
        BY <2>1, AbsorbChain
      <3> QED BY <3>1 DEF Swallows
    <2> HIDE DEF r
    <2>3. ASSUME NEW x \in DOMAIN k, IsFree(k, k[x].next)
          PROVE  IsFree(m, k[x].next)
      <3>1. k[x].next \in DOMAIN k
        BY <2>2, <2>3, HeaderType DEF IsFree
      <3> QED BY <2>2, <2>3, <3>1 DEF IsFree
    <2>4. ApartBut(k, T, s)
      BY <2>2, <2>3 DEF ApartBut, IsFree
    <2>5. IsFree(k, k[s].next) => k[s].next \in T
      <3>1. m[r].next # s
        <4>1. m[r].next = s => m[s].prev = r
          BY <2>1, HeaderType DEF NoSeg
        <4>2. m[s].prev = r => m[r].next = s /\ r < s
          BY <2>1, HeaderType DEF Hdr, NoSeg
        <4>3. s < r
          BY <2>1, HeaderType DEF r, Hdr
        <4> QED BY <2>1, <4>1, <4>2, <4>3, HeaderType
      <3>2. IsFree(m, r)
        BY <2>1 DEF IsFree
      <3> QED BY <2>1, <2>2, <2>3, <3>1, <3>2 DEF ApartBut
    <2>6. Keeps(m, k) /\ s \in DOMAIN k /\ k[s].free
      BY <2>1, <2>2 DEF Keeps
    <2> QED BY <2>2, <2>4, <2>5, <2>6 DEF k
  <1> QED BY <1>1, <1>2

LEMMA MergeLeftChain ==
  ASSUME NEW m, NEW e, NEW T, IsChain(m, e), NEW s \in DOMAIN m, m[s].free, ApartBut(m, T, s),
         IsFree(m, m[s].next) => m[s].next \in T
  PROVE  LET k == MergeLeft(m, s)
         IN  IsChain(k, e) /\ Keeps(m, k) /\ Apart(k, T)
  <1> DEFINE k == MergeLeft(m, s)
             p == m[s].prev
  <1>0. p # NoSeg => p \in DOMAIN m /\ m[p].next = s
    BY HeaderType
  <1>1. CASE ~IsFree(m, p)
    <2>1. k = m
      BY <1>1 DEF MergeLeft
    <2>2. ASSUME NEW x \in DOMAIN m, m[x].next = s PROVE x = p
      BY <2>2, HeaderType DEF NoSeg
    <2> HIDE DEF p
    <2>3. Apart(m, T)
      BY <1>1, <2>2 DEF Apart, ApartBut
    <2> HIDE DEF k
    <2> QED BY <2>1, <2>3 DEF Keeps, k
  <1>2. CASE IsFree(m, p)
    <2>1. k = Absorb(m, p) /\ p \in DOMAIN m /\ m[p].next = s /\ m[p].free /\ s # NoSeg
      BY <1>0, <1>2, HeaderType DEF MergeLeft, IsFree, NoSeg
    <2> HIDE DEF k, p
    <2>2. /\ IsChain(k, e) /\ p # s /\ DOMAIN k = DOMAIN m \ {s} /\ k[p].next = m[s].next
          /\ \A x \in DOMAIN k : /\ k[x].free = m[x].free
                                 /\ x # p => k[x].size = m[x].size /\ k[x].next = m[x].next
      <3>1. IsChain(k, e) /\ Swallows(m, p, k)
        BY <2>1, AbsorbChain
      <3> QED BY <2>1, <3>1 DEF Swallows
    <2>3. ASSUME NEW x \in DOMAIN k, IsFree(k, k[x].next)
          PROVE  IsFree(m, k[x].next) /\ k[x].next # s
      <3>1. k[x].next \in DOMAIN k
        BY <2>2, <2>3, HeaderType DEF IsFree
      <3> QED BY <2>2, <2>3, <3>1 DEF IsFree
    <2>4. Apart(k, T)
      <3> SUFFICES ASSUME NEW x \in DOMAIN k, IsFree(k, x), IsFree(k, k[x].next)
                   PROVE  k[x].next \in T
        BY DEF Apart
      <3>1. CASE x = p
        BY <2>2, <2>3, <3>1
      <3>2. CASE x # p
        BY <2>2, <2>3, <3>2 DEF ApartBut, IsFree
      <3> QED BY <3>1, <3>2
    <2>5. Keeps(m, k)
      BY <2>1, <2>2 DEF Keeps
    <2> QED BY <2>2, <2>4, <2>5 DEF k
  <1> QED BY <1>1, <1>2

(* Of the segments of m in use, k lacks s only; the others are unchanged.  *)
GivesUp(m, s, k) ==
  /\ DOMAIN k \subseteq DOMAIN m
  /\ \A x \in DOMAIN m \ {s} :
       ~m[x].free => x \in DOMAIN k /\ ~k[x].free /\ k[x].size = m[x].size
  /\ \A x \in DOMAIN k : ~k[x].free => x # s /\ ~m[x].free

(* kfree of a segment: the chain stays one, no two free segments become    *)
(* neighbours, and of those in use only s goes.                            *)
LEMMA CoalesceChain ==
  ASSUME NEW m, NEW e, NEW T, IsChain(m, e), Apart(m, T), NEW s \in DOMAIN m
  PROVE  /\ IsChain(Coalesce(m, s), e) /\ Apart(Coalesce(m, s), T \ {s})
         /\ GivesUp(m, s, Coalesce(m, s))
  <1> DEFINE f == [m EXCEPT ![s].free = TRUE]
             g == MergeRight(f, s)
             k == MergeLeft(g, s)
  <1>1. IsChain(f, e)
    BY MarkChain
  <1>2. /\ DOMAIN f = DOMAIN m /\ f[s].free
        /\ \A x \in DOMAIN m : /\ x # s => f[x] = m[x]
                               /\ f[x].next = m[x].next
    <2>1. m \in [DOMAIN m -> Segment]
      BY DEF IsChain
    <2> QED BY <2>1 DEF Segment
  <1> HIDE DEF f
  <1>3. ApartBut(f, T \ {s}, s)
    <2> SUFFICES ASSUME NEW x \in DOMAIN m, x # s, f[x].next # s, IsFree(f, x), IsFree(f, f[x].next)
                 PROVE  f[x].next \in T
      BY <1>2 DEF ApartBut
    <2>1. m[x].next # NoSeg /\ m[x].next \in DOMAIN m
      BY <1>2, HeaderType DEF IsFree
    <2> QED BY <1>2, <2>1 DEF Apart, IsFree
  <1>4. /\ IsChain(g, e) /\ Keeps(f, g) /\ s \in DOMAIN g /\ g[s].free
        /\ ApartBut(g, T \ {s}, s)
        /\ IsFree(g, g[s].next) => g[s].next \in T \ {s}
    BY <1>1, <1>2, <1>3, MergeRightChain
  <1> HIDE DEF g
  <1>5. IsChain(k, e) /\ Keeps(g, k) /\ Apart(k, T \ {s})
    BY <1>4, MergeLeftChain
  <1>6. Coalesce(m, s) = k
    BY DEF Coalesce, f, g
  <1> HIDE DEF k
  <1>7. DOMAIN k \subseteq DOMAIN m
    BY <1>2, <1>4, <1>5 DEF Keeps
  <1>8. \A x \in DOMAIN m \ {s} :
          ~m[x].free => x \in DOMAIN k /\ ~k[x].free /\ k[x].size = m[x].size
    BY <1>2, <1>4, <1>5 DEF Keeps
  <1>9. \A x \in DOMAIN k : ~k[x].free => x # s /\ ~m[x].free
    BY <1>2, <1>4, <1>5 DEF Keeps
  <1>10. GivesUp(m, s, k)
    BY <1>7, <1>8, <1>9 DEF GivesUp
  <1> QED BY <1>5, <1>6, <1>10

(* Of the free segments of m, s is in use in k, with room for n bytes; the *)
(* others are as they were, and what k has besides is free.                *)
HandsOut(m, s, n, k) ==
  /\ DOMAIN m \subseteq DOMAIN k
  /\ ~k[s].free /\ n <= k[s].size
  /\ \A x \in DOMAIN m \ {s} : k[x].free = m[x].free /\ k[x].size = m[x].size
  /\ \A x \in DOMAIN k \ DOMAIN m : k[x].free

LEMMA UseChain ==
  ASSUME NEW m, NEW e, NEW T, IsChain(m, e), Apart(m, T), NEW s \in DOMAIN m,
         NEW n \in Nat, n <= m[s].size
  PROVE  /\ IsChain(Use(m, s), e) /\ Apart(Use(m, s), T) /\ HandsOut(m, s, n, Use(m, s))
         /\ DOMAIN Use(m, s) = DOMAIN m
  <1> DEFINE k == Use(m, s)
  <1>1. IsChain(k, e)
    BY MarkChain DEF Use
  <1>2. /\ DOMAIN k = DOMAIN m
        /\ \A x \in DOMAIN m : /\ k[x].next = m[x].next /\ k[x].size = m[x].size
                               /\ k[x].free = IF x = s THEN FALSE ELSE m[x].free
    <2>1. m \in [DOMAIN m -> Segment]
      BY DEF IsChain
    <2> QED BY <2>1 DEF Use, Segment
  <1> HIDE DEF k
  <1>3. Apart(k, T)
    <2> SUFFICES ASSUME NEW x \in DOMAIN m, IsFree(k, x), IsFree(k, k[x].next)
                 PROVE  m[x].next \in T
      BY <1>2 DEF Apart
    <2>1. k[x].next = m[x].next /\ k[x].next # NoSeg
      BY <1>2 DEF IsFree
    <2>2. m[x].next \in DOMAIN m
      BY <2>1, HeaderType
    <2>3. IsFree(m, x) /\ IsFree(m, m[x].next)
      BY <1>2, <2>1, <2>2 DEF IsFree
    <2> QED BY <2>3 DEF Apart
  <1>4. HandsOut(m, s, n, k)
    BY <1>2 DEF HandsOut
  <1> QED BY <1>1, <1>2, <1>3, <1>4 DEF k

LEMMA SplitUseChain ==
  ASSUME NEW m, NEW e, NEW T, IsChain(m, e), Apart(m, T), NEW s \in DOMAIN m, m[s].free,
         NEW n \in Nat, m[s].size > n + Hdr + 16
  PROVE  LET r == Cut(s, n)
             k == Use(Split(m, s, r), s)
         IN  /\ IsChain(k, e) /\ Apart(k, T) /\ HandsOut(m, s, n, k)
             /\ DOMAIN k = DOMAIN m \cup {r} /\ r \in Nat /\ r < e
  <1> DEFINE r == Cut(s, n)
             f == Split(m, s, r)
             k == Use(f, s)
  <1>1. /\ s \in Nat /\ m[s].size \in Nat /\ End(m, s) = s + Hdr + m[s].size /\ End(m, s) \in Nat
        /\ e \in Nat /\ End(m, s) <= e
    BY HeaderType DEF End, IsChain
  <1>2. r \in Nat /\ s + Hdr + n <= r /\ r + Hdr <= End(m, s)
    <2>1. /\ RoundUp(Hdr + n) \in Nat /\ Hdr + n <= RoundUp(Hdr + n)
          /\ RoundUp(Hdr + n) <= Hdr + n + 15
      BY RoundUpIs DEF Hdr
    <2> QED BY <1>1, <2>1 DEF Cut, Hdr
  <1>3. r < e /\ s + Hdr <= r
    BY <1>1, <1>2 DEF Hdr
  <1> HIDE DEF r
  <1>4. IsChain(f, e) /\ Divides(m, s, r, f) /\ f[r].free
    BY <1>2, <1>3, SplitChain
  <1> HIDE DEF f
  <1>5. s \in DOMAIN f /\ f[s].size = r - s - Hdr /\ f[s].next = r
    BY <1>4 DEF Divides
  <1>6. /\ IsChain(k, e) /\ DOMAIN k = DOMAIN m \cup {r} /\ r \notin DOMAIN m
        /\ \A x \in DOMAIN f : /\ k[x].next = f[x].next /\ k[x].size = f[x].size
                               /\ k[x].free = IF x = s THEN FALSE ELSE f[x].free
    <2>1. f \in [DOMAIN f -> Segment]
      BY <1>4 DEF IsChain
    <2>2. \A x \in DOMAIN f : /\ k[x].next = f[x].next /\ k[x].size = f[x].size
                              /\ k[x].free = IF x = s THEN FALSE ELSE f[x].free
      BY <2>1 DEF Use, Segment
    <2>3. DOMAIN k = DOMAIN f
      BY DEF Use
    <2>4. IsChain(k, e)
      BY <1>4, <1>5, MarkChain DEF Use
    <2> QED BY <1>4, <2>2, <2>3, <2>4 DEF Divides
  <1> HIDE DEF k
  <1>7. Apart(k, T)
    <2> SUFFICES ASSUME NEW x \in DOMAIN k, IsFree(k, x), IsFree(k, k[x].next)
                 PROVE  k[x].next \in T
      BY DEF Apart
    <2>1. k[x].next \in DOMAIN k /\ x # s /\ k[x].next # s
      BY <1>4, <1>5, <1>6, HeaderType DEF IsFree, Divides
    <2>2. CASE x = r
      <3>1. k[x].next = m[s].next /\ m[s].next # NoSeg
        BY <1>4, <1>6, <2>1, <2>2 DEF Divides, IsFree
      <3>2. m[s].next \in DOMAIN m
        BY <3>1, HeaderType
      <3>3. IsFree(m, s) /\ IsFree(m, m[s].next)
        <4>1. m[s].next \in DOMAIN f /\ k[m[s].next].free /\ m[s].next # s /\ m[s].next # r
          BY <1>4, <1>6, <2>1, <3>1, <3>2 DEF Divides, IsFree
        <4>2. f[m[s].next].free = m[m[s].next].free
          BY <1>4, <3>2, <4>1 DEF Divides
        <4>3. m[m[s].next].free
          BY <1>6, <4>1, <4>2
        <4> QED BY <1>1, <3>1, <4>3 DEF IsFree, NoSeg
      <3> QED BY <3>1, <3>3 DEF Apart
    <2>3. CASE x # r
      <3>1. x \in DOMAIN m /\ k[x].next = m[x].next /\ m[x].free /\ m[x].next # NoSeg
        BY <1>4, <1>6, <2>1, <2>3 DEF Divides, IsFree
      <3>2. m[x].next \in DOMAIN m
        BY <3>1, HeaderType
      <3>3. IsFree(m, x) /\ IsFree(m, m[x].next)
        <4>1. m[x].next \in DOMAIN f /\ k[m[x].next].free /\ m[x].next # s /\ m[x].next # r
          BY <1>4, <1>6, <2>1, <3>1, <3>2 DEF Divides, IsFree
        <4>2. f[m[x].next].free = m[m[x].next].free
          BY <1>4, <3>2, <4>1 DEF Divides
        <4>3. m[m[x].next].free
          BY <1>6, <4>1, <4>2
        <4>4. x \in Nat
          BY <3>1, HeaderType
        <4> QED BY <3>1, <4>3, <4>4 DEF IsFree, NoSeg
      <3> QED BY <3>1, <3>3 DEF Apart
    <2> QED BY <2>2, <2>3
  <1>8. HandsOut(m, s, n, k)
    <2>1. n <= r - s - Hdr
      BY <1>1, <1>2 DEF Hdr
    <2> QED BY <1>4, <1>5, <1>6, <2>1 DEF HandsOut, Divides
  <1> QED BY <1>2, <1>3, <1>6, <1>7, <1>8 DEF k, f, r

-----------------------------------------------------------------------------
(* kmalloc hands out a free segment: who owns what stays unambiguous.      *)
LEMMA TakeOwned ==
  ASSUME NEW m, NEW h \in [Thread -> SUBSET Block], OwnedOnce(m, h),
         NEW s \in DOMAIN m, s \in Nat, m[s].free, NEW n \in Nat, NEW k, HandsOut(m, s, n, k),
         m \in [DOMAIN m -> Segment], k \in [DOMAIN k -> Segment],
         NEW t \in Thread
  PROVE  OwnedOnce(k, [h EXCEPT ![t] = @ \cup {[seg |-> s, size |-> n]}])
  <1> DEFINE b == [seg |-> s, size |-> n]
             g == [h EXCEPT ![t] = @ \cup {b}]
  <1>1. b.seg = s /\ b.size = n
    OBVIOUS
  <1> HIDE DEF b
  <1>2. /\ g[t] = h[t] \cup {b}
        /\ \A u \in Thread : u # t => g[u] = h[u]
    OBVIOUS
  <1> HIDE DEF g
  <1>3. \A u \in Thread : \A d \in h[u] : d.seg \in DOMAIN m /\ d.seg # s
    BY DEF OwnedOnce
  <1>4. s \in DOMAIN k /\ ~k[s].free /\ k[s].size >= n
    <2>1. s \in DOMAIN k /\ ~k[s].free /\ n <= k[s].size
      BY DEF HandsOut
    <2>2. k[s].size \in Nat
      BY <2>1 DEF Segment
    <2> QED BY <2>1, <2>2
  <1>5. \A u \in Thread : \A d \in h[u] :
          d.seg \in DOMAIN k /\ ~k[d.seg].free /\ k[d.seg].size >= d.size
    BY <1>3 DEF OwnedOnce, HandsOut
  <1>6. ASSUME NEW u \in Thread, NEW d \in g[u]
        PROVE  /\ d.seg \in DOMAIN k /\ ~k[d.seg].free /\ k[d.seg].size >= d.size
               /\ \A v \in Thread : \A c \in g[v] : c.seg = d.seg => v = u /\ c = d
    <2>1. CASE d \in h[u]
      <3>1. \A v \in Thread : \A c \in h[v] : c.seg = d.seg => v = u /\ c = d
        BY <2>1 DEF OwnedOnce
      <3> QED BY <1>1, <1>2, <1>3, <1>5, <2>1, <3>1
    <2>2. CASE d \notin h[u]
      <3>1. u = t /\ d = b
        BY <1>2, <2>2
      <3> QED BY <1>1, <1>2, <1>3, <1>4, <3>1
    <2> QED BY <2>1, <2>2
  <1>7. ASSUME NEW x \in DOMAIN k, ~k[x].free
        PROVE  \E u \in Thread : \E d \in g[u] : d.seg = x
    <2>1. CASE x = s
      BY <1>1, <1>2, <2>1
    <2>2. CASE x # s
      <3>1. x \in DOMAIN m /\ ~m[x].free
        BY <1>7, <2>2 DEF HandsOut
      <3>2. PICK u \in Thread : \E d \in h[u] : d.seg = x
        BY <3>1 DEF OwnedOnce
      <3> QED BY <1>2, <3>2
    <2> QED BY <2>1, <2>2
  <1> QED BY <1>6, <1>7 DEF OwnedOnce, g, b

(* kfree takes a segment in use and the block it was for.                  *)
LEMMA FreeOwned ==
  ASSUME NEW m, NEW h \in [Thread -> SUBSET Block], OwnedOnce(m, h),
         NEW t \in Thread, NEW b \in h[t], NEW k, GivesUp(m, b.seg, k)
  PROVE  OwnedOnce(k, [h EXCEPT ![t] = @ \ {b}])
  <1> DEFINE g == [h EXCEPT ![t] = @ \ {b}]
  <1>1. /\ g[t] = h[t] \ {b}
        /\ \A u \in Thread : u # t => g[u] = h[u]
    OBVIOUS
  <1> HIDE DEF g
  <1>2. \A u \in Thread : \A d \in g[u] : d \in h[u] /\ d.seg # b.seg
    BY <1>1 DEF OwnedOnce
  <1>3. ASSUME NEW u \in Thread, NEW d \in g[u]
        PROVE  /\ d.seg \in DOMAIN k /\ ~k[d.seg].free /\ k[d.seg].size >= d.size
               /\ \A v \in Thread : \A c \in g[v] : c.seg = d.seg => v = u /\ c = d
    <2>1. d \in h[u] /\ d.seg # b.seg
      BY <1>2
    <2>2. d.seg \in DOMAIN m /\ ~m[d.seg].free /\ m[d.seg].size >= d.size
      BY <2>1 DEF OwnedOnce
    <2>3. \A v \in Thread : \A c \in g[v] : c.seg = d.seg => v = u /\ c = d
      BY <1>2, <2>1 DEF OwnedOnce
    <2> QED BY <2>1, <2>2, <2>3 DEF GivesUp
  <1>4. ASSUME NEW x \in DOMAIN k, ~k[x].free
        PROVE  \E u \in Thread : \E d \in g[u] : d.seg = x
    <2>1. x \in DOMAIN m /\ ~m[x].free /\ x # b.seg
      BY <1>4 DEF GivesUp
    <2>2. PICK u \in Thread : \E d \in h[u] : d.seg = x
      BY <2>1 DEF OwnedOnce
    <2> QED BY <1>1, <2>1, <2>2
  <1> QED BY <1>3, <1>4 DEF OwnedOnce, g

(* Freeing a segment that is free already changes no owner.                *)
LEMMA KeepOwned ==
  ASSUME NEW m, NEW h, OwnedOnce(m, h), NEW s, s \in DOMAIN m, m[s].free,
         NEW k, GivesUp(m, s, k)
  PROVE  OwnedOnce(k, h)
  <1>1. \A t \in Thread : \A b \in h[t] : b.seg \in DOMAIN m \ {s}
    BY DEF OwnedOnce
  <1>2. \A t \in Thread : \A b \in h[t] :
          b.seg \in DOMAIN k /\ ~k[b.seg].free /\ k[b.seg].size >= b.size
    BY <1>1 DEF OwnedOnce, GivesUp
  <1>3. \A x \in DOMAIN k : ~k[x].free => \E t \in Thread : \E b \in h[t] : b.seg = x
    BY DEF OwnedOnce, GivesUp
  <1> QED BY <1>2, <1>3 DEF OwnedOnce

(* Nor does a free segment appended to the chain.                          *)
LEMMA ExtendOwned ==
  ASSUME NEW m, NEW h, OwnedOnce(m, h), NEW e, NEW k, Extended(m, e, k)
  PROVE  OwnedOnce(k, h)
  <1>1. \A t \in Thread : \A b \in h[t] :
          b.seg \in DOMAIN k /\ ~k[b.seg].free /\ k[b.seg].size >= b.size
    BY DEF OwnedOnce, Extended
  <1>2. \A x \in DOMAIN k : ~k[x].free => \E t \in Thread : \E b \in h[t] : b.seg = x
    BY DEF OwnedOnce, Extended
  <1> QED BY <1>1, <1>2 DEF OwnedOnce

(* kfree of a header that a task holds or that kheap_expand has just made. *)
LEMMA KfreeStep ==
  ASSUME TypeOK, ChainInv, NEW s, NEW h, NEW f, Kfree(s, h, f)
  PROVE  /\ IsChain(hdr', heapEnd) /\ Apart(hdr', FreshOnes \ {s})
         /\ wiped' \subseteq Nat /\ wiped' \cap DOMAIN hdr' = {}
         /\ fault' \in {"none", "unmapped", "stale"}
         /\ s \in DOMAIN hdr => GivesUp(hdr, s, hdr') /\ fault' = fault
  <1>1. IsChain(hdr, heapEnd) /\ Apart(hdr, FreshOnes) /\ wiped \cap DOMAIN hdr = {}
    BY DEF ChainInv
  <1>2. CASE s \in DOMAIN hdr
    <2>1. /\ hdr' = Coalesce(hdr, s)
          /\ wiped' = (wiped \cup ({s} \ DOMAIN hdr')) \cap Wanted(h, f)
          /\ fault' = fault
      BY <1>1, <1>2 DEF Kfree, Coalesce, Freed
    <2>2. IsChain(hdr', heapEnd) /\ Apart(hdr', FreshOnes \ {s}) /\ GivesUp(hdr, s, hdr')
      BY <1>1, <1>2, <2>1, CoalesceChain
    <2>3. DOMAIN hdr' \subseteq DOMAIN hdr
      BY <2>2 DEF GivesUp
    <2>4. wiped' \subseteq Nat
      BY <1>1, <1>2, <2>1 DEF TypeOK
    <2>5. wiped' \cap DOMAIN hdr' = {}
      BY <1>1, <2>1, <2>3
    <2> QED BY <2>1, <2>2, <2>4, <2>5 DEF TypeOK
  <1>3. CASE s \notin DOMAIN hdr
    <2>1. hdr' = hdr /\ wiped' \subseteq wiped /\ fault' \in {fault, "stale"}
      BY <1>3 DEF Kfree
    <2>2. Apart(hdr, FreshOnes \ {s})
      <3> SUFFICES ASSUME NEW x \in DOMAIN hdr, IsFree(hdr, x), IsFree(hdr, hdr[x].next)
                   PROVE  hdr[x].next \in FreshOnes \ {s}
        BY DEF Apart
      <3>1. hdr[x].next \in DOMAIN hdr
        BY <1>1, HeaderType DEF IsFree
      <3>2. hdr[x].next \in FreshOnes
        BY <1>1 DEF Apart
      <3> QED BY <1>3, <3>1, <3>2
    <2> QED BY <1>1, <1>3, <2>1, <2>2 DEF TypeOK
  <1> QED BY <1>2, <1>3

(* The chain is what it was, and no segment stopped being fresh.           *)
LEMMA ChainKept ==
  ASSUME ChainInv, UNCHANGED <<hdr, wiped, heapEnd>>, FreshOnes \subseteq FreshOnes'
  PROVE  ChainInv'
  <1>1. Apart(hdr, FreshOnes')
    BY DEF ChainInv, Apart
  <1> QED BY <1>1 DEF ChainInv, PageOf

(* What a step must do to the blocks held, for the refinement.             *)
Refines == held' = held \/ (~raced' => Abs!Next)

-----------------------------------------------------------------------------
LEMMA InitInv == Init => IInv /\ Abs!Init
  <1> SUFFICES ASSUME Init PROVE IInv /\ Abs!Init
    OBVIOUS
  <1> DEFINE z == InitPages * PageSize
  <1>1. z \in Nat /\ z - Hdr \in Nat /\ z > Hdr /\ PageOf(z) = InitPages
    BY HeapAssumption DEF z, PageSize, Hdr, PageOf
  <1>2. /\ heapEnd = z /\ DOMAIN hdr = {0} /\ hdr[0] = Header(z - Hdr, NoSeg, NoSeg)
        /\ wiped = {} /\ raced = FALSE /\ fault = "none" /\ mapped = 0 .. InitPages - 1
        /\ held = [t \in Thread |-> {}] /\ pc = [t \in Thread |-> "idle"]
    BY DEF Init
  <1> HIDE DEF z
  <1>3. /\ hdr[0] \in Segment /\ hdr[0].size = z - Hdr /\ hdr[0].next = NoSeg
        /\ hdr[0].prev = NoSeg /\ hdr[0].free
    BY <1>1, <1>2 DEF Segment, Header
  <1>4. hdr \in [DOMAIN hdr -> Segment] /\ DOMAIN hdr \subseteq Nat
    BY <1>2, <1>3 DEF Init
  <1>5. TypeOK
    <2>1. held \in [Thread -> SUBSET Block]
      BY <1>2
    <2>2. pc \in [Thread -> {"idle", "search", "map", "append", "merge"}]
      BY <1>2
    <2>3. req \in [Thread -> Nat] /\ done \in [Thread -> Nat] /\ fresh \in [Thread -> Nat \cup {NoSeg}]
      BY DEF Init
    <2>4. mapped \subseteq Nat /\ wiped \subseteq Nat /\ heapEnd \in Nat
      BY <1>1, <1>2, HeapAssumption
    <2> QED BY <1>2, <1>4, <2>1, <2>2, <2>3, <2>4 DEF TypeOK
  <1>6. Tiled(hdr, heapEnd)
    BY <1>1, <1>2, <1>3 DEF Tiled, End, Hdr, NoSeg
  <1>7. Apart(hdr, FreshOnes)
    BY <1>2, <1>3 DEF Apart, IsFree
  <1>8. ChainInv
    <2>1. heapEnd = PageOf(heapEnd) * PageSize
      BY <1>1, <1>2 DEF z
    <2> QED BY <1>1, <1>2, <1>3, <1>4, <1>6, <1>7, <2>1 DEF ChainInv, IsChain
  <1>9. Undisturbed
    <2>1. Backed
      BY <1>1, <1>2 DEF Backed
    <2>2. OwnedOnce(hdr, held)
      BY <1>2, <1>3 DEF OwnedOnce
    <2>3. ExpandInv
      BY <1>2 DEF ExpandInv, Expanding, Merging
    <2> QED BY <2>1, <2>2, <2>3 DEF Undisturbed
  <1>10. Abs!Init
    BY <1>2 DEF Abs!Init
  <1> QED BY <1>5, <1>8, <1>9, <1>10 DEF IInv

LEMMA MallocStep ==
  ASSUME IInv, NEW t \in Thread, NEW n \in Sizes, Malloc(t, n)
  PROVE  IInv' /\ Refines
  <1>1. TypeOK /\ ChainInv /\ (~raced => Undisturbed)
    BY DEF IInv
  <1>2. /\ UNCHANGED <<hdr, wiped, heapEnd, mapped, held, done, fresh, raced, fault>>
        /\ pc[t] = "idle" /\ pc' = [pc EXCEPT ![t] = "search"]
        /\ req' = [req EXCEPT ![t] = RoundUp(n)]
    BY DEF Malloc, At
  <1>3. RoundUp(n) \in Nat
    BY RoundUpIs, HeapAssumption
  <1>4. TypeOK'
    BY <1>1, <1>2, <1>3 DEF TypeOK
  <1>5. Expanding' = Expanding /\ Merging' = Merging
    BY <1>1, <1>2 DEF Expanding, Merging, TypeOK
  <1>6. ChainInv'
    <2>1. FreshOnes' = FreshOnes
      BY <1>2, <1>5 DEF FreshOnes
    <2> QED BY <1>1, <1>2, <2>1, ChainKept
  <1>7. ASSUME ~raced' PROVE Undisturbed'
    <2>1. Backed /\ OwnedOnce(hdr, held) /\ ExpandInv
      BY <1>1, <1>2, <1>7 DEF Undisturbed
    <2>2. Backed' /\ OwnedOnce(hdr, held)'
      BY <1>2, <2>1 DEF Backed, PageOf, OwnedOnce
    <2>3. ExpandInv'
      BY <1>1, <1>2, <1>5, <2>1 DEF ExpandInv, TypeOK, Behind, PageOf
    <2> QED BY <2>2, <2>3 DEF Undisturbed
  <1> QED BY <1>2, <1>4, <1>6, <1>7 DEF IInv, Refines

LEMMA ExhaustedStep ==
  ASSUME IInv, NEW t \in Thread, Exhausted(t)
  PROVE  IInv' /\ Refines
  <1>1. TypeOK /\ ChainInv /\ (~raced => Undisturbed)
    BY DEF IInv
  <1>2. /\ UNCHANGED <<hdr, wiped, heapEnd, mapped, held, req, fresh, fault>>
        /\ pc[t] = "search" /\ pc' = [pc EXCEPT ![t] = "map"]
        /\ done' = [done EXCEPT ![t] = 0]
        /\ raced' = (raced \/ Expanding # {})
    BY DEF Exhausted, At
  <1>3. TypeOK'
    BY <1>1, <1>2 DEF TypeOK
  <1>4. Expanding' = Expanding \cup {t} /\ Merging' = Merging
    BY <1>1, <1>2 DEF Expanding, Merging, TypeOK
  <1>5. ChainInv'
    <2>1. FreshOnes' = FreshOnes
      BY <1>2, <1>4 DEF FreshOnes
    <2> QED BY <1>1, <1>2, <2>1, ChainKept
  <1>6. ASSUME ~raced' PROVE Undisturbed'
    <2>1. Backed /\ OwnedOnce(hdr, held) /\ ExpandInv /\ Expanding = {}
      BY <1>1, <1>2, <1>6 DEF Undisturbed
    <2>2. Backed' /\ OwnedOnce(hdr, held)'
      BY <1>2, <2>1 DEF Backed, PageOf, OwnedOnce
    <2>3. ExpandInv'
      <3>1. /\ \A u, v \in Expanding' : u = v
            /\ \A u \in Merging' : fresh'[u] \in DOMAIN hdr' /\ hdr'[fresh'[u]].free
        BY <1>2, <1>4, <2>1 DEF ExpandInv
      <3>2. ASSUME NEW u \in Thread, pc'[u] \in {"map", "append"}
            PROVE  u = t /\ pc'[u] = "map" /\ done'[u] = 0 /\ req'[u] \in Nat
        BY <1>1, <1>2, <2>1, <3>2 DEF TypeOK, Expanding
      <3> QED BY <3>1, <3>2, PagesForIs DEF ExpandInv
    <2> QED BY <2>2, <2>3 DEF Undisturbed
  <1> QED BY <1>2, <1>3, <1>5, <1>6 DEF IInv, Refines

LEMMA MapPageStep ==
  ASSUME IInv, NEW t \in Thread, MapPage(t)
  PROVE  IInv' /\ Refines
  <1>1. TypeOK /\ ChainInv /\ (~raced => Undisturbed)
    BY DEF IInv
  <1>2. /\ UNCHANGED <<hdr, wiped, heapEnd, held, req, fresh, raced, fault>>
        /\ mapped' = mapped \cup {Behind(done[t])}
        /\ done' = [done EXCEPT ![t] = done[t] + 1]
        /\ pc[t] = "map"
        /\ pc' = [pc EXCEPT ![t] = IF done[t] + 1 < PagesFor(req[t]) THEN "map" ELSE "append"]
    BY DEF MapPage, At
  <1>3. /\ done[t] \in Nat /\ req[t] \in Nat /\ Behind(done[t]) \in Nat
        /\ PagesFor(req[t]) \in Nat
    BY <1>1, PageOfIs, PagesForIs DEF TypeOK, Behind
  <1>4. TypeOK'
    BY <1>1, <1>2, <1>3 DEF TypeOK
  <1>5. Expanding' = Expanding /\ Merging' = Merging
    BY <1>1, <1>2 DEF Expanding, Merging, TypeOK
  <1>6. ChainInv'
    <2>1. FreshOnes' = FreshOnes
      BY <1>2, <1>5 DEF FreshOnes
    <2> QED BY <1>1, <1>2, <2>1, ChainKept
  <1>7. ASSUME ~raced' PROVE Undisturbed'
    <2>1. Backed /\ OwnedOnce(hdr, held) /\ ExpandInv
      BY <1>1, <1>2, <1>7 DEF Undisturbed
    <2>2. Backed' /\ OwnedOnce(hdr, held)'
      BY <1>2, <2>1 DEF Backed, PageOf, OwnedOnce
    <2>3. ASSUME NEW u \in Thread
          PROVE  /\ pc'[u] = "map" => done'[u] < PagesFor(req'[u])
                 /\ pc'[u] = "append" => done'[u] = PagesFor(req'[u])
                 /\ pc'[u] \in {"map", "append"} =>
                      \A i \in 0 .. done'[u] - 1 : PageOf(heapEnd) + i \in mapped'
      <3>1. CASE u = t
        <4>1. /\ done[t] < PagesFor(req[t])
              /\ \A i \in 0 .. done[t] - 1 : PageOf(heapEnd) + i \in mapped
          BY <1>2, <2>1 DEF ExpandInv, Behind
        <4>2. done'[t] = done[t] + 1 /\ req'[t] = req[t] /\ PageOf(heapEnd) + done[t] \in mapped'
          BY <1>1, <1>2 DEF TypeOK, Behind
        <4>3. \A i \in 0 .. done[t] : PageOf(heapEnd) + i \in mapped'
          <5>1. \A i \in 0 .. done[t] : i = done[t] \/ i \in 0 .. done[t] - 1
            BY <1>3
          <5> QED BY <1>2, <4>1, <4>2, <5>1
        <4>4. pc'[t] = IF done[t] + 1 < PagesFor(req[t]) THEN "map" ELSE "append"
          BY <1>1, <1>2 DEF TypeOK
        <4> QED BY <1>3, <3>1, <4>1, <4>2, <4>3, <4>4
      <3>2. CASE u # t
        BY <1>1, <1>2, <2>1, <3>2 DEF TypeOK, ExpandInv, Behind
      <3> QED BY <3>1, <3>2
    <2>4. ExpandInv'
      <3>1. /\ \A u, v \in Expanding' : u = v
            /\ \A u \in Merging' : fresh'[u] \in DOMAIN hdr' /\ hdr'[fresh'[u]].free
        BY <1>2, <1>5, <2>1 DEF ExpandInv
      <3> QED BY <1>2, <2>3, <3>1 DEF ExpandInv, Behind, PageOf
    <2> QED BY <2>2, <2>4 DEF Undisturbed
  <1> QED BY <1>2, <1>4, <1>6, <1>7 DEF IInv, Refines

LEMMA AppendStep ==
  ASSUME IInv, NEW t \in Thread, Append(t)
  PROVE  IInv' /\ Refines
  <1> DEFINE p == PagesFor(req[t])
             n == p * PageSize
  <1>1. TypeOK /\ ChainInv /\ (~raced => Undisturbed)
    BY DEF IInv
  <1>2. p \in Nat \ {0} /\ n \in Nat /\ Hdr <= n
    <2>1. req[t] \in Nat
      BY <1>1 DEF TypeOK
    <2>2. p \in Nat \ {0} /\ req[t] + Hdr <= n
      BY <2>1, PagesForIs
    <2> HIDE DEF p
    <2> QED BY <2>1, <2>2 DEF Hdr, PageSize
  <1>3. UNCHANGED <<mapped, held, req, done, raced>> /\ pc[t] = "append"
    BY DEF Append, At
  <1>4. IsChain(hdr, heapEnd) /\ heapEnd = PageOf(heapEnd) * PageSize /\ Apart(hdr, FreshOnes)
        /\ wiped \cap DOMAIN hdr = {} /\ heapEnd \in Nat /\ PageOf(heapEnd) \in Nat
    BY <1>1, PageOfIs DEF ChainInv, TypeOK
  <1>5. ASSUME ~raced
        PROVE  /\ Backed /\ OwnedOnce(hdr, held) /\ Expanding = {t}
               /\ \A q \in 0 .. PageOf(heapEnd) + p - 1 : q \in mapped
    <2>1. Backed /\ OwnedOnce(hdr, held) /\ ExpandInv
      BY <1>1, <1>5 DEF Undisturbed
    <2>2. Expanding = {t}
      BY <1>3, <2>1 DEF ExpandInv, Expanding
    <2>3. \A i \in 0 .. p - 1 : PageOf(heapEnd) + i \in mapped
      BY <1>3, <2>1 DEF ExpandInv, Behind
    <2> HIDE DEF p
    <2>4. ASSUME NEW q \in 0 .. PageOf(heapEnd) + p - 1 PROVE q \in mapped
      <3>1. CASE q < PageOf(heapEnd)
        <4>1. q \in 0 .. PageOf(heapEnd) - 1
          BY <1>2, <1>4, <3>1
        <4> QED BY <2>1, <4>1 DEF Backed
      <3>2. CASE q >= PageOf(heapEnd)
        <4>1. q - PageOf(heapEnd) \in 0 .. p - 1
          BY <1>2, <1>4, <3>2
        <4>2. PageOf(heapEnd) + (q - PageOf(heapEnd)) = q
          BY <1>2, <1>4
        <4> QED BY <2>3, <4>1, <4>2
      <3> QED BY <1>2, <1>4, <3>1, <3>2
    <2> QED BY <2>1, <2>2, <2>4
  <1>6. ASSUME hdr' = Chain(hdr, heapEnd, n), wiped' = wiped \ {heapEnd}, heapEnd' = heapEnd + n,
               fresh' = [fresh EXCEPT ![t] = heapEnd], pc' = [pc EXCEPT ![t] = "merge"],
               fault' = fault
        PROVE  IInv'
    <2> HIDE DEF p
    <2>1. IsChain(hdr', heapEnd') /\ Extended(hdr, heapEnd, hdr')
      <3> HIDE DEF n
      <3> QED BY <1>2, <1>4, <1>6, AppendChain
    <2>2. TypeOK'
      <3>1. DOMAIN hdr' \subseteq Nat /\ hdr' \in [DOMAIN hdr' -> Segment] /\ heapEnd' \in Nat
        BY <2>1 DEF IsChain
      <3> QED BY <1>1, <1>3, <1>4, <1>6, <3>1 DEF TypeOK
    <2>3. Merging' = Merging \cup {t} /\ Expanding' = Expanding /\ fresh'[t] = heapEnd
      BY <1>1, <1>3, <1>6 DEF Merging, Expanding, TypeOK
    <2>4. FreshOnes \cup {heapEnd} \subseteq FreshOnes'
      <3>1. t \notin Merging
        BY <1>3 DEF Merging
      <3>2. \A u \in Merging : fresh'[u] = fresh[u]
        BY <1>1, <1>6, <3>1 DEF Merging, TypeOK
      <3> QED BY <2>3, <3>2 DEF FreshOnes
    <2>5. Apart(hdr', FreshOnes')
      <3> SUFFICES ASSUME NEW x \in DOMAIN hdr', IsFree(hdr', x), IsFree(hdr', hdr'[x].next)
                   PROVE  hdr'[x].next \in FreshOnes \cup {heapEnd}
        BY <2>4 DEF Apart
      <3>1. CASE x = heapEnd
        BY <2>1, <3>1 DEF Extended, IsFree
      <3>2. CASE x # heapEnd /\ hdr[x].next = NoSeg
        BY <2>1, <3>2 DEF Extended
      <3>3. CASE x # heapEnd /\ hdr[x].next # NoSeg
        <4>1. x \in DOMAIN hdr /\ hdr'[x].next = hdr[x].next /\ IsFree(hdr, x)
          BY <2>1, <3>3 DEF Extended, IsFree
        <4>2. hdr[x].next \in DOMAIN hdr
          BY <1>4, <3>3, <4>1, HeaderType
        <4>3. IsFree(hdr, hdr[x].next)
          BY <2>1, <4>1, <4>2 DEF Extended, IsFree
        <4> QED BY <1>4, <4>1, <4>3 DEF Apart
      <3> QED BY <3>1, <3>2, <3>3
    <2>6. heapEnd' \in Nat /\ PageOf(heapEnd') = PageOf(heapEnd) + p
      BY <1>2, <1>4, <1>6 DEF PageOf, PageSize
    <2>7. ChainInv'
      <3>1. heapEnd' = PageOf(heapEnd') * PageSize
        BY <1>2, <1>4, <1>6, <2>6 DEF PageSize
      <3>2. wiped' \cap DOMAIN hdr' = {}
        BY <1>4, <1>6, <2>1 DEF Extended
      <3>3. (heapEnd = PageOf(heapEnd) * PageSize)'
        BY <3>1 DEF PageOf
      <3> QED BY <2>1, <2>5, <3>2, <3>3 DEF ChainInv
    <2>8. ASSUME ~raced' PROVE Undisturbed'
      <3>1. /\ Backed /\ OwnedOnce(hdr, held) /\ Expanding = {t}
            /\ \A q \in 0 .. PageOf(heapEnd) + p - 1 : q \in mapped
        BY <1>3, <1>5, <2>8
      <3>2. Backed'
        <4>1. fault' = "none"
          BY <1>6, <3>1 DEF Backed
        <4>2. ASSUME NEW q \in 0 .. PageOf(heapEnd') - 1 PROVE q \in mapped'
          <5>1. 0 .. PageOf(heapEnd') - 1 = 0 .. PageOf(heapEnd) + p - 1
            BY <1>2, <1>4, <2>6
          <5>2. q \in 0 .. PageOf(heapEnd) + p - 1
            BY <4>2, <5>1
          <5> QED BY <1>3, <3>1, <5>2
        <4> QED BY <4>1, <4>2 DEF Backed, PageOf
      <3>3. OwnedOnce(hdr', held)
        BY <2>1, <3>1, ExtendOwned
      <3>4. OwnedOnce(hdr, held)'
        BY <1>3, <3>3 DEF OwnedOnce
      <3>5. ExpandInv'
        <4>1. \A u, v \in Expanding' : u = v
          BY <2>3, <3>1
        <4>2. \A u \in Merging' : u = t
          BY <2>3, <3>1 DEF Merging, Expanding
        <4>3. \A u \in Thread : pc'[u] \notin {"map", "append"}
          BY <1>1, <1>6, <3>1 DEF Expanding, TypeOK
        <4>4. \A u \in Merging' : fresh'[u] \in DOMAIN hdr' /\ hdr'[fresh'[u]].free
          BY <2>1, <2>3, <4>2 DEF Extended
        <4> QED BY <4>1, <4>3, <4>4 DEF ExpandInv
      <3> QED BY <3>2, <3>4, <3>5 DEF Undisturbed
    <2> QED BY <2>2, <2>7, <2>8 DEF IInv
  <1>7. ASSUME PageOf(heapEnd) \notin mapped, fault' = "unmapped",
               UNCHANGED <<hdr, wiped, heapEnd, fresh, pc>>
        PROVE  IInv'
    <2>1. raced
      <3> SUFFICES ASSUME ~raced PROVE FALSE
        BY <1>1 DEF TypeOK
      <3>1. PageOf(heapEnd) \in 0 .. PageOf(heapEnd) + p - 1
        BY <1>2, <1>4
      <3> QED BY <1>5, <1>7, <3>1
    <2>2. TypeOK'
      BY <1>1, <1>3, <1>7 DEF TypeOK
    <2>3. ChainInv'
      <3>1. FreshOnes' = FreshOnes
        BY <1>7 DEF FreshOnes, Merging
      <3> QED BY <1>1, <1>7, <3>1, ChainKept
    <2> QED BY <1>3, <2>1, <2>2, <2>3 DEF IInv
  <1>8. IInv'
    BY <1>6, <1>7 DEF Append
  <1> QED BY <1>3, <1>8 DEF Refines

(* The block at s is apart from every block held: its segment was free.    *)
LEMMA TakeRefines ==
  ASSUME IInv, IInv', NEW t \in Thread, ~raced, NEW s \in DOMAIN hdr, hdr[s].free,
         req[t] <= hdr[s].size,
         held' = [held EXCEPT ![t] = @ \cup {[seg |-> s, size |-> req[t]]}]
  PROVE  Abs!Next
  <1> DEFINE Map(S) == {[addr |-> b.seg + Hdr, size |-> b.size] : b \in S}
             a == [addr |-> s + Hdr, size |-> req[t]]
             c == [seg |-> s, size |-> req[t]]
  <1>1. /\ IsChain(hdr, heapEnd) /\ OwnedOnce(hdr, held) /\ req[t] \in Nat
        /\ held \in [Thread -> SUBSET Block]
    BY DEF IInv, ChainInv, TypeOK, Undisturbed
  <1>2. ASSUME NEW u \in Thread, NEW d \in held[u]
        PROVE  /\ d.seg \in DOMAIN hdr /\ d.seg # s /\ d.size \in Nat
               /\ d.seg + Hdr + d.size <= s \/ s + Hdr + req[t] <= d.seg
    <2>1. d.seg \in DOMAIN hdr /\ ~hdr[d.seg].free /\ hdr[d.seg].size >= d.size
      BY <1>1 DEF OwnedOnce
    <2>2. d.seg # s /\ d.size \in Nat
      BY <1>1, <2>1 DEF Block
    <2>3. /\ s \in Nat /\ d.seg \in Nat /\ hdr[s].size \in Nat /\ hdr[d.seg].size \in Nat
          /\ d.seg < s => End(hdr, d.seg) <= s
          /\ s < d.seg => End(hdr, s) <= d.seg
      BY <1>1, <2>1, HeaderType
    <2> QED BY <1>1, <2>1, <2>2, <2>3 DEF End, Hdr
  <1>3. /\ held'[t] = held[t] \cup {c}
        /\ \A u \in Thread : u # t => held'[u] = held[u]
    BY <1>1
  <1>4. Map(held'[t]) = Map(held[t]) \cup {a}
    <2>1. c.seg = s /\ c.size = req[t]
      OBVIOUS
    <2> HIDE DEF c
    <2> QED BY <1>3, <2>1
  <1>5. a \notin Map(held[t])
    <2> SUFFICES ASSUME NEW d \in held[t], a = [addr |-> d.seg + Hdr, size |-> d.size] PROVE FALSE
      OBVIOUS
    <2>1. s + Hdr = d.seg + Hdr
      OBVIOUS
    <2> QED BY <1>1, <1>2, <2>1, HeaderType DEF Hdr
  <1>6. \A u \in Thread : \A d \in Map(held[u]) : Abs!Disjoint(a, d)
    <2> SUFFICES ASSUME NEW u \in Thread, NEW d \in held[u]
                 PROVE  Abs!Disjoint(a, [addr |-> d.seg + Hdr, size |-> d.size])
      OBVIOUS
    <2>1. d.seg \in Nat /\ s \in Nat
      BY <1>1, <1>2, HeaderType
    <2> QED BY <1>1, <1>2, <2>1 DEF Abs!Disjoint, Hdr
  <1> DEFINE A == [u \in Thread |-> Map(held[u])]
             B == [u \in Thread |-> Map(held'[u])]
  <1>7. B = [A EXCEPT ![t] = @ \cup {a}]
    <2>1. \A u \in Thread : B[u] = IF u = t THEN A[t] \cup {a} ELSE A[u]
      BY <1>3, <1>4
    <2> HIDE DEF Map, a
    <2> QED BY <2>1
  <1>8. a \in B[t] \ A[t]
    BY <1>4, <1>5
  <1>9. \A u \in Thread : \A d \in A[u] : Abs!Disjoint(a, d)
    BY <1>6
  <1>10. Abs!Alloc(t)
    BY <1>7, <1>8, <1>9 DEF Abs!Alloc
  <1> QED BY <1>10 DEF Abs!Next

LEMMA FreeRefines ==
  ASSUME TypeOK, NEW t \in Thread, NEW b \in held[t],
         held' = [held EXCEPT ![t] = @ \ {b}]
  PROVE  Abs!Next
  <1> DEFINE Map(S) == {[addr |-> d.seg + Hdr, size |-> d.size] : d \in S}
             a == [addr |-> b.seg + Hdr, size |-> b.size]
  <1>1. held \in [Thread -> SUBSET Block]
    BY DEF TypeOK
  <1>2. /\ held'[t] = held[t] \ {b}
        /\ \A u \in Thread : u # t => held'[u] = held[u]
    BY <1>1
  <1>3. \A d \in held[t] : d # b => [addr |-> d.seg + Hdr, size |-> d.size] # a
    <2> SUFFICES ASSUME NEW d \in held[t], [addr |-> d.seg + Hdr, size |-> d.size] = a
                 PROVE  d = b
      OBVIOUS
    <2>1. d.seg + Hdr = b.seg + Hdr /\ d.size = b.size
      OBVIOUS
    <2>2. d \in Block /\ b \in Block
      BY <1>1
    <2> QED BY <2>1, <2>2 DEF Block, Hdr
  <1>4. Map(held'[t]) = Map(held[t]) \ {a}
    <2> HIDE DEF a
    <2>1. a = [addr |-> b.seg + Hdr, size |-> b.size]
      BY DEF a
    <2> QED BY <1>2, <1>3, <2>1
  <1> DEFINE A == [u \in Thread |-> Map(held[u])]
             B == [u \in Thread |-> Map(held'[u])]
  <1>5. B = [A EXCEPT ![t] = @ \ {a}]
    <2>1. \A u \in Thread : B[u] = IF u = t THEN A[t] \ {a} ELSE A[u]
      BY <1>2, <1>4
    <2> HIDE DEF Map, a
    <2> QED BY <2>1
  <1>6. a \in A[t]
    OBVIOUS
  <1>7. Abs!Free(t)
    BY <1>5, <1>6 DEF Abs!Free
  <1> QED BY <1>7 DEF Abs!Next

LEMMA TakeStep ==
  ASSUME IInv, NEW t \in Thread, Take(t)
  PROVE  IInv' /\ Refines
  <1> DEFINE n == req[t]
  <1>1. TypeOK /\ ChainInv /\ (~raced => Undisturbed)
    BY DEF IInv
  <1>2. UNCHANGED <<heapEnd, mapped, req, done, fresh>> /\ pc[t] = "search"
        /\ raced' = (raced \/ Merging # {})
    BY DEF Take, At
  <1>3. /\ IsChain(hdr, heapEnd) /\ heapEnd = PageOf(heapEnd) * PageSize /\ Apart(hdr, FreshOnes)
        /\ wiped \cap DOMAIN hdr = {} /\ n \in Nat
        /\ held \in [Thread -> SUBSET Block] /\ hdr \in [DOMAIN hdr -> Segment]
    BY <1>1 DEF ChainInv, TypeOK
  <1>4. ASSUME NEW s \in DOMAIN hdr, hdr[s].free, n <= hdr[s].size, Give(t, s), fault' = fault,
               IsChain(hdr', heapEnd), Apart(hdr', FreshOnes), HandsOut(hdr, s, n, hdr'),
               wiped' \subseteq wiped, wiped' \cap DOMAIN hdr' = {}
        PROVE  IInv' /\ Refines
    <2>1. /\ held' = [held EXCEPT ![t] = @ \cup {[seg |-> s, size |-> n]}]
          /\ pc' = [pc EXCEPT ![t] = "idle"]
      BY <1>4 DEF Give
    <2>2. s \in Nat
      BY <1>3, HeaderType
    <2>3. hdr' \in [DOMAIN hdr' -> Segment] /\ DOMAIN hdr' \subseteq Nat
      BY <1>4 DEF IsChain
    <2>4. TypeOK'
      <3>1. [seg |-> s, size |-> n] \in Block
        BY <1>3, <2>2 DEF Block
      <3>2. held' \in [Thread -> SUBSET Block]
        BY <1>3, <2>1, <3>1
      <3>3. pc' \in [Thread -> {"idle", "search", "map", "append", "merge"}]
        BY <1>1, <2>1 DEF TypeOK
      <3> HIDE DEF n
      <3> QED BY <1>1, <1>2, <1>4, <2>3, <3>2, <3>3 DEF TypeOK
    <2>5. Expanding' = Expanding /\ Merging' = Merging
      BY <1>1, <1>2, <2>1 DEF Expanding, Merging, TypeOK
    <2>6. ChainInv'
      <3>1. FreshOnes' = FreshOnes
        BY <1>2, <2>5 DEF FreshOnes
      <3>2. IsChain(hdr', heapEnd') /\ Apart(hdr', FreshOnes')
        BY <1>2, <1>4, <3>1
      <3>3. (heapEnd = PageOf(heapEnd) * PageSize)'
        BY <1>2, <1>3 DEF PageOf, PageSize
      <3> HIDE DEF n
      <3> QED BY <1>4, <3>2, <3>3 DEF ChainInv
    <2>7. ASSUME ~raced' PROVE Undisturbed'
      <3>1. Backed /\ OwnedOnce(hdr, held) /\ ExpandInv /\ Merging = {}
        BY <1>1, <1>2, <2>7 DEF Undisturbed
      <3>2. OwnedOnce(hdr', held')
        <4> HIDE DEF n
        <4> QED BY <1>3, <1>4, <2>1, <2>2, <2>3, <3>1, TakeOwned
      <3>3. OwnedOnce(hdr, held)'
        BY <3>2 DEF OwnedOnce
      <3>4. Backed'
        BY <1>2, <1>4, <3>1 DEF Backed, PageOf
      <3>5. ExpandInv'
        BY <1>1, <1>2, <2>1, <2>5, <3>1 DEF ExpandInv, TypeOK, Behind, PageOf
      <3> QED BY <3>3, <3>4, <3>5 DEF Undisturbed
    <2>8. IInv'
      BY <2>4, <2>6, <2>7 DEF IInv
    <2>9. ~raced' => Abs!Next
      BY <1>2, <1>4, <2>1, <2>8, TakeRefines
    <2> QED BY <2>8, <2>9 DEF Refines
  <1>5. PICK s \in FirstFit(n) :
          \/ /\ ~Splits(s, n)
             /\ hdr' = Use(hdr, s)
             /\ Give(t, s)
             /\ UNCHANGED <<wiped, fault>>
          \/ /\ Splits(s, n)
             /\ PageOf(Cut(s, n)) \in mapped
             /\ hdr' = Use(Split(hdr, s, Cut(s, n)), s)
             /\ wiped' = wiped \ {Cut(s, n)}
             /\ Give(t, s)
             /\ UNCHANGED fault
          \/ /\ Splits(s, n)
             /\ PageOf(Cut(s, n)) \notin mapped
             /\ fault' = "unmapped"
             /\ UNCHANGED <<hdr, wiped, held, pc>>
    BY DEF Take
  <1>6. s \in DOMAIN hdr /\ hdr[s].free /\ n <= hdr[s].size
    <2>1. s \in DOMAIN hdr /\ hdr[s].free /\ hdr[s].size >= n
      BY DEF FirstFit, Fits
    <2>2. hdr[s].size \in Nat
      BY <1>3, <2>1, HeaderType
    <2> QED BY <1>3, <2>1, <2>2
  <1>7. CASE /\ hdr' = Use(hdr, s)
             /\ Give(t, s)
             /\ UNCHANGED <<wiped, fault>>
    <2> HIDE DEF n
    <2>1. /\ IsChain(hdr', heapEnd) /\ Apart(hdr', FreshOnes) /\ HandsOut(hdr, s, n, hdr')
          /\ DOMAIN hdr' = DOMAIN hdr
      BY <1>3, <1>6, <1>7, UseChain
    <2> QED BY <1>3, <1>4, <1>6, <1>7, <2>1
  <1>8. ASSUME Splits(s, n)
        PROVE  LET r == Cut(s, n)
                   k == Use(Split(hdr, s, r), s)
               IN  /\ IsChain(k, heapEnd) /\ Apart(k, FreshOnes) /\ HandsOut(hdr, s, n, k)
                   /\ DOMAIN k = DOMAIN hdr \cup {r} /\ r \in Nat /\ r < heapEnd
    <2> HIDE DEF n
    <2>1. hdr[s].size > n + Hdr + 16
      BY <1>8 DEF Splits
    <2> QED BY <1>3, <1>6, <2>1, SplitUseChain
  <1>9. CASE /\ Splits(s, n)
             /\ hdr' = Use(Split(hdr, s, Cut(s, n)), s)
             /\ wiped' = wiped \ {Cut(s, n)}
             /\ Give(t, s)
             /\ UNCHANGED fault
    <2> HIDE DEF n
    <2>1. /\ IsChain(hdr', heapEnd) /\ Apart(hdr', FreshOnes) /\ HandsOut(hdr, s, n, hdr')
          /\ DOMAIN hdr' = DOMAIN hdr \cup {Cut(s, n)}
      BY <1>8, <1>9
    <2>2. wiped' \subseteq wiped /\ wiped' \cap DOMAIN hdr' = {}
      BY <1>3, <1>9, <2>1
    <2> QED BY <1>4, <1>6, <1>9, <2>1, <2>2
  <1>10. CASE /\ Splits(s, n)
              /\ PageOf(Cut(s, n)) \notin mapped
              /\ fault' = "unmapped"
              /\ UNCHANGED <<hdr, wiped, held, pc>>
    <2>1. raced
      <3> SUFFICES ASSUME ~raced PROVE FALSE
        BY <1>1 DEF TypeOK
      <3>1. Cut(s, n) \in Nat /\ Cut(s, n) < PageOf(heapEnd) * PageSize /\ PageOf(heapEnd) \in Nat
        BY <1>3, <1>8, <1>10, PageOfIs DEF IsChain
      <3>2. PageOf(Cut(s, n)) \in 0 .. PageOf(heapEnd) - 1
        BY <3>1, PageOfIs
      <3> QED BY <1>1, <1>10, <3>2 DEF Undisturbed, Backed
    <2>2. TypeOK'
      BY <1>1, <1>2, <1>10 DEF TypeOK
    <2>3. ChainInv'
      <3>1. FreshOnes' = FreshOnes
        BY <1>2, <1>10 DEF FreshOnes, Merging
      <3> QED BY <1>1, <1>2, <1>10, <3>1, ChainKept
    <2> QED BY <1>2, <1>10, <2>1, <2>2, <2>3 DEF IInv, Refines
  <1> QED BY <1>5, <1>7, <1>9, <1>10

LEMMA FreeStep ==
  ASSUME IInv, NEW t \in Thread, Free(t)
  PROVE  IInv' /\ Refines
  <1>1. TypeOK /\ ChainInv /\ (~raced => Undisturbed)
    BY DEF IInv
  <1>2. /\ UNCHANGED <<heapEnd, mapped, pc, req, done, fresh>>
        /\ raced' = (raced \/ Merging # {})
    BY DEF Free
  <1>3. PICK b \in held[t] : /\ held' = [held EXCEPT ![t] = @ \ {b}]
                             /\ Kfree(b.seg, held', fresh)
    BY DEF Free
  <1>4. /\ IsChain(hdr', heapEnd) /\ Apart(hdr', FreshOnes \ {b.seg})
        /\ wiped' \subseteq Nat /\ wiped' \cap DOMAIN hdr' = {}
        /\ fault' \in {"none", "unmapped", "stale"}
        /\ b.seg \in DOMAIN hdr => GivesUp(hdr, b.seg, hdr') /\ fault' = fault
    BY <1>1, <1>3, KfreeStep
  <1>5. TypeOK'
    <2>1. hdr' \in [DOMAIN hdr' -> Segment] /\ DOMAIN hdr' \subseteq Nat
      BY <1>4 DEF IsChain
    <2>2. held' \in [Thread -> SUBSET Block]
      BY <1>1, <1>3 DEF TypeOK
    <2> QED BY <1>1, <1>2, <1>4, <2>1, <2>2 DEF TypeOK
  <1>6. Expanding' = Expanding /\ Merging' = Merging /\ FreshOnes' = FreshOnes
    BY <1>2 DEF Expanding, Merging, FreshOnes
  <1>7. ChainInv'
    <2>1. Apart(hdr', FreshOnes')
      BY <1>4, <1>6 DEF Apart
    <2>2. (heapEnd = PageOf(heapEnd) * PageSize)'
      BY <1>1, <1>2 DEF ChainInv, PageOf
    <2> QED BY <1>2, <1>4, <2>1, <2>2 DEF ChainInv
  <1>8. ASSUME ~raced' PROVE Undisturbed'
    <2>1. Backed /\ OwnedOnce(hdr, held) /\ ExpandInv /\ Merging = {}
      BY <1>1, <1>2, <1>8 DEF Undisturbed
    <2>2. GivesUp(hdr, b.seg, hdr') /\ fault' = fault
      BY <1>4, <2>1 DEF OwnedOnce
    <2>3. OwnedOnce(hdr', held')
      BY <1>1, <1>3, <2>1, <2>2, FreeOwned DEF TypeOK
    <2>4. OwnedOnce(hdr, held)'
      BY <2>3 DEF OwnedOnce
    <2>5. Backed'
      BY <1>2, <2>1, <2>2 DEF Backed, PageOf
    <2>6. ExpandInv'
      BY <1>2, <1>6, <2>1 DEF ExpandInv, Behind, PageOf
    <2> QED BY <2>4, <2>5, <2>6 DEF Undisturbed
  <1>9. Abs!Next
    BY <1>1, <1>3, FreeRefines
  <1> QED BY <1>5, <1>7, <1>8, <1>9 DEF IInv, Refines

LEMMA MergeStep ==
  ASSUME IInv, NEW t \in Thread, Merge(t)
  PROVE  IInv' /\ Refines
  <1> DEFINE s == fresh[t]
  <1>1. TypeOK /\ ChainInv /\ (~raced => Undisturbed)
    BY DEF IInv
  <1>2. /\ UNCHANGED <<heapEnd, mapped, held, req, done, raced>>
        /\ pc[t] = "merge" /\ pc' = [pc EXCEPT ![t] = "search"]
        /\ fresh' = [fresh EXCEPT ![t] = NoSeg]
        /\ Kfree(s, held, fresh')
    BY DEF Merge, At
  <1>3. /\ IsChain(hdr', heapEnd) /\ Apart(hdr', FreshOnes \ {s})
        /\ wiped' \subseteq Nat /\ wiped' \cap DOMAIN hdr' = {}
        /\ fault' \in {"none", "unmapped", "stale"}
        /\ s \in DOMAIN hdr => GivesUp(hdr, s, hdr') /\ fault' = fault
    <2> HIDE DEF s
    <2> QED BY <1>1, <1>2, KfreeStep
  <1>4. TypeOK'
    <2>1. hdr' \in [DOMAIN hdr' -> Segment] /\ DOMAIN hdr' \subseteq Nat
      BY <1>3 DEF IsChain
    <2>2. /\ pc' \in [Thread -> {"idle", "search", "map", "append", "merge"}]
          /\ fresh' \in [Thread -> Nat \cup {NoSeg}]
      BY <1>1, <1>2 DEF TypeOK
    <2> QED BY <1>1, <1>2, <1>3, <2>1, <2>2 DEF TypeOK
  <1>5. Merging' = Merging \ {t} /\ Expanding' = Expanding \ {t} /\ t \in Expanding
    BY <1>1, <1>2 DEF Expanding, Merging, TypeOK
  <1>6. FreshOnes \ {s} \subseteq FreshOnes'
    <2>1. \A u \in Thread : u # t => fresh'[u] = fresh[u]
      BY <1>1, <1>2 DEF TypeOK
    <2> QED BY <1>5, <2>1 DEF FreshOnes, Merging
  <1>7. ChainInv'
    <2>1. Apart(hdr', FreshOnes')
      BY <1>3, <1>6 DEF Apart
    <2>2. (heapEnd = PageOf(heapEnd) * PageSize)'
      BY <1>1, <1>2 DEF ChainInv, PageOf
    <2> QED BY <1>2, <1>3, <2>1, <2>2 DEF ChainInv
  <1>8. ASSUME ~raced' PROVE Undisturbed'
    <2>1. Backed /\ OwnedOnce(hdr, held) /\ ExpandInv
      BY <1>1, <1>2, <1>8 DEF Undisturbed
    <2>2. s \in DOMAIN hdr /\ hdr[s].free /\ Expanding' = {}
      BY <1>2, <1>5, <2>1 DEF ExpandInv, Merging
    <2>3. GivesUp(hdr, s, hdr') /\ fault' = fault
      BY <1>3, <2>2
    <2>4. OwnedOnce(hdr', held)
      BY <2>1, <2>2, <2>3, KeepOwned
    <2>5. OwnedOnce(hdr, held)'
      BY <1>2, <2>4 DEF OwnedOnce
    <2>6. Backed'
      BY <1>2, <2>1, <2>3 DEF Backed, PageOf
    <2>7. ExpandInv'
      BY <2>2 DEF ExpandInv, Expanding, Merging
    <2> QED BY <2>5, <2>6, <2>7 DEF Undisturbed
  <1> QED BY <1>2, <1>4, <1>7, <1>8 DEF IInv, Refines

LEMMA StepInv == IInv /\ [Next]_vars => IInv' /\ Refines
  <1> SUFFICES ASSUME IInv, [Next]_vars PROVE IInv' /\ Refines
    OBVIOUS
  <1>1. CASE Next
    BY <1>1, MallocStep, TakeStep, ExhaustedStep, MapPageStep, AppendStep, FreeStep, MergeStep
       DEF Next
  <1>2. CASE UNCHANGED vars
    <2>1. TypeOK' /\ FreshOnes' = FreshOnes
      BY <1>2 DEF vars, IInv, TypeOK, FreshOnes, Merging
    <2>2. ChainInv'
      BY <1>2, <2>1, ChainKept DEF vars, IInv
    <2>3. Backed /\ OwnedOnce(hdr, held) /\ ExpandInv => Undisturbed'
      <3>1. Backed => Backed'
        BY <1>2 DEF vars, Backed, PageOf
      <3>2. OwnedOnce(hdr, held) => OwnedOnce(hdr, held)'
        BY <1>2 DEF vars, OwnedOnce
      <3>3. ExpandInv => ExpandInv'
        BY <1>2 DEF vars, ExpandInv, Expanding, Merging, Behind, PageOf
      <3> QED BY <3>1, <3>2, <3>3 DEF Undisturbed
    <2> QED BY <1>2, <2>1, <2>2, <2>3 DEF vars, IInv, Undisturbed, Refines
  <1> QED BY <1>1, <1>2

LEMMA Inductive == Spec => []IInv
  BY InitInv, StepInv, PTL DEF Spec

-----------------------------------------------------------------------------
(* Every variable of the heap keeps its type.                              *)
THEOREM TypeCorrect == Spec => []TypeOK
  <1>1. IInv => TypeOK
    BY DEF IInv
  <1> QED BY <1>1, Inductive, PTL

(* The segments tile the heap and the list can be walked both ways, after  *)
(* every kmalloc, kfree and kheap_expand, raced or not.                    *)
THEOREM TilingHolds == Spec => []Tiling
  <1>1. IInv => Tiling
    BY DEF IInv, ChainInv, IsChain, Tiling
  <1> QED BY <1>1, Inductive, PTL

(* Two free segments are never neighbours but for the one kheap_expand has *)
(* yet to free.                                                            *)
THEOREM CoalescedHolds == Spec => []Coalesced
  <1>1. IInv => Coalesced
    BY DEF IInv, ChainInv, Apart, FreshOnes, Coalesced
  <1> QED BY <1>1, Inductive, PTL

(* No segment is handed out twice or leaks, and the heap spans mapped pages *)
(* only, unless a task used the heap amid a kheap_expand.                  *)
THEOREM OneOwnerHolds == Spec => []OneOwner
  <1>1. IInv => OneOwner
    BY DEF IInv, Undisturbed, OwnedOnce, OneOwner
  <1> QED BY <1>1, Inductive, PTL

(* Each kmalloc and kfree is a step of the abstract allocator: what is     *)
(* handed out overlaps no block held; same proviso.                        *)
THEOREM HeapIsAllocator == Spec => ImplementsAllocator
  <1>1. IInv /\ [Next]_vars => [~raced' => Abs!Next]_held
    BY StepInv DEF Refines
  <1> QED BY <1>1, InitInv, Inductive, PTL DEF Spec, ImplementsAllocator
=============================================================================
