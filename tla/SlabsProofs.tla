----------------------------- MODULE SlabsProofs ----------------------------
(***************************************************************************)
(* One slab cache, for any number of threads, frames and slots: the list   *)
(* of slabs stays whole, no frame is lost, and no object is handed out     *)
(* twice.                                                                  *)
(***************************************************************************)
EXTENDS Slabs, FiniteSetTheorems, TLAPS

(* The slabs met from c when the pages hold m: Chain for any m.            *)
Reach(m, c) ==
  {p \in Page : \A S \in SUBSET Page :
      (c \in S /\ \A q \in S : m[q].next \in S \cup {NoPage}) => p \in S}

Listed == Reach(slab, Head)

(* The list of m starts at the head, ends, and prev undoes next.           *)
Whole(m) ==
  /\ m[Head].prev = NoPage
  /\ \E l \in Reach(m, Head) : m[l].next = NoPage
  /\ \A p \in Reach(m, Head) : m[p].next # NoPage => m[m[p].next].prev = p

(* Each slab's count is right.                                             *)
CountOf(m) == \A p \in Page : m[p].free = Cardinality((1 .. Slots) \ m[p].mask)

(* What a thread holds between two critical sections: a new or removed    *)
(* slab of its own that is not listed, and a place in the list to go on.   *)
Waits(m, t) ==
  /\ pc[t] \in {"link", "drop", "unmap"} <=> new[t] # NoPage
  /\ pc[t] \in {"create", "link", "drop", "retry"} => curr[t] # NoPage
  /\ new[t] # NoPage => /\ new[t] \notin Reach(m, Head)
                        /\ \A u \in Thread : new[u] = new[t] => u = t
  /\ pc[t] = "link" => m[new[t]] = Created
  /\ ~pulled /\ curr[t] # NoPage => curr[t] \in Reach(m, Head)

(* The objects the threads hold: each has a bit of its own in a listed slab. *)
Objects(m, h) ==
  \A t \in Thread : \A o \in h[t] :
    /\ o.page \in Reach(m, Head)
    /\ o.slot \in m[o.page].mask
    /\ \A u \in Thread : o \in h[u] => u = t

(* A frame in use is listed or in a thread's hands.                        *)
InHands(p) == \E t \in Thread : new[t] = p /\ new[t] # NoPage

Mapped == \A p \in Page : p \in live <=> p \in Listed \/ InHands(p)

IInv == /\ TypeOK /\ Whole(slab) /\ CountOf(slab) /\ Mapped
        /\ \A t \in Thread : Waits(slab, t)
        /\ Objects(slab, held)

-----------------------------------------------------------------------------
LEMMA PageFacts == Head \in Page /\ NoPage \notin Page
  BY SlabAssumption DEF Page, Head, NoPage

LEMMA CreatedType ==
  ASSUME cap \in Caps
  PROVE  Created \in Slab /\ 1 .. Slots \in SUBSET Nat
  BY SlabAssumption DEF Created, Slab, Unusable

LEMMA CreatedKept == cap' = cap => Created' = Created
  BY DEF Created, Unusable

(* The slabs met from a page are the least set with it and closed under    *)
(* next.                                                                   *)
LEMMA ReachIs ==
  ASSUME NEW m \in [Page -> Slab], NEW c \in Page
  PROVE  /\ c \in Reach(m, c) /\ Reach(m, c) \subseteq Page
         /\ \A p \in Reach(m, c) : m[p].next \in Reach(m, c) \cup {NoPage}
         /\ \A S \in SUBSET Page :
              c \in S /\ (\A q \in S : m[q].next \in S \cup {NoPage}) => Reach(m, c) \subseteq S
  <1>1. \A p \in Page : m[p].next \in Page \cup {NoPage}
    BY DEF Slab
  <1> QED BY <1>1 DEF Reach

LEMMA ReachLess ==
  ASSUME NEW m \in [Page -> Slab], NEW c \in Page, NEW d \in Reach(m, c)
  PROVE  Reach(m, d) \subseteq Reach(m, c)
  BY ReachIs

(* What does not touch the next pointers of the listed slabs.              *)
LEMMA ReachKept ==
  ASSUME NEW m \in [Page -> Slab], NEW k \in [Page -> Slab], NEW c \in Page,
         \A p \in Reach(m, c) : k[p].next = m[p].next
  PROVE  Reach(k, c) = Reach(m, c)
  <1> DEFINE A == Reach(m, c)
             B == Reach(k, c)
  <1>1. B \subseteq A
    <2>1. A \in SUBSET Page /\ c \in A /\ \A q \in A : k[q].next \in A \cup {NoPage}
      BY ReachIs
    <2> HIDE DEF A
    <2> QED BY <2>1, ReachIs
  <1>2. A \subseteq B
    <2>1. B \in SUBSET Page /\ c \in B /\ \A q \in B : k[q].next \in B \cup {NoPage}
      BY ReachIs
    <2>2. \A q \in B : m[q].next \in B \cup {NoPage}
      BY <1>1, <2>1
    <2> HIDE DEF B
    <2> QED BY <2>1, <2>2, ReachIs
  <1> QED BY <1>1, <1>2

LEMMA WholeKept ==
  ASSUME NEW m \in [Page -> Slab], NEW k \in [Page -> Slab], Whole(m),
         \A p \in Reach(m, Head) : k[p].next = m[p].next /\ k[p].prev = m[p].prev
  PROVE  Whole(k) /\ Reach(k, Head) = Reach(m, Head)
  <1>1. Reach(k, Head) = Reach(m, Head)
    BY ReachKept, PageFacts
  <1>2. /\ Head \in Reach(m, Head)
        /\ \A p \in Reach(m, Head) : m[p].next \in Reach(m, Head) \cup {NoPage}
    BY ReachIs, PageFacts
  <1> QED BY <1>1, <1>2 DEF Whole

(* Every listed slab but the head is the next of its prev.                 *)
LEMMA PrevListed ==
  ASSUME NEW m \in [Page -> Slab], Whole(m), NEW p \in Reach(m, Head), p # Head
  PROVE  m[p].prev \in Reach(m, Head) /\ m[m[p].prev].next = p /\ m[p].prev # NoPage
  <1> DEFINE C == Reach(m, Head)
             S == {q \in C : q = Head \/ \E r \in C : m[r].next = q}
  <1>1. /\ Head \in C /\ C \subseteq Page
        /\ \A q \in C : m[q].next \in C \cup {NoPage}
    BY ReachIs, PageFacts
  <1>2. S \in SUBSET Page /\ Head \in S /\ \A q \in S : m[q].next \in S \cup {NoPage}
    BY <1>1
  <1>3. C \subseteq S
    <2> HIDE DEF S
    <2> QED BY <1>2, ReachIs, PageFacts
  <1>4. PICK r \in C : m[r].next = p
    BY <1>3
  <1>5. m[p].prev = r
    BY <1>1, <1>4, PageFacts DEF Whole
  <1> QED BY <1>1, <1>4, <1>5, PageFacts

(* No two listed slabs follow each other: the walk would never end.        *)
LEMMA NoTwoCycle ==
  ASSUME NEW m \in [Page -> Slab], Whole(m), NEW p \in Reach(m, Head), NEW r \in Reach(m, Head),
         m[p].next = r, m[r].next = p
  PROVE  FALSE
  <1> DEFINE C == Reach(m, Head)
             S == C \ {p, r}
  <1>1. /\ Head \in C /\ C \subseteq Page
        /\ \A q \in C : m[q].next \in C \cup {NoPage}
    BY ReachIs, PageFacts
  <1>2. m[p].prev = r /\ m[r].prev = p /\ m[Head].prev = NoPage
    BY <1>1, PageFacts DEF Whole
  <1>3. Head \in S
    BY <1>1, <1>2, PageFacts
  <1>4. \A q \in S : m[q].next \in S \cup {NoPage}
    <2> SUFFICES ASSUME NEW q \in S, m[q].next \in {p, r} PROVE FALSE
      BY <1>1
    <2>1. m[m[q].next].prev = q
      BY <1>1, PageFacts DEF Whole
    <2> QED BY <1>2, <2>1
  <1>5. C \subseteq S
    <2>1. S \in SUBSET Page
      BY <1>1
    <2> HIDE DEF S
    <2> QED BY <1>3, <1>4, <2>1, ReachIs, PageFacts
  <1> QED BY <1>5

(* A new slab n is linked behind the last one, l.                          *)
LEMMA ReachLinked ==
  ASSUME NEW m \in [Page -> Slab], Whole(m), NEW l \in Reach(m, Head), m[l].next = NoPage,
         NEW n \in Page \ Reach(m, Head),
         NEW k \in [Page -> Slab],
         k[l].next = n /\ k[l].prev = m[l].prev,
         k[n].next = NoPage /\ k[n].prev = l,
         \A p \in Page \ {l, n} : k[p].next = m[p].next /\ k[p].prev = m[p].prev
  PROVE  Whole(k) /\ Reach(k, Head) = Reach(m, Head) \cup {n}
  <1> DEFINE C == Reach(m, Head)
             D == Reach(k, Head)
  <1>1. /\ Head \in C /\ C \subseteq Page
        /\ \A q \in C : m[q].next \in C \cup {NoPage}
    BY ReachIs, PageFacts
  <1>2. /\ Head \in D /\ D \subseteq Page
        /\ \A q \in D : k[q].next \in D \cup {NoPage}
    BY ReachIs, PageFacts
  <1>3. D \subseteq C \cup {n}
    <2> DEFINE S == C \cup {n}
    <2>1. S \in SUBSET Page /\ Head \in S /\ \A q \in S : k[q].next \in S \cup {NoPage}
      BY <1>1
    <2> HIDE DEF S
    <2>2. D \subseteq S
      BY <2>1, ReachIs, PageFacts
    <2> QED BY <2>2 DEF S
  <1>4. C \subseteq D
    <2> DEFINE S == C \cap D
    <2>1. S \in SUBSET Page /\ Head \in S /\ \A q \in S : m[q].next \in S \cup {NoPage}
      BY <1>1, <1>2
    <2> HIDE DEF C, D, S
    <2>2. C \subseteq S
      BY <2>1, ReachIs, PageFacts DEF C
    <2> QED BY <2>2 DEF S
  <1>5. D = C \cup {n}
    <2>1. n \in D
      BY <1>2, <1>4, PageFacts
    <2> QED BY <1>3, <1>4, <2>1
  <1>6. k[Head].prev = NoPage
    BY <1>1 DEF Whole
  <1>7. \A p \in C \cup {n} : k[p].next # NoPage => k[k[p].next].prev = p
    <2> SUFFICES ASSUME NEW p \in C, p # l, k[p].next # NoPage PROVE k[k[p].next].prev = p
      BY <1>1
    <2>1. k[p].next = m[p].next /\ m[p].next \in C
      BY <1>1
    <2>2. m[m[p].next].prev = p
      BY <2>1 DEF Whole
    <2> QED BY <1>1, <2>1, <2>2
  <1> QED BY <1>5, <1>6, <1>7 DEF Whole

(* A listed slab p other than the head is taken out.                       *)
LEMMA ReachUnlinked ==
  ASSUME NEW m \in [Page -> Slab], Whole(m), NEW p \in Reach(m, Head) \ {Head},
         NEW k \in [Page -> Slab],
         \A q \in Page : /\ k[q].next = IF q = m[p].prev THEN m[p].next ELSE m[q].next
                         /\ k[q].prev = IF q # m[p].prev /\ q = m[p].next THEN m[p].prev ELSE m[q].prev
  PROVE  Whole(k) /\ Reach(k, Head) = Reach(m, Head) \ {p}
  <1> DEFINE C == Reach(m, Head)
             D == Reach(k, Head)
             r == m[p].prev
             n == m[p].next
  <1>1. /\ Head \in C /\ C \subseteq Page
        /\ \A q \in C : m[q].next \in C \cup {NoPage}
    BY ReachIs, PageFacts
  <1>2. /\ Head \in D /\ D \subseteq Page
        /\ \A q \in D : k[q].next \in D \cup {NoPage}
    BY ReachIs, PageFacts
  <1>3. r \in C /\ m[r].next = p /\ p \in C /\ p # Head /\ m[Head].prev = NoPage
    BY PrevListed DEF Whole
  <1>4. \A q \in C : m[q].next # NoPage => m[m[q].next].prev = q
    BY DEF Whole
  <1>5. \A q \in C : m[q].next = p => q = r
    BY <1>1, <1>3, <1>4, PageFacts
  <1>6. r # p /\ n # p
    <2>1. n = p => p = r
      BY <1>3, <1>5
    <2>2. r = p => FALSE
      <3> SUFFICES ASSUME r = p PROVE FALSE
        OBVIOUS
      <3> DEFINE S == C \ {p}
      <3>1. \A q \in S : m[q].next \in S \cup {NoPage}
        BY <1>1, <1>5
      <3>2. S \in SUBSET Page /\ Head \in S
        BY <1>1, <1>3
      <3>3. C \subseteq S
        <4> HIDE DEF S
        <4> QED BY <3>1, <3>2, ReachIs, PageFacts
      <3> QED BY <1>3, <3>3
    <2> QED BY <2>1, <2>2
  <1> HIDE DEF C, D, r, n
  <1>7. \A q \in C : k[q].next = IF q = r THEN n ELSE m[q].next
    BY <1>1 DEF r, n
  <1>8. n \in C \cup {NoPage}
    BY <1>1, <1>3 DEF n
  <1>9. D \subseteq C \ {p}
    <2> DEFINE S == C \ {p}
    <2>1. S \in SUBSET Page /\ Head \in S /\ \A q \in S : k[q].next \in S \cup {NoPage}
      BY <1>1, <1>3, <1>5, <1>6, <1>7, <1>8
    <2> HIDE DEF S
    <2>2. D \subseteq S
      BY <2>1, ReachIs, PageFacts DEF D
    <2> QED BY <2>2 DEF S
  <1>10. C \ {p} \subseteq D
    <2> DEFINE S == IF r \in D THEN D \cup {p} ELSE D
    <2>1. \A q \in D : q \in C /\ q # p
      BY <1>9
    <2>2. S \in SUBSET Page /\ Head \in S
      BY <1>1, <1>2, <1>3
    <2>3. ASSUME NEW q \in S PROVE m[q].next \in S \cup {NoPage}
      <3>1. CASE q = p
        <4>1. r \in D /\ k[r].next = n
          BY <1>3, <1>7, <2>1, <3>1
        <4> QED BY <1>2, <3>1, <4>1 DEF n
      <3>2. CASE q = r
        BY <1>3, <2>3, <1>6, <3>2
      <3>3. CASE q # p /\ q # r
        BY <1>2, <1>7, <2>1, <3>3
      <3> QED BY <3>1, <3>2, <3>3
    <2> HIDE DEF S
    <2>4. C \subseteq S
      BY <2>2, <2>3, ReachIs, PageFacts DEF C
    <2> QED BY <2>4 DEF S
  <1>11. D = C \ {p}
    BY <1>9, <1>10
  <1>12. k[Head].prev = NoPage
    <2>1. n # Head
      BY <1>1, <1>3, <1>4, PageFacts DEF n
    <2> QED BY <1>3, <2>1, PageFacts DEF r, n
  <1>13. \E l \in C \ {p} : k[l].next = NoPage
    <2>1. PICK l \in C : m[l].next = NoPage
      BY DEF Whole, C
    <2>2. CASE l = p
      BY <1>3, <1>6, <1>7, <2>1, <2>2 DEF n
    <2>3. CASE l # p
      <3>1. l # r
        BY <1>1, <1>3, <2>1, PageFacts
      <3> QED BY <1>7, <2>1, <2>3, <3>1
    <2> QED BY <2>2, <2>3
  <1>14. \A q \in C \ {p} : k[q].next # NoPage => k[k[q].next].prev = q
    <2> SUFFICES ASSUME NEW q \in C \ {p}, k[q].next # NoPage PROVE k[k[q].next].prev = q
      OBVIOUS
    <2>1. \A x \in Page : k[x].prev = IF x # r /\ x = n THEN r ELSE m[x].prev
      BY DEF r, n
    <2>2. CASE q = r
      <3>1. k[q].next = n /\ n \in C
        BY <1>7, <1>8, <2>2
      <3>2. n # r
        <4> SUFFICES ASSUME n = r PROVE FALSE
          OBVIOUS
        <4>1. m[p].next = r /\ m[r].prev = p
          BY <1>1, <1>3, <1>4, PageFacts DEF n
        <4> QED BY <4>1, NoTwoCycle, <1>3, <1>6 DEF C
      <3> QED BY <1>1, <2>1, <2>2, <3>1, <3>2
    <2>3. CASE q # r
      <3>1. k[q].next = m[q].next /\ m[q].next \in C /\ m[m[q].next].prev = q
        BY <1>1, <1>4, <1>7, <2>3
      <3>2. m[q].next # n
        <4> SUFFICES ASSUME m[q].next = n PROVE FALSE
          OBVIOUS
        <4>1. m[n].prev = q /\ n # NoPage
          BY <3>1
        <4>2. m[n].prev = p
          BY <1>3, <1>4, <4>1 DEF n
        <4> QED BY <4>1, <4>2
      <3> QED BY <1>1, <2>1, <3>1, <3>2
    <2> QED BY <2>2, <2>3
  <1> QED BY <1>11, <1>12, <1>13, <1>14 DEF Whole, C, D

-----------------------------------------------------------------------------
(* Taking a clear bit and giving one back keep the count right.            *)
LEMMA TakenCount ==
  ASSUME NEW x \in Slab, x.free = Cardinality((1 .. Slots) \ x.mask),
         NEW s \in (1 .. Slots) \ x.mask
  PROVE  /\ Taken(x, s) \in Slab
         /\ Taken(x, s).mask = x.mask \cup {s}
         /\ Taken(x, s).next = x.next /\ Taken(x, s).prev = x.prev
         /\ Taken(x, s).free = Cardinality((1 .. Slots) \ Taken(x, s).mask)
  <1> DEFINE A == (1 .. Slots) \ x.mask
  <1>1. IsFiniteSet(1 .. Slots) /\ Slots \in Nat
    BY FS_Interval, SlabAssumption
  <1>2. IsFiniteSet(A)
    BY <1>1, FS_Subset
  <1>3. x.mask \in SUBSET (1 .. Slots) /\ x.free \in 0 .. Slots
        /\ x = [mask |-> x.mask, free |-> x.free, next |-> x.next, prev |-> x.prev]
        /\ x.next \in Page \cup {NoPage} /\ x.prev \in Page \cup {NoPage}
    BY DEF Slab
  <1>4. (1 .. Slots) \ (x.mask \cup {s}) = A \ {s}
    OBVIOUS
  <1>5. /\ x.free = Cardinality(A) /\ Cardinality(A \ {s}) = Cardinality(A) - 1
        /\ Cardinality(A \ {s}) \in Nat
    <2> s \in A /\ x.free = Cardinality(A)
      OBVIOUS
    <2> HIDE DEF A
    <2> QED BY <1>2, FS_RemoveElement, FS_CardinalityType
  <1>6. /\ Taken(x, s) = [x EXCEPT !.mask = x.mask \cup {s}, !.free = x.free - 1]
        /\ Taken(x, s).mask = x.mask \cup {s} /\ Taken(x, s).free = x.free - 1
        /\ Taken(x, s).next = x.next /\ Taken(x, s).prev = x.prev
    BY DEF Taken, Slab
  <1>7. x.free - 1 = Cardinality((1 .. Slots) \ (x.mask \cup {s})) /\ x.free - 1 \in 0 .. Slots
    <2>1. x.free - 1 = Cardinality(A \ {s}) /\ x.free - 1 \in 0 .. Slots
      <3> HIDE DEF A
      <3> QED BY <1>1, <1>3, <1>5
    <2> QED BY <1>4, <2>1
  <1>8. x.mask \cup {s} \in SUBSET (1 .. Slots)
    BY <1>3
  <1> QED BY <1>3, <1>6, <1>7, <1>8 DEF Slab

LEMMA ClearedCount ==
  ASSUME NEW x \in Slab, x.free = Cardinality((1 .. Slots) \ x.mask),
         NEW s \in x.mask
  PROVE  /\ Cleared(x, s) \in Slab
         /\ Cleared(x, s).mask = x.mask \ {s}
         /\ Cleared(x, s).next = x.next /\ Cleared(x, s).prev = x.prev
         /\ Cleared(x, s).free = Cardinality((1 .. Slots) \ Cleared(x, s).mask)
         /\ Cleared(x, s).free = Slots <=> x.mask = {s}
  <1> DEFINE A == (1 .. Slots) \ x.mask
             B == (1 .. Slots) \ (x.mask \ {s})
  <1>1. IsFiniteSet(1 .. Slots) /\ Slots \in Nat /\ Cardinality(1 .. Slots) = Slots
    BY FS_Interval, SlabAssumption
  <1>2. IsFiniteSet(A)
    BY <1>1, FS_Subset
  <1>3. x.mask \in SUBSET (1 .. Slots) /\ x.free \in 0 .. Slots
        /\ x = [mask |-> x.mask, free |-> x.free, next |-> x.next, prev |-> x.prev]
        /\ x.next \in Page \cup {NoPage} /\ x.prev \in Page \cup {NoPage}
    BY DEF Slab
  <1>4. B = A \cup {s} /\ s \notin A /\ B \in SUBSET (1 .. Slots)
    BY <1>3
  <1>5. Cardinality(A \cup {s}) = Cardinality(A) + 1 /\ Cardinality(A \cup {s}) \in Nat
    <2> s \notin A
      OBVIOUS
    <2> HIDE DEF A
    <2> QED BY <1>2, FS_AddElement, FS_CardinalityType
  <1>6. /\ Cleared(x, s) = [x EXCEPT !.mask = x.mask \ {s}, !.free = x.free + 1]
        /\ Cleared(x, s).mask = x.mask \ {s} /\ Cleared(x, s).free = x.free + 1
        /\ Cleared(x, s).next = x.next /\ Cleared(x, s).prev = x.prev
    BY DEF Cleared, Slab
  <1>7. Cardinality(B) <= Slots /\ (Cardinality(B) = Slots => B = 1 .. Slots)
    <2> DEFINE U == 1 .. Slots
    <2>1. IsFiniteSet(U) /\ Cardinality(U) = Slots /\ B \in SUBSET U
      BY <1>1, <1>4
    <2> HIDE DEF B, U
    <2>2. Cardinality(B) <= Slots /\ (Cardinality(B) = Slots => B = U)
      BY <2>1, FS_Subset
    <2> QED BY <2>2 DEF U
  <1>8. x.free + 1 = Cardinality(B) /\ x.free + 1 \in 0 .. Slots
    <2>1. x.free = Cardinality(A) /\ Cardinality(B) = Cardinality(A \cup {s})
      BY <1>4
    <2> HIDE DEF A, B
    <2> QED BY <1>1, <1>3, <1>5, <1>7, <2>1
  <1>9. x.free + 1 = Slots <=> x.mask = {s}
    <2>1. x.mask = {s} => B = 1 .. Slots
      OBVIOUS
    <2>2. B = 1 .. Slots => x.mask = {s}
      BY <1>3
    <2> QED BY <1>1, <1>7, <1>8, <2>1, <2>2
  <1>10. x.mask \ {s} \in SUBSET (1 .. Slots)
    BY <1>3
  <1> QED BY <1>3, <1>6, <1>8, <1>9, <1>10 DEF Slab

LEMMA CreatedCount ==
  ASSUME cap \in Caps
  PROVE  Created.free = Cardinality((1 .. Slots) \ Created.mask)
  <1>1. (1 .. Slots) \ Unusable = 1 .. cap /\ cap \in Int /\ cap > 0
    BY SlabAssumption DEF Unusable
  <1>2. Cardinality(1 .. cap) = cap
    BY <1>1, FS_Interval
  <1> QED BY <1>1, <1>2 DEF Created

-----------------------------------------------------------------------------
(* The first slot of a slab with room becomes an object of t: the pages    *)
(* hold m, which links t's new slab if there was one.                      *)
LEMMA PlaceStep ==
  ASSUME TypeOK, NEW t \in Thread, NEW m \in [Page -> Slab],
         Whole(m), CountOf(m), Objects(m, held),
         NEW p \in Reach(m, Head),
         \A q \in Page : q \in live <=>
           q \in Reach(m, Head) \/ \E u \in Thread \ {t} : new[u] = q /\ new[u] # NoPage,
         \A u \in Thread \ {t} : Waits(m, u),
         Place(t, m, p)
  PROVE  IInv'
  <1>1. PICK s \in Lowest((1 .. Slots) \ m[p].mask) :
          /\ slab' = [m EXCEPT ![p] = Taken(@, s)]
          /\ held' = [held EXCEPT ![t] = @ \cup {[page |-> p, slot |-> s]}]
    BY DEF Place
  <1>2. /\ pc' = [pc EXCEPT ![t] = "idle"]
        /\ curr' = [curr EXCEPT ![t] = NoPage]
        /\ new' = [new EXCEPT ![t] = NoPage]
        /\ UNCHANGED <<cap, live, pulled>>
    BY DEF Place
  <1>3. s \in 1 .. Slots /\ s \notin m[p].mask /\ p \in Page
    BY ReachIs, PageFacts DEF Lowest
  <1>4. /\ Taken(m[p], s) \in Slab
        /\ Taken(m[p], s).mask = m[p].mask \cup {s}
        /\ Taken(m[p], s).next = m[p].next /\ Taken(m[p], s).prev = m[p].prev
        /\ Taken(m[p], s).free = Cardinality((1 .. Slots) \ Taken(m[p], s).mask)
    BY TakenCount, <1>3 DEF CountOf
  <1>5. slab' \in [Page -> Slab] /\ slab'[p] = Taken(m[p], s)
        /\ \A q \in Page : /\ q # p => slab'[q] = m[q]
                           /\ slab'[q].next = m[q].next /\ slab'[q].prev = m[q].prev
                           /\ m[q].mask \subseteq slab'[q].mask
    BY <1>1, <1>3, <1>4
  <1>6. Whole(slab') /\ Reach(slab', Head) = Reach(m, Head) /\ Reach(m, Head) \subseteq Page
    BY <1>5, WholeKept, ReachIs, PageFacts
  <1>7. TypeOK'
    <2>1. [page |-> p, slot |-> s] \in Object
      BY <1>3 DEF Object
    <2> QED BY <1>1, <1>2, <1>5, <2>1 DEF TypeOK
  <1>8. CountOf(slab')
    BY <1>4, <1>5 DEF CountOf
  <1>9. Mapped'
    <2>1. \A q : InHands(q)' <=> \E u \in Thread \ {t} : new[u] = q /\ new[u] # NoPage
      BY <1>2 DEF InHands, TypeOK
    <2> QED BY <1>2, <1>6, <2>1 DEF Mapped, Listed
  <1>10. ASSUME NEW u \in Thread PROVE Waits(slab, u)'
    <2>1. CASE u = t
      BY <1>2, <2>1 DEF Waits, TypeOK
    <2>2. CASE u # t
      <3>1. pc'[u] = pc[u] /\ curr'[u] = curr[u] /\ new'[u] = new[u] /\ new'[t] = NoPage
            /\ \A v \in Thread \ {t} : new'[v] = new[v]
        BY <1>2, <2>2 DEF TypeOK
      <3>2. Waits(m, u)
        BY <2>2
      <3>3. pc[u] = "link" => slab'[new[u]] = m[new[u]]
        BY <1>5, <3>2 DEF Waits, TypeOK
      <3> QED BY <1>2, <1>6, <3>1, <3>2, <3>3, CreatedKept DEF Waits
    <2> QED BY <2>1, <2>2
  <1>11. Objects(slab', held')
    <2> DEFINE o == [page |-> p, slot |-> s]
    <2>1. \A u \in Thread : o \notin held[u]
      BY <1>3 DEF Objects
    <2>2. \A u \in Thread : held'[u] = IF u = t THEN held[t] \cup {o} ELSE held[u]
      BY <1>1 DEF TypeOK
    <2>3. o.page = p /\ o.slot = s /\ s \in slab'[p].mask
      BY <1>4, <1>5
    <2> SUFFICES ASSUME NEW u \in Thread, NEW x \in held'[u]
                 PROVE  /\ x.page \in Reach(m, Head)
                        /\ x.slot \in slab'[x.page].mask
                        /\ \A v \in Thread : x \in held'[v] => v = u
      BY <1>6 DEF Objects
    <2> HIDE DEF o
    <2>4. CASE x = o
      BY <2>1, <2>2, <2>3, <2>4
    <2>5. CASE x # o
      <3>1. x \in held[u] /\ \A v \in Thread : x \in held'[v] => x \in held[v]
        BY <2>2, <2>5
      <3>2. x.page \in Reach(m, Head) /\ x.slot \in m[x.page].mask
            /\ \A v \in Thread : x \in held[v] => v = u
        BY <3>1 DEF Objects
      <3> QED BY <1>5, <1>6, <3>1, <3>2
    <2> QED BY <2>4, <2>5
  <1> QED BY <1>5, <1>6, <1>7, <1>8, <1>9, <1>10, <1>11 DEF IInv

(* A walk from a listed slab, under the lock.                              *)
LEMMA WalkStep ==
  ASSUME IInv, NEW t \in Thread, ~pulled, pc[t] \in {"idle", "retry"},
         NEW c \in Listed, Walk(t, c)
  PROVE  IInv'
  <1>1. slab \in [Page -> Slab] /\ Listed \subseteq Page /\ c \in Page
    BY ReachIs, PageFacts DEF IInv, TypeOK, Listed
  <1>2. Chain(c) \subseteq Listed
    <2>1. Chain(c) = Reach(slab, c)
      BY DEF Chain, Reach
    <2> QED BY <1>1, <2>1, ReachLess, PageFacts DEF Listed
  <1>3. new[t] = NoPage /\ Waits(slab, t)
    BY DEF IInv, Waits
  <1>4. ASSUME NEW p \in First(c), Place(t, slab, p) PROVE IInv'
    <2>1. p \in Reach(slab, Head)
      BY <1>2 DEF First, Roomy, Listed
    <2>2. \A q \in Page : q \in live <=>
           q \in Reach(slab, Head) \/ \E u \in Thread \ {t} : new[u] = q /\ new[u] # NoPage
      BY <1>3 DEF IInv, Mapped, Listed, InHands
    <2> QED BY <1>1, <1>4, <2>1, <2>2, PlaceStep DEF IInv
  <1>5. ASSUME NEW p \in Last(c), curr' = [curr EXCEPT ![t] = p],
               pc' = [pc EXCEPT ![t] = "create"],
               UNCHANGED <<cap, slab, live, held, new, pulled>>
        PROVE  IInv'
    <2>1. p \in Listed /\ p \in Page /\ p # NoPage
      BY <1>1, <1>2, PageFacts DEF Last
    <2>2. TypeOK'
      BY <1>5, <2>1 DEF IInv, TypeOK
    <2>3. Mapped'
      BY <1>5 DEF IInv, Mapped, Listed, InHands
    <2>4. ASSUME NEW u \in Thread PROVE Waits(slab, u)'
      <3>1. Waits(slab, u)
        BY DEF IInv
      <3> QED BY <1>3, <1>5, <2>1, <3>1, CreatedKept DEF Waits, IInv, TypeOK, Listed
    <2> QED BY <1>5, <2>2, <2>3, <2>4 DEF IInv
  <1> QED BY <1>4, <1>5 DEF Walk

LEMMA SlabAllocStep ==
  ASSUME IInv, NEW t \in Thread, SlabAlloc(t)
  PROVE  IInv'
  <1>1. Head \in Listed
    BY ReachIs, PageFacts DEF IInv, TypeOK, Listed
  <1> QED BY <1>1, WalkStep DEF SlabAlloc, At

LEMMA RetryStep ==
  ASSUME IInv, NEW t \in Thread, Retry(t)
  PROVE  IInv'
  <1>1. curr[t] \in Listed
    BY DEF IInv, Waits, Retry, At, Listed
  <1> QED BY <1>1, WalkStep DEF Retry, At

(* A step that takes or gives back a frame and touches no listed slab.     *)
LEMMA OffList ==
  ASSUME IInv, slab' \in [Page -> Slab], CountOf(slab'),
         \A p \in Listed : slab'[p] = slab[p], held' = held
  PROVE  /\ Whole(slab') /\ Reach(slab', Head) = Listed /\ Listed' = Listed
         /\ Objects(slab', held')
  <1>1. Whole(slab') /\ Reach(slab', Head) = Reach(slab, Head)
    BY WholeKept DEF IInv, TypeOK, Listed
  <1>2. Objects(slab, held)
    BY DEF IInv
  <1> QED BY <1>1, <1>2 DEF Objects, Listed

LEMMA CreateSlabStep ==
  ASSUME IInv, NEW t \in Thread, CreateSlab(t)
  PROVE  IInv'
  <1>1. pc[t] = "create" /\ ~pulled /\ Waits(slab, t) /\ TypeOK /\ new[t] = NoPage /\ curr[t] # NoPage
    BY DEF IInv, CreateSlab, At, Waits
  <1>2. Listed \subseteq Page /\ Listed \subseteq live
    BY ReachIs, PageFacts DEF IInv, Listed, TypeOK, Mapped
  <1>3. ASSUME NEW p \in Lowest(Page \ live), live' = live \cup {p},
               slab' = [slab EXCEPT ![p] = Created], new' = [new EXCEPT ![t] = p],
               pc' = [pc EXCEPT ![t] = "link"], UNCHANGED <<cap, held, curr, pulled>>
        PROVE  IInv'
    <2>1. p \in Page /\ p \notin live /\ p # NoPage /\ p \notin Listed
      BY <1>2, PageFacts DEF Lowest
    <2>2. slab' \in [Page -> Slab] /\ slab'[p] = Created /\ \A q \in Page \ {p} : slab'[q] = slab[q]
      BY <1>1, <1>3, <2>1, CreatedType DEF TypeOK
    <2>3. CountOf(slab')
      BY <2>2, <1>1, CreatedCount DEF IInv, CountOf, TypeOK
    <2>4. \A q \in Listed : slab'[q] = slab[q]
      BY <1>2, <2>1, <2>2
    <2>5. /\ Whole(slab') /\ Reach(slab', Head) = Listed /\ Listed' = Listed
          /\ Objects(slab', held')
      BY <1>3, <2>2, <2>3, <2>4, OffList
    <2>6. \A u \in Thread : new[u] # p
      BY <2>1 DEF IInv, Mapped, InHands
    <2>7. TypeOK'
      BY <1>1, <1>3, <2>1, <2>2 DEF TypeOK
    <2>8. Mapped'
      <3>1. \A q : InHands(q)' <=> InHands(q) \/ q = p
        BY <1>1, <1>3, <2>1 DEF InHands, TypeOK
      <3> QED BY <1>3, <2>1, <2>5, <3>1 DEF IInv, Mapped
    <2>9. ASSUME NEW u \in Thread PROVE Waits(slab, u)'
      <3>1. Waits(slab, u) /\ Reach(slab, Head) = Listed
        BY DEF IInv, Listed
      <3>2. CASE u = t
        BY <1>1, <1>3, <2>1, <2>2, <2>5, <2>6, <3>1, <3>2, CreatedKept DEF Waits, TypeOK
      <3>3. CASE u # t
        <4>1. pc'[u] = pc[u] /\ new'[u] = new[u] /\ curr'[u] = curr[u]
              /\ \A v \in Thread : new'[v] = IF v = t THEN p ELSE new[v]
          BY <1>1, <1>3, <3>3 DEF TypeOK
        <4>2. pc[u] = "link" => slab'[new[u]] = slab[new[u]]
          BY <1>1, <2>2, <2>6, <3>1 DEF Waits, TypeOK
        <4> QED BY <1>3, <2>5, <2>6, <3>1, <3>3, <4>1, <4>2, CreatedKept DEF Waits
      <3> QED BY <3>2, <3>3
    <2> QED BY <2>3, <2>5, <2>7, <2>8, <2>9 DEF IInv
  <1>4. ASSUME pc' = [pc EXCEPT ![t] = "idle"], curr' = [curr EXCEPT ![t] = NoPage],
               UNCHANGED <<cap, slab, live, held, new, pulled>>
        PROVE  IInv'
    <2>1. TypeOK'
      BY <1>1, <1>4 DEF TypeOK
    <2>2. Mapped'
      BY <1>4 DEF IInv, Mapped, Listed, InHands
    <2>3. ASSUME NEW u \in Thread PROVE Waits(slab, u)'
      <3>1. Waits(slab, u)
        BY DEF IInv
      <3> QED BY <1>1, <1>4, <3>1, CreatedKept DEF Waits, TypeOK
    <2> QED BY <1>4, <2>1, <2>2, <2>3 DEF IInv
  <1> QED BY <1>3, <1>4 DEF CreateSlab

LEMMA LinkSlabStep ==
  ASSUME IInv, NEW t \in Thread, LinkSlab(t)
  PROVE  IInv'
  <1> DEFINE l == curr[t]
             n == new[t]
             m == Appended(slab, l, n)
  <1>1. pc[t] = "link" /\ ~pulled /\ Waits(slab, t) /\ TypeOK
    BY DEF IInv, LinkSlab, At
  <1>2. /\ l \in Listed /\ n \in Page /\ n \notin Listed /\ n # NoPage /\ slab[n] = Created
        /\ \A u \in Thread : new[u] = n => u = t
    BY <1>1 DEF Waits, Listed, TypeOK
  <1>3. Listed \subseteq Page /\ l \in Page /\ l # n
    BY <1>2, ReachIs, PageFacts DEF IInv, Listed, TypeOK
  <1>4. CASE slab[l].next = NoPage /\ Place(t, m, n)
    <2>1. /\ m \in [Page -> Slab]
          /\ m[l].next = n /\ m[l].prev = slab[l].prev
          /\ m[n].next = NoPage /\ m[n].prev = l
          /\ \A q \in Page \ {l, n} : m[q] = slab[q]
          /\ \A q \in Page : m[q].mask = slab[q].mask /\ m[q].free = slab[q].free
      <3>1. slab[l] \in Slab /\ slab[n] \in Slab /\ slab \in [Page -> Slab] /\ slab[n].next = NoPage
        BY <1>1, <1>2, <1>3 DEF TypeOK, Created
      <3>2. m[l] = [slab[l] EXCEPT !.next = n] /\ m[n] = [slab[n] EXCEPT !.prev = l]
            /\ \A q \in Page \ {l, n} : m[q] = slab[q]
        BY <1>2, <1>3, <3>1 DEF Appended
      <3>3. m[l] \in Slab /\ m[n] \in Slab
        BY <1>2, <1>3, <3>1, <3>2 DEF Slab
      <3>4. m[l].next = n /\ m[l].prev = slab[l].prev /\ m[n].next = NoPage /\ m[n].prev = l
            /\ m[l].mask = slab[l].mask /\ m[l].free = slab[l].free
            /\ m[n].mask = slab[n].mask /\ m[n].free = slab[n].free
        BY <3>1, <3>2 DEF Slab
      <3>5. m \in [Page -> Slab]
        BY <1>2, <1>3, <3>1, <3>2, <3>3 DEF Appended
      <3> HIDE DEF m
      <3> QED BY <3>2, <3>4, <3>5
    <2> HIDE DEF m, l, n
    <2>2. Whole(m) /\ Reach(m, Head) = Listed \cup {n}
      <3>1. slab \in [Page -> Slab] /\ Whole(slab) /\ l \in Reach(slab, Head)
            /\ n \in Page \ Reach(slab, Head)
        BY <1>1, <1>2 DEF IInv, TypeOK, Listed
      <3> QED BY <1>4, <2>1, <3>1, ReachLinked DEF Listed
    <2>3. CountOf(m)
      BY <2>1 DEF IInv, CountOf
    <2>4. Objects(m, held)
      BY <1>3, <2>1, <2>2 DEF IInv, Objects, Listed
    <2>5. \A q \in Page : q \in live <=>
           q \in Reach(m, Head) \/ \E u \in Thread \ {t} : new[u] = q /\ new[u] # NoPage
      <3>1. \A q \in Page : q \in live <=> q \in Listed \/ \E u \in Thread : new[u] = q /\ new[u] # NoPage
        BY DEF IInv, Mapped, InHands
      <3> QED BY <1>2, <2>2, <3>1 DEF n
    <2>6. ASSUME NEW u \in Thread \ {t} PROVE Waits(m, u)
      <3>1. Waits(slab, u) /\ new[u] # n
        BY <1>2 DEF IInv
      <3>2. pc[u] = "link" => new[u] \in Page /\ new[u] # l /\ m[new[u]] = slab[new[u]]
        BY <1>1, <1>2, <2>1, <3>1 DEF Waits, TypeOK, Listed
      <3> QED BY <2>2, <3>1, <3>2 DEF Waits, Listed
    <2>7. n \in Reach(m, Head)
      BY <2>2
    <2> QED BY <1>1, <1>4, <2>1, <2>2, <2>3, <2>4, <2>5, <2>6, <2>7, PlaceStep
  <1>5. CASE pc' = [pc EXCEPT ![t] = "drop"] /\ UNCHANGED <<cap, slab, live, held, curr, new, pulled>>
    <2>1. TypeOK'
      BY <1>1, <1>5 DEF TypeOK
    <2>2. Mapped'
      BY <1>5 DEF IInv, Mapped, Listed, InHands
    <2>3. ASSUME NEW u \in Thread PROVE Waits(slab, u)'
      <3>1. Waits(slab, u)
        BY DEF IInv
      <3> QED BY <1>1, <1>5, <3>1, CreatedKept DEF Waits, TypeOK
    <2> QED BY <1>5, <2>1, <2>2, <2>3 DEF IInv
  <1> QED BY <1>4, <1>5 DEF LinkSlab, Unclaimed

(* A thread gives back the frame it has in its hands.                      *)
LEMMA ReleaseStep ==
  ASSUME IInv, NEW t \in Thread, NEW w, ~pulled,
         \/ pc[t] = "drop" /\ w = "retry"
         \/ pc[t] = "unmap" /\ w = "idle",
         live' = live \ {new[t]}, new' = [new EXCEPT ![t] = NoPage],
         pc' = [pc EXCEPT ![t] = w], UNCHANGED <<cap, slab, held, curr, pulled>>
  PROVE  IInv'
  <1>1. TypeOK /\ Waits(slab, t) /\ new[t] # NoPage
    BY DEF IInv, Waits
  <1>2. TypeOK'
    BY <1>1 DEF TypeOK
  <1>3. Mapped'
    <2>1. \A q : InHands(q)' <=> InHands(q) /\ q # new[t]
      BY <1>1 DEF Waits, InHands, TypeOK
    <2>2. new[t] \notin Listed /\ Listed' = Listed
      BY <1>1 DEF Waits, Listed
    <2> QED BY <2>1, <2>2 DEF IInv, Mapped
  <1>4. ASSUME NEW u \in Thread PROVE Waits(slab, u)'
    <2>1. Waits(slab, u)
      BY DEF IInv
    <2> QED BY <1>1, <2>1, CreatedKept DEF Waits, TypeOK
  <1> QED BY <1>2, <1>3, <1>4 DEF IInv

(* slab_free: the object's bit is cleared, and a slab that became empty    *)
(* holds no other object and leaves the list.                              *)
LEMMA SlabFreeStep ==
  ASSUME IInv, NEW t \in Thread, SlabFree(t)
  PROVE  IInv'
  <1>1. PICK o \in held[t] :
          /\ held' = [held EXCEPT ![t] = @ \ {o}]
          /\ LET m == [slab EXCEPT ![o.page] = Cleared(@, o.slot)]
             IN  \/ /\ ~ShouldFree(m[o.page])
                    /\ slab' = m
                    /\ UNCHANGED <<pc, new, pulled>>
                 \/ /\ ShouldFree(m[o.page])
                    /\ slab' = Unlinked(m, o.page)
                    /\ pc' = [pc EXCEPT ![t] = "unmap"]
                    /\ new' = [new EXCEPT ![t] = o.page]
                    /\ pulled' = (pulled \/ \E u \in Thread : curr[u] = o.page)
    BY DEF SlabFree
  <1> DEFINE p == o.page
             m == [slab EXCEPT ![p] = Cleared(@, o.slot)]
  <1>2. pc[t] = "idle" /\ ~pulled /\ UNCHANGED <<cap, live, curr>> /\ TypeOK /\ Waits(slab, t)
        /\ new[t] = NoPage
    BY DEF SlabFree, At, IInv, Waits
  <1>3. p \in Listed /\ p \in Page /\ o.slot \in slab[p].mask /\ Listed \subseteq Page
        /\ \A u \in Thread : o \in held[u] => u = t
    BY <1>1, ReachIs, PageFacts DEF IInv, Objects, Listed, TypeOK
  <1>4. /\ Cleared(slab[p], o.slot) \in Slab
        /\ Cleared(slab[p], o.slot).mask = slab[p].mask \ {o.slot}
        /\ Cleared(slab[p], o.slot).next = slab[p].next /\ Cleared(slab[p], o.slot).prev = slab[p].prev
        /\ Cleared(slab[p], o.slot).free = Cardinality((1 .. Slots) \ Cleared(slab[p], o.slot).mask)
        /\ Cleared(slab[p], o.slot).free = Slots <=> slab[p].mask = {o.slot}
    BY <1>3, ClearedCount DEF IInv, TypeOK, CountOf
  <1>5. m \in [Page -> Slab] /\ m[p] = Cleared(slab[p], o.slot)
        /\ \A q \in Page : /\ q # p => m[q] = slab[q]
                           /\ m[q].next = slab[q].next /\ m[q].prev = slab[q].prev
    BY <1>2, <1>3, <1>4 DEF TypeOK
  <1>6. Whole(m) /\ Reach(m, Head) = Listed
    <2> HIDE DEF m
    <2> QED BY <1>3, <1>5, WholeKept DEF IInv, TypeOK, Listed
  <1>7. CountOf(m)
    <2> HIDE DEF m
    <2> QED BY <1>4, <1>5 DEF IInv, CountOf
  <1>8. /\ held' \in [Thread -> SUBSET Object]
        /\ \A u \in Thread : held'[u] = held[u] \ {o}
    BY <1>1, <1>2, <1>3 DEF TypeOK
  <1>9. ASSUME NEW u \in Thread, NEW x \in held'[u]
        PROVE  /\ x.page \in Listed /\ x.slot \in m[x.page].mask
               /\ \A v \in Thread : x \in held'[v] => v = u
    <2>1. /\ x \in held[u] /\ x # o /\ x \in Object /\ o \in Object
          /\ \A v \in Thread : x \in held'[v] => x \in held[v]
      BY <1>2, <1>8 DEF TypeOK
    <2>2. /\ x.page \in Listed /\ x.slot \in slab[x.page].mask
          /\ \A v \in Thread : x \in held[v] => v = u
      BY <2>1 DEF IInv, Objects, Listed
    <2>3. x.page = p => x.slot # o.slot
      BY <2>1 DEF Object
    <2> HIDE DEF m
    <2> QED BY <1>3, <1>4, <1>5, <2>1, <2>2, <2>3
  <1> HIDE DEF m
  <1>10. CASE ~ShouldFree(m[p]) /\ slab' = m /\ UNCHANGED <<pc, new, pulled>>
    <2>1. TypeOK'
      BY <1>2, <1>5, <1>8, <1>10 DEF TypeOK
    <2>2. Mapped'
      BY <1>2, <1>6, <1>10 DEF IInv, Mapped, InHands, Listed
    <2>3. ASSUME NEW u \in Thread PROVE Waits(slab, u)'
      <3>1. Waits(slab, u)
        BY DEF IInv
      <3>2. pc[u] = "link" => m[new[u]] = slab[new[u]]
        BY <1>2, <1>3, <1>5, <3>1 DEF Waits, TypeOK, Listed
      <3> QED BY <1>2, <1>6, <1>10, <3>1, <3>2, CreatedKept DEF Waits, Listed
    <2>4. Objects(slab', held')
      BY <1>6, <1>9, <1>10 DEF Objects
    <2> QED BY <1>6, <1>7, <1>10, <2>1, <2>2, <2>3, <2>4 DEF IInv
  <1>11. CASE /\ ShouldFree(m[p]) /\ slab' = Unlinked(m, p)
              /\ pc' = [pc EXCEPT ![t] = "unmap"] /\ new' = [new EXCEPT ![t] = p]
              /\ pulled' = (pulled \/ \E u \in Thread : curr[u] = p)
    <2>1. slab[p].mask = {o.slot} /\ m[p].mask = {} /\ p # Head /\ p # NoPage
      BY <1>2, <1>3, <1>4, <1>5, <1>11, PageFacts DEF ShouldFree, IInv, Whole
    <2>2. /\ slab' \in [Page -> Slab]
          /\ \A q \in Page : slab'[q].mask = m[q].mask /\ slab'[q].free = m[q].free
          /\ \A q \in Page : /\ slab'[q].next = IF q = m[p].prev THEN m[p].next ELSE m[q].next
                             /\ slab'[q].prev = IF q # m[p].prev /\ q = m[p].next THEN m[p].prev ELSE m[q].prev
          /\ \A q \in Page : q # m[p].prev /\ q # m[p].next => slab'[q] = m[q]
      <3>1. m[p].next \in Page \cup {NoPage} /\ m[p].prev \in Page \cup {NoPage}
        BY <1>3, <1>5 DEF Slab
      <3>2. slab' = [q \in Page |-> CASE q = m[p].prev -> [m[q] EXCEPT !.next = m[p].next]
                                      [] q = m[p].next -> [m[q] EXCEPT !.prev = m[p].prev]
                                      [] OTHER         -> m[q]]
        BY <1>11 DEF Unlinked
      <3>3. ASSUME NEW q \in Page
            PROVE  /\ slab'[q] \in Slab
                   /\ slab'[q].mask = m[q].mask /\ slab'[q].free = m[q].free
                   /\ slab'[q].next = IF q = m[p].prev THEN m[p].next ELSE m[q].next
                   /\ slab'[q].prev = IF q # m[p].prev /\ q = m[p].next THEN m[p].prev ELSE m[q].prev
                   /\ q # m[p].prev /\ q # m[p].next => slab'[q] = m[q]
        <4>1. m[q] \in Slab
          BY <1>5
        <4>2. CASE q = m[p].prev
          <5>1. \/ slab'[q] = [m[q] EXCEPT !.next = m[p].next]
                \/ q = m[p].next /\ slab'[q] = [m[q] EXCEPT !.prev = m[p].prev]
            BY <3>2, <4>2
          <5>2. q # m[p].next
            <6> SUFFICES ASSUME q = m[p].next PROVE FALSE
              OBVIOUS
            <6>1. q \in Reach(m, Head) /\ m[q].next = p
              BY <1>3, <1>5, <1>6, <2>1, <4>2, PrevListed
            <6> QED BY <1>3, <1>5, <1>6, <6>1, NoTwoCycle
          <5> QED BY <3>1, <4>1, <4>2, <5>1, <5>2 DEF Slab
        <4>3. CASE q # m[p].prev /\ q = m[p].next
          <5>1. slab'[q] = [m[q] EXCEPT !.prev = m[p].prev]
            BY <3>2, <4>3
          <5> QED BY <3>1, <4>1, <4>3, <5>1 DEF Slab
        <4>4. CASE q # m[p].prev /\ q # m[p].next
          <5>1. slab'[q] = m[q]
            BY <3>2, <4>4
          <5> QED BY <4>1, <4>4, <5>1
        <4> QED BY <4>2, <4>3, <4>4
      <3>4. slab' \in [Page -> Slab]
        BY <3>2, <3>3
      <3> QED BY <3>3, <3>4
    <2>3. Whole(slab') /\ Reach(slab', Head) = Listed \ {p}
      BY <1>3, <1>5, <1>6, <2>1, <2>2, ReachUnlinked
    <2>4. CountOf(slab')
      BY <1>7, <2>2 DEF CountOf
    <2>5. TypeOK'
      BY <1>2, <1>3, <1>8, <1>11, <2>2 DEF TypeOK
    <2>6. \A u \in Thread : new[u] # p
      BY <1>3, <2>1 DEF IInv, Waits, Listed
    <2>7. Mapped'
      <3>1. \A q : InHands(q)' <=> InHands(q) \/ q = p
        BY <1>2, <1>11, <2>1 DEF InHands, TypeOK
      <3>2. Listed' = Listed \ {p}
        BY <2>3 DEF Listed
      <3> QED BY <1>2, <1>3, <3>1, <3>2 DEF IInv, Mapped
    <2>8. ASSUME NEW u \in Thread PROVE Waits(slab, u)'
      <3>1. Waits(slab, u) /\ Reach(slab, Head) = Listed
        BY DEF IInv, Listed
      <3>2. CASE u = t
        BY <1>2, <1>11, <2>1, <2>3, <2>6, <3>1, <3>2 DEF Waits, TypeOK
      <3>3. CASE u # t
        <4>1. pc'[u] = pc[u] /\ new'[u] = new[u] /\ curr'[u] = curr[u]
              /\ \A v \in Thread : new'[v] = IF v = t THEN p ELSE new[v]
          BY <1>2, <1>11, <3>3 DEF TypeOK
        <4>2. pc[u] = "link" => slab'[new[u]] = slab[new[u]]
          <5> SUFFICES ASSUME pc[u] = "link" PROVE slab'[new[u]] = slab[new[u]]
            OBVIOUS
          <5>1. new[u] \in Page /\ new[u] \notin Listed /\ new[u] # p
            BY <1>2, <2>6, <3>1 DEF Waits, TypeOK
          <5>2. m[p].prev \in Listed
            BY <1>3, <1>5, <1>6, <2>1, PrevListed
          <5>3. m[p].next \in Listed \cup {NoPage}
            BY <1>3, <1>5, <1>6, ReachIs, PageFacts
          <5> QED BY <1>5, <2>2, <5>1, <5>2, <5>3, PageFacts
        <4>3. ~pulled' => curr[u] # p
          BY <1>11
        <4> QED BY <1>2, <2>3, <2>6, <3>1, <3>3, <4>1, <4>2, <4>3, CreatedKept DEF Waits
      <3> QED BY <3>2, <3>3
    <2>9. Objects(slab', held')
      <3>1. ASSUME NEW u \in Thread, NEW x \in held'[u] PROVE x.page # p
        BY <1>9, <2>1, <3>1
      <3> QED BY <1>3, <1>9, <2>2, <2>3, <3>1 DEF Objects
    <2> QED BY <2>3, <2>4, <2>5, <2>7, <2>8, <2>9 DEF IInv
  <1> QED BY <1>1, <1>10, <1>11 DEF m

LEMMA InitInv == Init => IInv
  <1> SUFFICES ASSUME Init PROVE IInv
    OBVIOUS
  <1>1. slab \in [Page -> Slab] /\ \A p \in Page : slab[p] = Created
    BY CreatedType DEF Init
  <1>2. Listed = {Head}
    <2>1. Head \in Listed /\ Listed \subseteq Page
      BY <1>1, ReachIs, PageFacts DEF Listed
    <2> DEFINE S == {Head}
    <2>2. S \in SUBSET Page /\ Head \in S /\ \A q \in S : slab[q].next \in S \cup {NoPage}
      BY <1>1, PageFacts DEF Created
    <2> HIDE DEF S
    <2>3. Listed \subseteq S
      BY <1>1, <2>2, ReachIs, PageFacts DEF Listed
    <2> QED BY <2>1, <2>3 DEF S
  <1>3. TypeOK
    BY <1>1, PageFacts DEF Init, TypeOK
  <1>4. Whole(slab)
    BY <1>1, <1>2, PageFacts DEF Whole, Listed, Created
  <1>5. CountOf(slab)
    BY <1>1, <1>3, CreatedCount DEF CountOf, TypeOK
  <1>6. Mapped
    BY <1>2 DEF Init, Mapped, InHands
  <1>7. \A t \in Thread : Waits(slab, t)
    BY DEF Init, Waits
  <1>8. Objects(slab, held)
    BY <1>2 DEF Init, Objects, Listed
  <1> QED BY <1>3, <1>4, <1>5, <1>6, <1>7, <1>8 DEF IInv

LEMMA StepInv == IInv /\ [Next]_vars => IInv'
  <1> SUFFICES ASSUME IInv, [Next]_vars PROVE IInv'
    OBVIOUS
  <1>1. ASSUME NEW t \in Thread, DropSlab(t) PROVE IInv'
    BY <1>1, ReleaseStep DEF DropSlab, At
  <1>2. ASSUME NEW t \in Thread, UnmapSlab(t) PROVE IInv'
    BY <1>2, ReleaseStep DEF UnmapSlab, At
  <1>3. CASE UNCHANGED vars
    BY <1>3 DEF IInv, vars, TypeOK, Whole, CountOf, Mapped, Listed, InHands, Waits, Objects, Reach, Created, Unusable
  <1> QED BY <1>1, <1>2, <1>3, SlabAllocStep, RetryStep, CreateSlabStep, LinkSlabStep, SlabFreeStep
          DEF Next

LEMMA Inductive == Spec => []IInv
  BY InitInv, StepInv, PTL DEF Spec

-----------------------------------------------------------------------------
(* TypeOK: every variable holds a value of its type, for every number of   *)
(* threads, frames and slots.                                              *)
THEOREM TypeCorrect == Spec => []TypeOK
  <1>1. IInv => TypeOK
    BY DEF IInv
  <1> QED BY <1>1, Inductive, PTL

(* ListIntact: however allocations and frees interleave, the list starts   *)
(* at the head and ends, prev undoes next, no listed slab is unmapped and  *)
(* the counts are right.                                                   *)
THEOREM ListIntactHolds == Spec => []ListIntact
  <1>1. IInv => ListIntact
    <2> SUFFICES ASSUME IInv PROVE ListIntact
      OBVIOUS
    <2>1. Chain(Head) = Listed
      BY DEF Chain, Listed, Reach
    <2>2. Listed \subseteq Page
      BY ReachIs, PageFacts DEF IInv, TypeOK, Listed
    <2>3. Counted
      BY DEF IInv, CountOf, Counted
    <2>4. Listed \subseteq live
      BY <2>2 DEF IInv, Mapped
    <2>5. TypeOK
      BY DEF IInv
    <2> QED BY <2>1, <2>3, <2>4, <2>5 DEF ListIntact, IInv, Whole, Last, Listed
  <1> QED BY <1>1, Inductive, PTL

(* NoFrameLost: a frame in use is on the list or in the hands of a thread  *)
(* that links, drops or unmaps it.                                         *)
THEOREM NoFrameLostHolds == Spec => []NoFrameLost
  <1>1. IInv => NoFrameLost
    <2> SUFFICES ASSUME IInv PROVE NoFrameLost
      OBVIOUS
    <2>1. Chain(Head) = Listed
      BY DEF Chain, Listed, Reach
    <2>2. Listed \subseteq Page /\ live \subseteq Page
      BY ReachIs, PageFacts DEF IInv, TypeOK, Listed
    <2>3. \A t \in Thread : new[t] # NoPage => new[t] \in Page
      BY DEF IInv, TypeOK
    <2>4. \A p \in Page : p \in live <=> p \in Listed \/ \E t \in Thread : new[t] = p /\ new[t] # NoPage
      BY DEF IInv, Mapped, InHands
    <2> DEFINE R == {new[t] : t \in {u \in Thread : new[u] # NoPage}}
    <2>5. R \subseteq Page /\ \A p \in Page : p \in R <=> \E t \in Thread : new[t] = p /\ new[t] # NoPage
      BY <2>3
    <2> HIDE DEF R
    <2>6. live = Listed \cup R
      BY <2>2, <2>4, <2>5
    <2> QED BY <2>1, <2>6 DEF NoFrameLost, R
  <1> QED BY <1>1, Inductive, PTL

(* The bits that stand for no object of a page stay set, and no thread     *)
(* holds one; so the count is never above what fits in a page.             *)
Fits == /\ \A p \in Page : Unusable \subseteq slab[p].mask
        /\ \A t \in Thread : \A o \in held[t] : o.slot \notin Unusable

SafeInv == IInv /\ Fits /\ WaitSafe

LEMMA FitsPlace ==
  ASSUME TypeOK, Fits, NEW t \in Thread, NEW m \in [Page -> Slab], NEW p \in Page,
         \A q \in Page : m[q].mask = slab[q].mask, Place(t, m, p)
  PROVE  Fits'
  <1>1. PICK s \in Lowest((1 .. Slots) \ m[p].mask) :
          /\ slab' = [m EXCEPT ![p] = Taken(@, s)]
          /\ held' = [held EXCEPT ![t] = @ \cup {[page |-> p, slot |-> s]}]
          /\ cap' = cap
    BY DEF Place
  <1>2. s \notin Unusable /\ Unusable' = Unusable
    BY <1>1 DEF Fits, Lowest, Unusable
  <1>3. \A q \in Page : m[q].mask \subseteq slab'[q].mask
    BY <1>1 DEF Taken, Slab
  <1> QED BY <1>1, <1>2, <1>3 DEF Fits, TypeOK

LEMMA FitsFree ==
  ASSUME TypeOK, Fits, NEW t \in Thread, SlabFree(t)
  PROVE  Fits'
  <1>1. PICK o \in held[t] :
          LET m == [slab EXCEPT ![o.page] = Cleared(@, o.slot)]
          IN  /\ held' = [held EXCEPT ![t] = @ \ {o}]
              /\ slab' \in {m, Unlinked(m, o.page)}
              /\ cap' = cap
    BY DEF SlabFree
  <1> DEFINE m == [slab EXCEPT ![o.page] = Cleared(@, o.slot)]
  <1>2. o.slot \notin Unusable /\ Unusable' = Unusable /\ o.page \in Page /\ o \in Object
    BY <1>1 DEF Fits, Unusable, TypeOK, Object
  <1>3. \A q \in Page : m[q] = IF q = o.page THEN Cleared(slab[q], o.slot) ELSE slab[q]
    BY <1>2 DEF TypeOK
  <1>4. \A q \in Page : Unusable \subseteq m[q].mask
    <2> SUFFICES ASSUME NEW q \in Page PROVE Unusable \subseteq m[q].mask
      OBVIOUS
    <2>1. slab[q] \in Slab /\ Unusable \subseteq slab[q].mask
      BY DEF TypeOK, Fits
    <2>2. Cleared(slab[q], o.slot).mask = slab[q].mask \ {o.slot}
      BY <2>1 DEF Cleared, Slab
    <2> QED BY <1>2, <1>3, <2>1, <2>2
  <1>5. m \in [Page -> [mask : SUBSET (1 .. Slots), free : Int,
                        next : Page \cup {NoPage}, prev : Page \cup {NoPage}]]
    <2> DEFINE Wide == [mask : SUBSET (1 .. Slots), free : Int,
                        next : Page \cup {NoPage}, prev : Page \cup {NoPage}]
    <2>1. ASSUME NEW q \in Page PROVE m[q] \in Wide
      <3>1. slab[q] \in Slab
        BY DEF TypeOK
      <3>2. slab[q] \in Wide /\ slab[q].free + 1 \in Int /\ slab[q].mask \ {o.slot} \in SUBSET (1 .. Slots)
        BY <3>1, SlabAssumption DEF Slab
      <3>3. Cleared(slab[q], o.slot) \in Wide
        BY <3>2 DEF Cleared
      <3> QED BY <1>3, <3>2, <3>3
    <2>2. m = [q \in Page |-> m[q]]
      BY DEF TypeOK
    <2> HIDE DEF m
    <2> QED BY <2>1, <2>2
  <1> HIDE DEF m
  <1>6. \A q \in Page : Unlinked(m, o.page)[q].mask = m[q].mask
    <2> SUFFICES ASSUME NEW q \in Page PROVE Unlinked(m, o.page)[q].mask = m[q].mask
      OBVIOUS
    <2>1. Unlinked(m, o.page)[q] \in {[m[q] EXCEPT !.next = m[o.page].next],
                                      [m[q] EXCEPT !.prev = m[o.page].prev], m[q]}
      BY DEF Unlinked
    <2> QED BY <1>5, <2>1
  <1>7. slab' = m \/ slab' = Unlinked(m, o.page)
    BY <1>1 DEF m
  <1> QED BY <1>1, <1>2, <1>4, <1>6, <1>7 DEF Fits, TypeOK

(* A slab is only taken away when every bit of its mask is clear.          *)
LEMMA FreedFull ==
  ASSUME IInv, Fits, NEW t \in Thread, SlabFree(t), pulled' # pulled
  PROVE  cap = Slots
  <1>1. PICK o \in held[t] :
          ShouldFree([slab EXCEPT ![o.page] = Cleared(@, o.slot)][o.page])
    BY DEF SlabFree
  <1>2. o.page \in Page /\ o.slot \in slab[o.page].mask /\ o.slot \notin Unusable /\ TypeOK
    BY <1>1, ReachIs, PageFacts DEF IInv, Objects, TypeOK, Fits
  <1>3. Cleared(slab[o.page], o.slot).free = Slots
    BY <1>1, <1>2 DEF ShouldFree, TypeOK
  <1>4. slab[o.page].mask = {o.slot}
    BY <1>2, <1>3, ClearedCount DEF IInv, TypeOK, CountOf
  <1>5. Unusable = {}
    BY <1>2, <1>4 DEF Fits
  <1> QED BY <1>2, <1>5, SlabAssumption DEF Unusable, TypeOK

LEMMA StepSafe == SafeInv /\ [Next]_vars => SafeInv'
  <1> SUFFICES ASSUME SafeInv, [Next]_vars PROVE Fits' /\ WaitSafe'
    BY StepInv DEF SafeInv
  <1>1. IInv /\ TypeOK /\ Fits /\ WaitSafe
    BY DEF SafeInv, IInv
  <1>2. ASSUME UNCHANGED <<cap, slab, held, pulled>>
        PROVE  Fits' /\ WaitSafe'
    BY <1>1, <1>2 DEF Fits, WaitSafe, Unusable
  <1>3. ASSUME NEW t \in Thread, NEW c \in Page, Walk(t, c)
        PROVE  Fits' /\ WaitSafe'
    <2>1. ASSUME NEW p \in First(c), Place(t, slab, p) PROVE Fits' /\ WaitSafe'
      <3>1. p \in Page /\ slab \in [Page -> Slab] /\ UNCHANGED <<cap, pulled>>
        BY <1>1, <2>1 DEF First, Roomy, Chain, TypeOK, Place
      <3> QED BY <1>1, <2>1, <3>1, FitsPlace DEF WaitSafe
    <2> QED BY <1>2, <1>3, <2>1 DEF Walk
  <1>4. ASSUME NEW t \in Thread, SlabAlloc(t) PROVE Fits' /\ WaitSafe'
    BY <1>3, <1>4, PageFacts DEF SlabAlloc
  <1>5. ASSUME NEW t \in Thread, Retry(t) PROVE Fits' /\ WaitSafe'
    <2>1. curr[t] \in Page
      BY <1>1, <1>5, ReachIs, PageFacts DEF IInv, Waits, Retry, At, TypeOK
    <2> QED BY <1>3, <1>5, <2>1 DEF Retry
  <1>6. ASSUME NEW t \in Thread, CreateSlab(t) PROVE Fits' /\ WaitSafe'
    <2>1. ASSUME NEW p \in Lowest(Page \ live), slab' = [slab EXCEPT ![p] = Created],
                 UNCHANGED <<cap, held, pulled>>
          PROVE  Fits' /\ WaitSafe'
      <3>1. p \in Page /\ slab'[p] = Created /\ \A q \in Page \ {p} : slab'[q] = slab[q]
        BY <1>1, <2>1 DEF Lowest, TypeOK
      <3>2. Created.mask = Unusable
        BY DEF Created
      <3> QED BY <1>1, <2>1, <3>1, <3>2 DEF Fits, WaitSafe, Unusable
    <2> QED BY <1>2, <1>6, <2>1 DEF CreateSlab
  <1>7. ASSUME NEW t \in Thread, LinkSlab(t) PROVE Fits' /\ WaitSafe'
    <2>1. ASSUME Place(t, Appended(slab, curr[t], new[t]), new[t]) PROVE Fits' /\ WaitSafe'
      <3> DEFINE m == Appended(slab, curr[t], new[t])
      <3>1. curr[t] \in Page /\ new[t] \in Page
        BY <1>1, <1>7, ReachIs, PageFacts DEF IInv, Waits, LinkSlab, At, TypeOK
      <3>2. \A q \in Page : slab[q] \in Slab
        BY <1>1 DEF TypeOK
      <3>3. m \in [Page -> Slab] /\ \A q \in Page : m[q].mask = slab[q].mask
        BY <1>1, <3>1, <3>2 DEF Appended, Slab, TypeOK
      <3>4. Place(t, m, new[t]) /\ UNCHANGED <<cap, pulled>>
        BY <2>1 DEF Place
      <3> HIDE DEF m
      <3> QED BY <1>1, <3>1, <3>3, <3>4, FitsPlace DEF WaitSafe
    <2> QED BY <1>2, <1>7, <2>1 DEF LinkSlab
  <1>8. ASSUME NEW t \in Thread, SlabFree(t) PROVE Fits' /\ WaitSafe'
    <2>1. cap' = cap
      BY <1>8 DEF SlabFree
    <2> QED BY <1>1, <1>8, <2>1, FitsFree, FreedFull DEF WaitSafe, TypeOK
  <1>9. ASSUME NEW t \in Thread, DropSlab(t) \/ UnmapSlab(t) PROVE Fits' /\ WaitSafe'
    BY <1>2, <1>9 DEF DropSlab, UnmapSlab
  <1>10. CASE UNCHANGED vars
    BY <1>2, <1>10 DEF vars
  <1> QED BY <1>4, <1>5, <1>6, <1>7, <1>8, <1>9, <1>10 DEF Next

(* WaitSafe: in the kernel's caches, whose pages hold fewer objects than   *)
(* the mask has bits, no slab is taken away while an allocation that has   *)
(* dropped the lock points to it.                                          *)
THEOREM WaitSafeHolds == Spec => []WaitSafe
  <1>1. Init => SafeInv
    <2> SUFFICES ASSUME Init PROVE Fits /\ WaitSafe
      BY InitInv DEF SafeInv
    <2> QED BY DEF Init, Fits, WaitSafe, Created
  <1>2. SafeInv => WaitSafe
    BY DEF SafeInv
  <1> QED BY <1>1, <1>2, StepSafe, PTL DEF Spec

-----------------------------------------------------------------------------
(* The block an object is, and the allocator's view of the objects held.   *)
Cell(o)  == [addr |-> o.page * Slots + o.slot, size |-> 1]
Cells(h) == [t \in Thread |-> {Cell(o) : o \in h[t]}]

LEMMA RowsApart ==
  ASSUME NEW p \in Nat, NEW q \in Nat, p < q
  PROVE  p * Slots + Slots <= q * Slots
  <1>1. PICK d \in Nat : q = p + 1 + d
    <2>1. q - p - 1 \in Nat /\ q = p + 1 + (q - p - 1)
      OBVIOUS
    <2> QED BY <2>1
  <1>2. Slots \in Nat
    BY SlabAssumption
  <1>3. (p + 1 + d) * Slots = p * Slots + Slots + d * Slots
    BY <1>2
  <1>4. d * Slots \in Nat /\ p * Slots \in Nat /\ q * Slots \in Nat
    BY <1>2
  <1> QED BY <1>1, <1>2, <1>3, <1>4

(* Two objects never share an address.                                     *)
LEMMA CellsApart ==
  ASSUME NEW o \in Object, NEW d \in Object, o # d
  PROVE  Abs!Disjoint(Cell(o), Cell(d)) /\ Cell(o) # Cell(d)
  <1>1. /\ o.page \in Nat /\ d.page \in Nat /\ o.slot \in 1 .. Slots /\ d.slot \in 1 .. Slots
        /\ Slots \in Nat
        /\ o.page # d.page \/ o.slot # d.slot
    BY SlabAssumption DEF Object, Page
  <1>2. o.page < d.page => o.page * Slots + Slots <= d.page * Slots
    BY <1>1, RowsApart
  <1>3. d.page < o.page => d.page * Slots + Slots <= o.page * Slots
    BY <1>1, RowsApart
  <1>4. o.page * Slots \in Nat /\ d.page * Slots \in Nat
    BY <1>1
  <1> DEFINE a == o.page * Slots + o.slot
             b == d.page * Slots + d.slot
  <1>5. a \in Nat /\ b \in Nat /\ (a + 1 <= b \/ b + 1 <= a)
    <2>1. CASE o.page = d.page
      BY <1>1, <1>4, <2>1
    <2> DEFINE x == o.page * Slots
               y == d.page * Slots
    <2>2. /\ x \in Nat /\ y \in Nat /\ o.slot \in 1 .. Slots /\ d.slot \in 1 .. Slots
          /\ o.page = d.page \/ x + Slots <= y \/ y + Slots <= x
      BY <1>1, <1>2, <1>3, <1>4
    <2> HIDE DEF x, y
    <2>3. CASE x + Slots <= y \/ y + Slots <= x
      <3>1. x + o.slot \in Nat /\ y + d.slot \in Nat
            /\ (x + o.slot + 1 <= y + d.slot \/ y + d.slot + 1 <= x + o.slot)
        BY <1>1, <2>2, <2>3
      <3> QED BY <3>1 DEF x, y
    <2> QED BY <2>1, <2>2, <2>3
  <1> HIDE DEF a, b
  <1>6. Cell(o) = [addr |-> a, size |-> 1] /\ Cell(d) = [addr |-> b, size |-> 1]
    BY DEF Cell, a, b
  <1>7. Cell(o).addr = a /\ Cell(o).size = 1 /\ Cell(d).addr = b /\ Cell(d).size = 1
    BY <1>6
  <1> QED BY <1>5, <1>7 DEF Abs!Disjoint

LEMMA TakeRefines ==
  ASSUME TypeOK, NEW t \in Thread, NEW o \in Object, \A u \in Thread : o \notin held[u],
         held' = [held EXCEPT ![t] = @ \cup {o}]
  PROVE  Abs!Next
  <1> DEFINE A == Cells(held)
             B == Cells(held')
             b == Cell(o)
  <1>1. B[t] = A[t] \cup {b} /\ \A u \in Thread : u # t => B[u] = A[u]
    BY DEF Cells, TypeOK
  <1>2. \A u \in Thread : \A d \in A[u] : Abs!Disjoint(b, d) /\ b # d
    <2> SUFFICES ASSUME NEW u \in Thread, NEW d \in held[u]
                 PROVE  Abs!Disjoint(b, Cell(d)) /\ b # Cell(d)
      BY DEF Cells
    <2>1. d \in Object /\ d # o
      BY DEF TypeOK
    <2> QED BY <2>1, CellsApart
  <1>3. B = [A EXCEPT ![t] = @ \cup {b}]
    <2>1. A = [u \in Thread |-> A[u]] /\ B = [u \in Thread |-> B[u]]
      BY DEF Cells
    <2> HIDE DEF A, B, b
    <2> QED BY <1>1, <2>1
  <1>4. b \in B[t] \ A[t]
    BY <1>1, <1>2
  <1>5. Abs!Alloc(t)
    <2> HIDE DEF b
    <2>1. \E x \in B[t] \ A[t] : /\ \A u \in Thread : \A d \in A[u] : Abs!Disjoint(x, d)
                                 /\ B = [A EXCEPT ![t] = @ \cup {x}]
      BY <1>2, <1>3, <1>4
    <2> QED BY <2>1 DEF Abs!Alloc, Cells, Cell
  <1> QED BY <1>5 DEF Abs!Next

LEMMA FreeRefines ==
  ASSUME TypeOK, NEW t \in Thread, NEW o \in held[t],
         held' = [held EXCEPT ![t] = @ \ {o}]
  PROVE  Abs!Next
  <1> DEFINE A == Cells(held)
             B == Cells(held')
             b == Cell(o)
  <1>1. B[t] = A[t] \ {b}
    <2>1. held'[t] = held[t] \ {o} /\ held[t] \subseteq Object
      BY DEF TypeOK
    <2>2. \A d \in held[t] : Cell(d) = b => d = o
      BY <2>1, CellsApart
    <2> QED BY <2>1, <2>2 DEF Cells
  <1>2. \A u \in Thread : u # t => B[u] = A[u]
    BY DEF Cells, TypeOK
  <1>3. B = [A EXCEPT ![t] = @ \ {b}]
    <2>1. A = [u \in Thread |-> A[u]] /\ B = [u \in Thread |-> B[u]]
      BY DEF Cells
    <2> HIDE DEF A, B, b
    <2> QED BY <1>1, <1>2, <2>1
  <1>4. b \in A[t]
    BY DEF Cells
  <1>5. Abs!Free(t)
    <2> HIDE DEF b
    <2>1. \E x \in A[t] : B = [A EXCEPT ![t] = @ \ {x}]
      BY <1>3, <1>4
    <2> QED BY <2>1 DEF Abs!Free, Cells, Cell
  <1> QED BY <1>5 DEF Abs!Next

(* A slot whose bit is clear, or on a slab that is not listed, is nobody's. *)
LEMMA PlaceRefines ==
  ASSUME IInv, NEW t \in Thread, NEW m, NEW p \in Page,
         p \in Listed => m[p].mask = slab[p].mask, Place(t, m, p)
  PROVE  Abs!Next
  <1>1. PICK s \in Lowest((1 .. Slots) \ m[p].mask) :
          held' = [held EXCEPT ![t] = @ \cup {[page |-> p, slot |-> s]}]
    BY DEF Place
  <1> DEFINE o == [page |-> p, slot |-> s]
  <1>2. s \in 1 .. Slots /\ s \notin m[p].mask
    BY DEF Lowest
  <1>3. o \in Object /\ o.page = p /\ o.slot = s
    BY <1>2 DEF Object
  <1> HIDE DEF o
  <1>4. \A u \in Thread : o \notin held[u]
    BY <1>2, <1>3 DEF IInv, Objects, Listed
  <1>5. held' = [held EXCEPT ![t] = @ \cup {o}]
    BY <1>1 DEF o
  <1> QED BY <1>3, <1>4, <1>5, TakeRefines DEF IInv

LEMMA WalkRefines ==
  ASSUME IInv, NEW t \in Thread, NEW c, Walk(t, c)
  PROVE  Abs!Next \/ held' = held
  <1>1. \A p \in First(c) : p \in Page
    BY DEF First, Roomy, Chain
  <1> QED BY <1>1, PlaceRefines DEF Walk

LEMMA StepRefines == IInv /\ [Next]_vars => Abs!Next \/ held' = held
  <1> SUFFICES ASSUME IInv, [Next]_vars PROVE Abs!Next \/ held' = held
    OBVIOUS
  <1>1. ASSUME NEW t \in Thread, LinkSlab(t) PROVE Abs!Next \/ held' = held
    <2> DEFINE m == Appended(slab, curr[t], new[t])
    <2>1. CASE Place(t, m, new[t])
      <3>1. Waits(slab, t) /\ pc[t] = "link"
        BY <1>1 DEF IInv, LinkSlab, At
      <3>2. new[t] \in Page /\ new[t] \notin Listed
        BY <3>1 DEF IInv, TypeOK, Waits, Listed
      <3> HIDE DEF m
      <3> QED BY <2>1, <3>2, PlaceRefines
    <2>2. CASE UNCHANGED held
      BY <2>2
    <2> QED BY <1>1, <2>1, <2>2 DEF LinkSlab
  <1>2. ASSUME NEW t \in Thread, SlabFree(t) PROVE Abs!Next
    <2>1. PICK o \in held[t] : held' = [held EXCEPT ![t] = @ \ {o}]
      BY <1>2 DEF SlabFree
    <2> QED BY <2>1, FreeRefines DEF IInv
  <1>3. ASSUME NEW t \in Thread, SlabAlloc(t) \/ Retry(t) PROVE Abs!Next \/ held' = held
    BY <1>3, WalkRefines DEF SlabAlloc, Retry
  <1>4. ASSUME NEW t \in Thread, CreateSlab(t) \/ DropSlab(t) \/ UnmapSlab(t) PROVE held' = held
    BY <1>4 DEF CreateSlab, DropSlab, UnmapSlab
  <1>5. CASE UNCHANGED vars
    BY <1>5 DEF vars
  <1> QED BY <1>1, <1>2, <1>3, <1>4, <1>5 DEF Next

(* ImplementsAllocator: a slab cache is the allocator the heap is, and no  *)
(* object is handed out twice.                                             *)
THEOREM SlabIsAllocator == Spec => ImplementsAllocator
  <1>1. Init => Abs!Init
    BY DEF Init, Abs!Init
  <1>2. IInv /\ [Next]_vars => [Abs!Next]_(Cells(held))
    BY StepRefines
  <1>3. Cells(held) = [t \in Thread |-> {[addr |-> o.page * Slots + o.slot, size |-> 1] : o \in held[t]}]
    BY DEF Cells, Cell
  <1> QED BY <1>1, <1>2, <1>3, Inductive, PTL DEF Spec, ImplementsAllocator, Abs!Spec, Cells, Cell
=============================================================================
