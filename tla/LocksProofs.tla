---------------------------- MODULE LocksProofs -----------------------------
(***************************************************************************)
(* Spinlocks, the interrupt flag and ACPICA's semaphore, for any number of *)
(* tasks and any choice of the paths they run: no tasks ever wait for each *)
(* other, and a unit of the semaphore is never with two.                   *)
(***************************************************************************)
EXTENDS Locks, FiniteSetTheorems, SequenceTheorems, TLAPS

(* The order in which locks are taken: each only while the ones held have  *)
(* a higher rank.                                                          *)
Rank(l) == IF l = "slab" THEN 2 ELSE IF l = "vmm" THEN 1 ELSE 0

LockOps(L) == {"acq", "rel"} \X L
Op == LockOps(Lock) \cup {<<op>> : op \in {"cli", "sti", "save", "restore",
                                           "wait", "try", "store", "signal"}}

Acquires(x, l) == x[1] = "acq" /\ x[2] = l
Releases(x, l) == x[1] = "rel" /\ x[2] = l

(* The locks a task holds that has done the first k - 1 steps of s.        *)
HeldAt(s, k) ==
  {l \in Lock : \E i \in 1 .. k - 1 : /\ Acquires(s[i], l)
                                      /\ \A j \in i + 1 .. k - 1 : ~Releases(s[j], l)}

(* s takes locks in the order of their ranks, releases only what it holds, *)
(* and releases everything.                                                *)
Nested(s) ==
  /\ HeldAt(s, Len(s) + 1) = {}
  /\ \A k \in 1 .. Len(s), l \in Lock :
       /\ Acquires(s[k], l) => \A h \in HeldAt(s, k) : Rank(l) < Rank(h)
       /\ Releases(s[k], l) => l \in HeldAt(s, k)

Calls(A) == {s \in Seq(A) : Nested(s)}

(* The steps of a path: of one that leaves the interrupt flag alone, of one *)
(* that turns interrupts off, of the whole of one that uses the semaphore   *)
(* or the locks of ACPICA.                                                  *)
PlainOps  == LockOps(Lock)
MaskedOps == LockOps(Lock \ {"slab"}) \cup {<<"cli">>, <<"sti">>}

Plain  == {"alloc", "slab", "fs"}
Masked == {"exec", "kill", "dirscan"}

MutexPath(w) == <<<<w>>, <<"store">>, <<"acq", "slab">>, <<"rel", "slab">>, <<"signal">>>>
LocksPath    == <<<<"save">>, <<"save">>, <<"restore">>, <<"restore">>>>

Fits(p, s) ==
  /\ s \in Calls(Op)
  /\ p \in Plain => s \in Seq(PlainOps)
  /\ p \in Masked => s \in Seq(MaskedOps) /\ s # <<>> /\ s[Len(s)] = <<"sti">>
  /\ p = "mutex" => s \in {MutexPath("wait"), MutexPath("try")}
  /\ p = "locks" => s = LocksPath

(* Between two paths a task has nothing.                                   *)
Has(h, t) == {l \in Lock : h[l] = t}
HeldBy(t) == Has(holder, t)

Resting(t) == /\ todo[t] = <<>> /\ HeldBy(t) = {} /\ int[t] /\ saved[t] = <<>>
              /\ t \notin owners

(* t has the k-th and the later steps of path s before it.                 *)
Along(t, s, k) ==
  /\ k \in 1 .. Len(s)
  /\ Len(todo[t]) = Len(s) + 1 - k
  /\ \A i \in 1 .. Len(todo[t]) : todo[t][i] = s[k + i - 1]
  /\ HeldBy(t) = HeldAt(s, k)

Flags(t, p, k) ==
  /\ p \notin Masked \cup {"locks"} => int[t]
  /\ p # "locks" => saved[t] = <<>>
  /\ p = "locks" => /\ int[t] <=> k = 1
                    /\ k = 1 => saved[t] = <<>>
                    /\ k = 3 => Len(saved[t]) = 2 /\ saved[t][1] /\ ~saved[t][2]
                    /\ k \in {2, 4} => Len(saved[t]) = 1 /\ saved[t][1]
  /\ p = "mutex" /\ k = 2 => loaded[t] >= 1
  /\ t \in owners <=> p = "mutex" /\ k > 2

Where(t) ==
  \/ Resting(t)
  \/ \E p \in DOMAIN Path : \E s \in Path[p] : \E k \in 1 .. Len(s) : Along(t, s, k) /\ Flags(t, p, k)

IInv == /\ TypeOK
        /\ \A t \in Task : (~int[t] => t = cur) /\ Where(t)
        /\ ~raced => units + Cardinality(owners) = 1

-----------------------------------------------------------------------------
(* Sequences of steps.                                                     *)
LEMMA CallsMore ==
  ASSUME NEW A, NEW B, A \subseteq B
  PROVE  Calls(A) \subseteq Calls(B)
  BY DEF Calls

LEMMA Single ==
  ASSUME NEW op \in {"cli", "sti", "save", "restore", "wait", "try", "store", "signal"}
  PROVE  Do(op) \in Calls({<<op>>})
  <1> DEFINE s == <<<<op>>>>
  <1>1. s \in Seq({<<op>>}) /\ Len(s) = 1 /\ s[1] = <<op>> /\ s[1][1] = op
    OBVIOUS
  <1> HIDE DEF s
  <1>2. \A i \in 1 .. 1, l \in Lock : ~Acquires(s[i], l) /\ ~Releases(s[i], l)
    BY <1>1 DEF Acquires, Releases
  <1>3. HeldAt(s, 2) = {}
    BY <1>2 DEF HeldAt
  <1>4. Nested(s)
    BY <1>1, <1>2, <1>3 DEF Nested
  <1> QED BY <1>1, <1>4 DEF Calls, Do, s

(* A call after a call.                                                    *)
LEMMA InSequence ==
  ASSUME NEW A, NEW s \in Calls(A), NEW u \in Calls(A)
  PROVE  s \o u \in Calls(A)
  <1> DEFINE w == s \o u
             m == Len(s)
             n == Len(u)
  <1>1. /\ w \in Seq(A) /\ m \in Nat /\ n \in Nat /\ Len(w) = m + n
        /\ \A i \in 1 .. m : w[i] = s[i]
        /\ \A i \in 1 .. n : w[m + i] = u[i]
        /\ Nested(s) /\ Nested(u)
    BY DEF Calls
  <1> HIDE DEF w, m, n
  <1>2. ASSUME NEW k \in 1 .. m + 1 PROVE HeldAt(w, k) = HeldAt(s, k)
    BY <1>1 DEF HeldAt
  <1>3. ASSUME NEW k \in 1 .. n + 1 PROVE HeldAt(w, m + k) = HeldAt(u, k)
    <2>1. ASSUME NEW l \in HeldAt(u, k) PROVE l \in HeldAt(w, m + k)
      <3>1. PICK i \in 1 .. k - 1 : /\ Acquires(u[i], l)
                                    /\ \A j \in i + 1 .. k - 1 : ~Releases(u[j], l)
        BY DEF HeldAt
      <3>2. m + i \in 1 .. (m + k) - 1 /\ Acquires(w[m + i], l)
        BY <1>1, <3>1
      <3>3. ASSUME NEW j \in m + i + 1 .. (m + k) - 1 PROVE ~Releases(w[j], l)
        <4>1. j - m \in i + 1 .. k - 1 /\ j - m \in 1 .. n /\ m + (j - m) = j
          BY <1>1, <3>1
        <4> QED BY <1>1, <3>1, <4>1
      <3>4. l \in Lock
        BY DEF HeldAt
      <3> QED BY <3>2, <3>3, <3>4 DEF HeldAt
    <2>2. ASSUME NEW l \in HeldAt(w, m + k) PROVE l \in HeldAt(u, k)
      <3>1. l \in Lock
        BY DEF HeldAt
      <3>2. PICK i \in 1 .. (m + k) - 1 : /\ Acquires(w[i], l)
                                        /\ \A j \in i + 1 .. (m + k) - 1 : ~Releases(w[j], l)
        BY DEF HeldAt
      <3>3. i > m
        <4> SUFFICES ASSUME i <= m PROVE FALSE
          BY <1>1
        <4>1. i \in 1 .. m /\ Acquires(s[i], l)
          BY <1>1, <3>2
        <4>2. \A j \in i + 1 .. m : j \in i + 1 .. (m + k) - 1 /\ w[j] = s[j]
          BY <1>1, <3>2
        <4>3. l \in HeldAt(s, m + 1)
          BY <1>1, <3>1, <3>2, <4>1, <4>2 DEF HeldAt
        <4> QED BY <1>1, <4>3 DEF Nested, m
      <3>4. i - m \in 1 .. k - 1 /\ i - m \in 1 .. n /\ m + (i - m) = i
        BY <1>1, <3>2, <3>3
      <3>5. Acquires(u[i - m], l)
        BY <1>1, <3>2, <3>4
      <3>6. ASSUME NEW j \in (i - m) + 1 .. k - 1 PROVE ~Releases(u[j], l)
        <4>1. m + j \in i + 1 .. (m + k) - 1 /\ j \in 1 .. n
          BY <1>1, <3>2, <3>4
        <4> QED BY <1>1, <3>2, <4>1
      <3> QED BY <3>1, <3>4, <3>5, <3>6 DEF HeldAt
    <2> QED BY <2>1, <2>2
  <1>4. HeldAt(w, Len(w) + 1) = {}
    <2>1. n + 1 \in 1 .. n + 1 /\ Len(w) + 1 = m + (n + 1)
      BY <1>1
    <2> QED BY <1>1, <1>3, <2>1 DEF Nested, n
  <1>5. ASSUME NEW k \in 1 .. Len(w), NEW l \in Lock
        PROVE  /\ Acquires(w[k], l) => \A h \in HeldAt(w, k) : Rank(l) < Rank(h)
               /\ Releases(w[k], l) => l \in HeldAt(w, k)
    <2>1. CASE k <= m
      <3>1. k \in 1 .. m /\ w[k] = s[k] /\ HeldAt(w, k) = HeldAt(s, k)
        BY <1>1, <1>2, <2>1
      <3> QED BY <1>1, <3>1 DEF Nested, m
    <2>2. CASE k > m
      <3>1. k - m \in 1 .. n /\ k = m + (k - m)
        BY <1>1, <2>2
      <3>2. w[k] = u[k - m] /\ HeldAt(w, k) = HeldAt(u, k - m)
        BY <1>1, <1>3, <3>1
      <3> QED BY <1>1, <3>1, <3>2 DEF Nested, n
    <2> QED BY <1>1, <2>1, <2>2
  <1>6. Nested(w)
    BY <1>4, <1>5 DEF Nested
  <1> QED BY <1>1, <1>6 DEF Calls, w

(* A call under a lock of a higher rank.                                   *)
LEMMA Inside ==
  ASSUME NEW l \in Lock, NEW L \in SUBSET Lock, NEW s \in Calls(LockOps(L)),
         \A h \in L : Rank(h) < Rank(l)
  PROVE  Acq(l) \o s \o Rel(l) \in Calls(LockOps(L \cup {l}))
  <1> DEFINE w == <<<<"acq", l>>>> \o s \o <<<<"rel", l>>>>
             m == Len(s)
             A == LockOps(L \cup {l})
  <1>1. s \in Seq(LockOps(L)) /\ m \in Nat /\ Nested(s)
    BY DEF Calls
  <1>2. LockOps(L) \subseteq A /\ <<"acq", l>> \in A /\ <<"rel", l>> \in A
    BY DEF LockOps
  <1>3. /\ w \in Seq(A) /\ Len(w) = m + 2
        /\ w[1] = <<"acq", l>> /\ w[m + 2] = <<"rel", l>>
        /\ \A i \in 1 .. m : w[i + 1] = s[i]
    <2> DEFINE v == <<<<"acq", l>>>> \o s
               x == <<<<"rel", l>>>>
    <2>1. s \in Seq(A)
      BY <1>1, <1>2, SeqMonotonic
    <2>2. <<<<"acq", l>>>> \in Seq(A) /\ x \in Seq(A)
      BY <1>2
    <2> HIDE DEF A
    <2>3. v \in Seq(A) /\ Len(v) = m + 1 /\ v[1] = <<"acq", l>> /\ \A i \in 1 .. m : v[i + 1] = s[i]
      BY <2>1, <2>2
    <2>4. Len(x) = 1 /\ x[1] = <<"rel", l>>
      OBVIOUS
    <2>5. w = v \o x
      OBVIOUS
    <2> HIDE DEF v, m, x, w
    <2>6. w \in Seq(A) /\ Len(w) = Len(v) + Len(x)
      BY <2>2, <2>3, <2>5, ConcatProperties
    <2>7. \A i \in 1 .. m + 1 : w[i] = v[i]
      BY <1>1, <2>2, <2>3, <2>5
    <2>8. w[(m + 1) + 1] = x[1]
      <3>1. /\ (m + 1) + 1 \in 1 .. Len(v) + Len(x) /\ ~((m + 1) + 1 <= Len(v))
            /\ (m + 1) + 1 - Len(v) = 1
        BY <1>1, <2>3, <2>4
      <3> QED BY <2>2, <2>3, <2>5, <3>1, ConcatProperties
    <2>9. (m + 1) + 1 = m + 2 /\ 1 \in 1 .. m + 1 /\ \A i \in 1 .. m : i + 1 \in 1 .. m + 1
      BY <1>1
    <2> QED BY <1>1, <2>3, <2>4, <2>6, <2>7, <2>8, <2>9
  <1>4. /\ w[1] = <<"acq", l>> /\ w[m + 2] = <<"rel", l>>
        /\ \A i \in 1 .. m : w[i + 1] = s[i]
    BY <1>3
  <1>5. \A i \in 1 .. m : s[i][1] \in {"acq", "rel"} /\ s[i][2] \in L /\ s[i][2] # l
    BY <1>1 DEF LockOps, Rank
  <1> HIDE DEF w, m, A
  <1>6. ASSUME NEW k \in 1 .. m + 1 PROVE HeldAt(w, k + 1) = HeldAt(s, k) \cup {l}
    <2>1. l \in HeldAt(w, k + 1)
      <3>1. 1 \in 1 .. (k + 1) - 1 /\ Acquires(w[1], l)
        BY <1>1, <1>4 DEF Acquires
      <3>2. ASSUME NEW j \in 1 + 1 .. (k + 1) - 1 PROVE ~Releases(w[j], l)
        <4>1. j - 1 \in 1 .. m /\ j = (j - 1) + 1
          BY <1>1
        <4>2. w[j] = s[j - 1]
          BY <1>4, <4>1
        <4> QED BY <1>5, <4>1, <4>2 DEF Releases
      <3> QED BY <3>1, <3>2 DEF HeldAt
    <2>2. ASSUME NEW h \in HeldAt(s, k) PROVE h \in HeldAt(w, k + 1)
      <3>1. PICK i \in 1 .. k - 1 : /\ Acquires(s[i], h)
                                    /\ \A j \in i + 1 .. k - 1 : ~Releases(s[j], h)
        BY DEF HeldAt
      <3>2. i + 1 \in 1 .. (k + 1) - 1 /\ Acquires(w[i + 1], h)
        BY <1>1, <1>4, <3>1
      <3>3. ASSUME NEW j \in (i + 1) + 1 .. (k + 1) - 1 PROVE ~Releases(w[j], h)
        <4>1. j - 1 \in i + 1 .. k - 1 /\ j - 1 \in 1 .. m /\ j = (j - 1) + 1
          BY <1>1, <3>1
        <4>2. w[j] = s[j - 1]
          BY <1>4, <4>1
        <4> QED BY <3>1, <4>1, <4>2
      <3>4. h \in Lock
        BY DEF HeldAt
      <3> QED BY <3>2, <3>3, <3>4 DEF HeldAt
    <2>3. ASSUME NEW h \in HeldAt(w, k + 1), h # l PROVE h \in HeldAt(s, k)
      <3>1. h \in Lock
        BY DEF HeldAt
      <3>2. PICK i \in 1 .. (k + 1) - 1 : /\ Acquires(w[i], h)
                                          /\ \A j \in i + 1 .. (k + 1) - 1 : ~Releases(w[j], h)
        BY DEF HeldAt
      <3>3. i # 1
        BY <1>4, <2>3, <3>2 DEF Acquires
      <3>4. i - 1 \in 1 .. k - 1 /\ i - 1 \in 1 .. m /\ i = (i - 1) + 1
        BY <1>1, <3>2, <3>3
      <3>5. Acquires(s[i - 1], h)
        BY <1>4, <3>2, <3>4
      <3>6. ASSUME NEW j \in (i - 1) + 1 .. k - 1 PROVE ~Releases(s[j], h)
        <4>1. j + 1 \in i + 1 .. (k + 1) - 1 /\ j \in 1 .. m
          BY <1>1, <3>2, <3>4
        <4> QED BY <1>4, <3>2, <4>1
      <3> QED BY <3>1, <3>4, <3>5, <3>6 DEF HeldAt
    <2> QED BY <2>1, <2>2, <2>3
  <1>7. HeldAt(w, 1) = {}
    BY DEF HeldAt
  <1>8. HeldAt(w, m + 2) = {l}
    <2>1. HeldAt(w, (m + 1) + 1) = HeldAt(s, m + 1) \cup {l}
      BY <1>1, <1>6
    <2>2. HeldAt(s, m + 1) = {} /\ (m + 1) + 1 = m + 2
      BY <1>1 DEF Nested, m
    <2> QED BY <2>1, <2>2
  <1>9. HeldAt(w, Len(w) + 1) = {}
    <2> SUFFICES ASSUME NEW h \in HeldAt(w, Len(w) + 1) PROVE FALSE
      OBVIOUS
    <2>1. h \in Lock /\ Len(w) = m + 2
      BY <1>3 DEF HeldAt
    <2>2. PICK i \in 1 .. m + 2 : /\ Acquires(w[i], h)
                                  /\ \A j \in i + 1 .. m + 2 : ~Releases(w[j], h)
      BY <1>1, <2>1 DEF HeldAt
    <2>3. i # m + 2
      BY <1>4, <2>2 DEF Acquires
    <2>4. h # l
      BY <1>1, <1>4, <2>2, <2>3 DEF Releases
    <2>5. i \in 1 .. (m + 2) - 1 /\ \A j \in i + 1 .. (m + 2) - 1 : j \in i + 1 .. m + 2
      BY <1>1, <2>2, <2>3
    <2>6. h \in HeldAt(w, m + 2)
      BY <2>1, <2>2, <2>5 DEF HeldAt
    <2> QED BY <1>8, <2>4, <2>6
  <1>10. ASSUME NEW k \in 1 .. Len(w), NEW g \in Lock
        PROVE  /\ Acquires(w[k], g) => \A h \in HeldAt(w, k) : Rank(g) < Rank(h)
               /\ Releases(w[k], g) => g \in HeldAt(w, k)
    <2>1. CASE k = 1
      BY <1>4, <1>7, <2>1 DEF Releases
    <2>2. CASE k = m + 2
      BY <1>4, <1>8, <2>2 DEF Acquires, Releases
    <2>3. CASE k # 1 /\ k # m + 2
      <3>1. k - 1 \in 1 .. m /\ k - 1 \in 1 .. m + 1 /\ k = (k - 1) + 1
        BY <1>1, <1>3, <2>3
      <3>2. w[k] = s[k - 1] /\ HeldAt(w, k) = HeldAt(s, k - 1) \cup {l}
        BY <1>4, <1>6, <3>1
      <3>3. /\ Acquires(s[k - 1], g) => \A h \in HeldAt(s, k - 1) : Rank(g) < Rank(h)
            /\ Releases(s[k - 1], g) => g \in HeldAt(s, k - 1)
        BY <1>1, <3>1 DEF Nested, m
      <3>4. Acquires(s[k - 1], g) => Rank(g) < Rank(l)
        BY <1>5, <3>1 DEF Acquires
      <3> QED BY <3>2, <3>3, <3>4
    <2> QED BY <2>1, <2>2, <2>3
  <1>11. Nested(w)
    BY <1>9, <1>10 DEF Nested
  <1> QED BY <1>3, <1>11 DEF Calls, Acq, Rel, w, A

LEMMA Pair ==
  ASSUME NEW l \in Lock
  PROVE  Acq(l) \o Rel(l) \in Calls(LockOps({l}))
  <1>1. <<>> \in Calls(LockOps({}))
    BY DEF Calls, Nested, HeldAt
  <1>2. Acq(l) \o <<>> \o Rel(l) \in Calls(LockOps({} \cup {l}))
    BY <1>1, Inside
  <1>3. Acq(l) \o <<>> = Acq(l) /\ {} \cup {l} = {l}
    BY DEF Acq
  <1> QED BY <1>2, <1>3

(* A call, and then one that takes a lock and gives it back.               *)
LEMMA ThenPair ==
  ASSUME NEW A, NEW l \in Lock, LockOps({l}) \subseteq A, NEW s \in Calls(A)
  PROVE  s \o Acq(l) \o Rel(l) \in Calls(A)
  <1>1. Acq(l) \o Rel(l) \in Calls(A)
    BY Pair, CallsMore
  <1>2. s \in Seq(A) /\ Acq(l) \in Seq(A) /\ Rel(l) \in Seq(A)
    <2>1. <<"acq", l>> \in A /\ <<"rel", l>> \in A
      BY DEF LockOps
    <2> QED BY <2>1 DEF Calls, Acq, Rel
  <1>3. (s \o Acq(l)) \o Rel(l) = s \o (Acq(l) \o Rel(l))
    BY <1>2, ConcatAssociative
  <1> QED BY <1>1, <1>3, InSequence

-----------------------------------------------------------------------------
(* The functions of the kernel.                                            *)
NoSlab == Lock \ {"slab"}
Light  == Calls(LockOps(NoSlab))
Any    == Calls(PlainOps)

LEMMA OpsGrow ==
  /\ \A L, M : L \subseteq M => LockOps(L) \subseteq LockOps(M)
  /\ LockOps(NoSlab) \subseteq PlainOps /\ LockOps(NoSlab) \subseteq MaskedOps
  /\ PlainOps \subseteq Op /\ MaskedOps \subseteq Op
  /\ \A l \in NoSlab : l \in Lock /\ LockOps({l}) \subseteq LockOps(NoSlab)
  /\ \A l \in Lock : LockOps({l}) \subseteq PlainOps /\ LockOps({l}) \subseteq Op
  /\ {"pmm", "vmm"} \subseteq NoSlab /\ "heap" \in NoSlab /\ "bdl" \in NoSlab /\ "slab" \in Lock
  BY DEF LockOps, NoSlab, PlainOps, MaskedOps, Op, Lock

LEMMA LightIsAny == Light \subseteq Any /\ Light \subseteq Calls(MaskedOps)
  BY OpsGrow, CallsMore DEF Light, Any

LEMMA PairIsLight ==
  ASSUME NEW l \in NoSlab
  PROVE  Acq(l) \o Rel(l) \in Light
  BY Pair, OpsGrow, CallsMore DEF Light

LEMMA FrameCalls ==
  /\ pmm_alloc_page \in Calls(LockOps({"pmm"})) /\ pmm_alloc_page \in Light
  /\ pmm_free_page \in Light /\ vmm_unmap_page \in Light
  /\ kfree \in Light /\ bdl_read \in Light
  BY Pair, PairIsLight, OpsGrow DEF pmm_alloc_page, pmm_free_page, vmm_unmap_page, kfree, bdl_read

LEMMA MapCalls == vmm_map_page \subseteq Calls(LockOps({"pmm", "vmm"})) /\ vmm_map_page \subseteq Light
  <1>1. {<<>>, pmm_alloc_page} \subseteq Calls(LockOps({"pmm"}))
    BY FrameCalls DEF Calls, Nested, HeldAt
  <1>2. /\ "vmm" \in Lock /\ {"pmm"} \in SUBSET Lock /\ \A h \in {"pmm"} : Rank(h) < Rank("vmm")
        /\ {"pmm"} \cup {"vmm"} = {"pmm", "vmm"}
    BY OpsGrow DEF Rank, NoSlab
  <1>3. ASSUME NEW s \in {<<>>, pmm_alloc_page}
        PROVE  Acq("vmm") \o s \o Rel("vmm") \in Calls(LockOps({"pmm", "vmm"}))
    <2>1. Acq("vmm") \o s \o Rel("vmm") \in Calls(LockOps({"pmm"} \cup {"vmm"}))
      BY <1>1, <1>2, Inside
    <2> QED BY <1>2, <2>1
  <1>4. vmm_map_page \subseteq Calls(LockOps({"pmm", "vmm"}))
    BY <1>3 DEF vmm_map_page, Under
  <1>5. Calls(LockOps({"pmm", "vmm"})) \subseteq Light
    BY OpsGrow, CallsMore DEF Light
  <1> QED BY <1>4, <1>5

LEMMA HeapCalls == kheap_expand \subseteq Light /\ kmalloc \subseteq Light
  <1>1. kheap_expand \subseteq Light
    <2> SUFFICES ASSUME NEW m \in vmm_map_page
                 PROVE  pmm_alloc_page \o m \o Acq("heap") \o Rel("heap") \o kfree \in Light
      BY DEF kheap_expand
    <2>1. pmm_alloc_page \o m \in Light
      BY FrameCalls, MapCalls, InSequence DEF Light
    <2>2. pmm_alloc_page \o m \o Acq("heap") \o Rel("heap") \in Light
      BY <2>1, OpsGrow, ThenPair DEF Light
    <2> QED BY <2>2, FrameCalls, InSequence DEF Light
  <1>2. kmalloc \subseteq Light
    <2> DEFINE try == Acq("heap") \o Rel("heap")
    <2>1. try \in Light
      BY PairIsLight, OpsGrow
    <2> HIDE DEF try
    <2>2. ASSUME NEW e \in kheap_expand PROVE try \o e \o try \in Light
      <3>1. try \o e \in Light
        BY <1>1, <2>1, InSequence DEF Light
      <3> QED BY <2>1, <3>1, InSequence DEF Light
    <2>3. kmalloc = {try} \cup {try \o e \o try : e \in kheap_expand}
      BY DEF kmalloc, try
    <2> QED BY <2>1, <2>2, <2>3
  <1> QED BY <1>1, <1>2

LEMMA SlabCalls == slab_alloc \subseteq Any /\ slab_free \subseteq Any
  <1> DEFINE look == Acq("slab") \o Rel("slab")
  <1>1. look \in Any
    <2>1. look \in Calls(LockOps({"slab"}))
      BY Pair, OpsGrow
    <2> QED BY <2>1, OpsGrow, CallsMore DEF Any
  <1>2. create_slab \subseteq Any
    <2>1. /\ {"pmm", "vmm"} \in SUBSET Lock /\ \A h \in {"pmm", "vmm"} : Rank(h) < Rank("slab")
          /\ LockOps({"pmm", "vmm"} \cup {"slab"}) \subseteq PlainOps
      BY OpsGrow DEF Rank, NoSlab, PlainOps
    <2>2. ASSUME NEW m \in vmm_map_page PROVE Acq("slab") \o m \o Rel("slab") \in Any
      <3>1. Acq("slab") \o m \o Rel("slab") \in Calls(LockOps({"pmm", "vmm"} \cup {"slab"}))
        BY <2>1, MapCalls, OpsGrow, Inside
      <3> QED BY <2>1, <3>1, CallsMore DEF Any
    <2>3. ASSUME NEW m \in vmm_map_page PROVE pmm_alloc_page \o (Acq("slab") \o m \o Rel("slab")) \in Any
      BY <2>2, FrameCalls, LightIsAny, InSequence DEF Any
    <2> SUFFICES ASSUME NEW c \in create_slab PROVE c \in Any
      OBVIOUS
    <2>4. PICK u \in Under("slab", vmm_map_page) : c = pmm_alloc_page \o u
      BY DEF create_slab, Then
    <2>5. PICK m \in vmm_map_page : u = Acq("slab") \o m \o Rel("slab")
      BY DEF Under
    <2> QED BY <2>3, <2>4, <2>5
  <1>3. drop_slab \in Any
    BY FrameCalls, LightIsAny, InSequence DEF drop_slab, Any
  <1> HIDE DEF look
  <1>4. ASSUME NEW c \in create_slab
        PROVE  look \o c \o look \in Any /\ look \o c \o look \o drop_slab \o look \in Any
    <2>1. look \o c \in Any
      BY <1>1, <1>2, InSequence DEF Any
    <2>2. look \o c \o look \in Any
      BY <1>1, <2>1, InSequence DEF Any
    <2>3. look \o c \o look \o drop_slab \in Any
      BY <1>3, <2>2, InSequence DEF Any
    <2> QED BY <1>1, <2>2, <2>3, InSequence DEF Any
  <1>5. slab_alloc \subseteq Any
    <2>1. slab_alloc = {look} \cup {look \o c \o look : c \in create_slab}
                              \cup {look \o c \o look \o drop_slab \o look : c \in create_slab}
      BY DEF slab_alloc, look
    <2> QED BY <1>1, <1>4, <2>1
  <1>6. slab_free \subseteq Any
    <2>1. slab_free = {look, look \o drop_slab}
      BY DEF slab_free, look
    <2> QED BY <1>1, <1>3, <2>1, InSequence DEF Any
  <1> QED BY <1>5, <1>6

(* Between cli and sti, of either kind.                                    *)
LEMMA MaskedCalls ==
  ASSUME NEW s \in Calls(MaskedOps)
  PROVE  LET w == Do("cli") \o s \o Do("sti")
         IN  w \in Calls(MaskedOps) /\ w # <<>> /\ w[Len(w)] = <<"sti">>
  <1>1. Do("cli") \in Calls(MaskedOps) /\ Do("sti") \in Calls(MaskedOps)
    <2>1. {<<"cli">>} \subseteq MaskedOps /\ {<<"sti">>} \subseteq MaskedOps
      BY DEF MaskedOps
    <2> QED BY <2>1, Single, CallsMore
  <1> DEFINE v == Do("cli") \o s
             x == Do("sti")
  <1>2. v \in Calls(MaskedOps)
    BY <1>1, InSequence
  <1>3. Len(x) = 1 /\ x[1] = <<"sti">>
    BY DEF Do
  <1>4. v \in Seq(MaskedOps) /\ x \in Seq(MaskedOps) /\ Len(v) \in Nat
    BY <1>1, <1>2 DEF Calls
  <1> HIDE DEF v, x
  <1>5. v \o x \in Calls(MaskedOps)
    BY <1>1, <1>2, InSequence DEF x
  <1>6. Len(v \o x) = Len(v) + 1
    BY <1>3, <1>4, ConcatProperties
  <1>7. (v \o x)[Len(v) + 1] = x[1]
    <2>1. /\ Len(v) + 1 \in 1 .. Len(v) + Len(x) /\ ~(Len(v) + 1 <= Len(v))
          /\ Len(v) + 1 - Len(v) = 1
      BY <1>3, <1>4
    <2> QED BY <1>4, <2>1, ConcatProperties
  <1>8. v \o x # <<>>
    BY <1>4, <1>6
  <1> QED BY <1>3, <1>5, <1>6, <1>7, <1>8 DEF v, x

LEMMA SystemCalls ==
  ASSUME NEW p \in Masked, NEW s \in Path[p]
  PROVE  s \in Calls(MaskedOps) /\ s # <<>> /\ s[Len(s)] = <<"sti">>
  <1> DEFINE Ok(w) == w \in Calls(MaskedOps) /\ w # <<>> /\ w[Len(w)] = <<"sti">>
  <1>1. ASSUME NEW w \in Calls(MaskedOps) PROVE Ok(Do("cli") \o w \o Do("sti"))
    BY MaskedCalls
  <1>2. Light \subseteq Calls(MaskedOps)
    BY LightIsAny
  <1>3. \A w \in map_elf_segments : Ok(w)
    <2> SUFFICES ASSUME NEW m \in vmm_map_page
                 PROVE  Ok(Do("cli") \o pmm_alloc_page \o m \o Do("sti"))
      BY DEF map_elf_segments
    <2>1. pmm_alloc_page \o m \in Light
      BY FrameCalls, MapCalls, InSequence DEF Light
    <2>2. Ok(Do("cli") \o (pmm_alloc_page \o m) \o Do("sti"))
      BY <1>1, <1>2, <2>1
    <2>3. Do("cli") \o (pmm_alloc_page \o m) = (Do("cli") \o pmm_alloc_page) \o m
      <3>1. Do("cli") \in Seq(Op) /\ pmm_alloc_page \in Seq(Op) /\ m \in Seq(Op)
        <4>1. Light \subseteq Calls(Op) /\ {<<"cli">>} \subseteq Op
          BY OpsGrow, CallsMore DEF Light, Op
        <4>2. Do("cli") \in Calls(Op)
          BY <4>1, Single, CallsMore
        <4> QED BY <4>1, <4>2, FrameCalls, MapCalls DEF Calls
      <3> QED BY <3>1, ConcatAssociative
    <2> QED BY <2>2, <2>3
  <1>4. kill_task \in Calls(MaskedOps)
    <2>1. kfree \o kfree \in Light
      BY FrameCalls, InSequence DEF Light
    <2>2. Ok(Do("cli") \o (kfree \o kfree) \o Do("sti"))
      BY <1>1, <1>2, <2>1
    <2>3. Do("cli") \o (kfree \o kfree) = (Do("cli") \o kfree) \o kfree
      <3>1. Do("cli") \in Seq(Op) /\ kfree \in Seq(Op)
        <4>1. Light \subseteq Calls(Op) /\ {<<"cli">>} \subseteq Op
          BY OpsGrow, CallsMore DEF Light, Op
        <4>2. Do("cli") \in Calls(Op)
          BY <4>1, Single, CallsMore
        <4> QED BY <4>1, <4>2, FrameCalls DEF Calls
      <3> QED BY <3>1, ConcatAssociative
    <2> QED BY <2>2, <2>3 DEF kill_task
  <1>5. dirscan \subseteq Calls(MaskedOps)
    <2> SUFFICES ASSUME NEW k \in kmalloc PROVE bdl_read \o k \o kfree \in Light
      BY <1>2 DEF dirscan
    <2>1. bdl_read \o k \in Light
      BY FrameCalls, HeapCalls, InSequence DEF Light
    <2> QED BY <2>1, FrameCalls, InSequence DEF Light
  <1>6. \A w \in syscall({kill_task}) \cup syscall(dirscan) : Ok(w)
    BY <1>1, <1>4, <1>5 DEF syscall
  <1>7. Path[p] \in {map_elf_segments, syscall({kill_task}), syscall(dirscan)}
    BY DEF Path, Masked
  <1> QED BY <1>3, <1>6, <1>7

(* Short sequences, step by step.                                          *)
LEMMA TwoSteps ==
  ASSUME NEW a, NEW b
  PROVE  <<a>> \o <<b>> = <<a, b>>
  <1> DEFINE S == {a, b}
  <1>1. <<a>> \in Seq(S) /\ <<b>> \in Seq(S) /\ <<a, b>> \in Seq(S)
    OBVIOUS
  <1>2. Len(<<a>> \o <<b>>) = Len(<<a, b>>)
    BY <1>1
  <1>3. \A i \in 1 .. Len(<<a, b>>) : (<<a>> \o <<b>>)[i] = <<a, b>>[i]
    BY <1>1, ConcatProperties
  <1>4. <<a>> \o <<b>> \in Seq(S)
    BY <1>1, ConcatProperties
  <1> HIDE DEF S
  <1> QED BY <1>1, <1>2, <1>3, <1>4, SeqEqual

LEMMA ThreeSteps ==
  ASSUME NEW a, NEW b, NEW c
  PROVE  <<a, b>> \o <<c>> = <<a, b, c>>
  <1> DEFINE S == {a, b, c}
  <1>1. <<a, b>> \in Seq(S) /\ <<c>> \in Seq(S) /\ <<a, b, c>> \in Seq(S)
    OBVIOUS
  <1>2. Len(<<a, b>> \o <<c>>) = Len(<<a, b, c>>)
    BY <1>1
  <1>3. \A i \in 1 .. Len(<<a, b, c>>) : (<<a, b>> \o <<c>>)[i] = <<a, b, c>>[i]
    BY <1>1, ConcatProperties
  <1>4. <<a, b>> \o <<c>> \in Seq(S)
    BY <1>1, ConcatProperties
  <1> HIDE DEF S
  <1> QED BY <1>1, <1>2, <1>3, <1>4, SeqEqual

LEMMA FourSteps ==
  ASSUME NEW a, NEW b, NEW c, NEW d
  PROVE  <<a, b, c>> \o <<d>> = <<a, b, c, d>>
  <1> DEFINE S == {a, b, c, d}
  <1>1. <<a, b, c>> \in Seq(S) /\ <<d>> \in Seq(S) /\ <<a, b, c, d>> \in Seq(S)
    OBVIOUS
  <1>2. Len(<<a, b, c>> \o <<d>>) = Len(<<a, b, c, d>>)
    BY <1>1
  <1>3. \A i \in 1 .. Len(<<a, b, c, d>>) : (<<a, b, c>> \o <<d>>)[i] = <<a, b, c, d>>[i]
    BY <1>1, ConcatProperties
  <1>4. <<a, b, c>> \o <<d>> \in Seq(S)
    BY <1>1, ConcatProperties
  <1> HIDE DEF S
  <1> QED BY <1>1, <1>2, <1>3, <1>4, SeqEqual

LEMMA FiveSteps ==
  ASSUME NEW a, NEW b, NEW c, NEW d, NEW e
  PROVE  <<a, b, c, d>> \o <<e>> = <<a, b, c, d, e>>
  <1> DEFINE S == {a, b, c, d, e}
  <1>1. <<a, b, c, d>> \in Seq(S) /\ <<e>> \in Seq(S) /\ <<a, b, c, d, e>> \in Seq(S)
    OBVIOUS
  <1>2. Len(<<a, b, c, d>> \o <<e>>) = Len(<<a, b, c, d, e>>)
    BY <1>1
  <1>3. \A i \in 1 .. Len(<<a, b, c, d, e>>) : (<<a, b, c, d>> \o <<e>>)[i] = <<a, b, c, d, e>>[i]
    BY <1>1, ConcatProperties
  <1>4. <<a, b, c, d>> \o <<e>> \in Seq(S)
    BY <1>1, ConcatProperties
  <1> HIDE DEF S
  <1> QED BY <1>1, <1>2, <1>3, <1>4, SeqEqual

LEMMA AcpiCalls ==
  /\ \A w \in {"wait", "try"} : acpi_mutex(w) = MutexPath(w) /\ MutexPath(w) \in Calls(Op)
  /\ acpi_locks = LocksPath /\ LocksPath \in Calls(Op)
  <1>1. \A op \in {"save", "restore", "wait", "try", "store", "signal"} : Do(op) \in Calls(Op)
    <2> SUFFICES ASSUME NEW op \in {"save", "restore", "wait", "try", "store", "signal"}
                 PROVE  Do(op) \in Calls(Op)
      OBVIOUS
    <2>1. Do(op) \in Calls({<<op>>})
      BY Single
    <2>2. {<<op>>} \subseteq Op
      BY DEF Op
    <2> QED BY <2>1, <2>2, CallsMore
  <1>2. ASSUME NEW w \in {"wait", "try"} PROVE acpi_mutex(w) \in Calls(Op)
    <2>1. Do(w) \o Do("store") \in Calls(Op)
      BY <1>1, InSequence
    <2>2. Do(w) \o Do("store") \o Acq("slab") \o Rel("slab") \in Calls(Op)
      BY <2>1, OpsGrow, ThenPair
    <2> QED BY <1>1, <2>2, InSequence DEF acpi_mutex
  <1>3. acpi_locks \in Calls(Op)
    <2>1. Do("save") \o Do("save") \in Calls(Op)
      BY <1>1, InSequence
    <2>2. Do("save") \o Do("save") \o Do("restore") \in Calls(Op)
      BY <1>1, <2>1, InSequence
    <2> QED BY <1>1, <2>2, InSequence DEF acpi_locks
  <1>4. \A w \in {"wait", "try"} : acpi_mutex(w) = MutexPath(w)
    <2> SUFFICES ASSUME NEW w PROVE acpi_mutex(w) = MutexPath(w)
      OBVIOUS
    <2> DEFINE a == <<w>>
               b == <<"store">>
               c == <<"acq", "slab">>
               d == <<"rel", "slab">>
               e == <<"signal">>
    <2>1. acpi_mutex(w) = <<a>> \o <<b>> \o <<c>> \o <<d>> \o <<e>> /\ MutexPath(w) = <<a, b, c, d, e>>
      BY DEF acpi_mutex, MutexPath, Do, Acq, Rel
    <2> HIDE DEF a, b, c, d, e
    <2>2. <<a>> \o <<b>> = <<a, b>>
      BY TwoSteps
    <2>3. <<a, b>> \o <<c>> = <<a, b, c>>
      BY ThreeSteps
    <2>4. <<a, b, c>> \o <<d>> = <<a, b, c, d>>
      BY FourSteps
    <2>5. <<a, b, c, d>> \o <<e>> = <<a, b, c, d, e>>
      BY FiveSteps
    <2> QED BY <2>1, <2>2, <2>3, <2>4, <2>5
  <1>5. acpi_locks = LocksPath
    <2> DEFINE a == <<"save">>
               b == <<"restore">>
    <2>1. acpi_locks = <<a>> \o <<a>> \o <<b>> \o <<b>> /\ LocksPath = <<a, a, b, b>>
      BY DEF acpi_locks, LocksPath, Do
    <2> HIDE DEF a, b
    <2>2. <<a>> \o <<a>> = <<a, a>>
      BY TwoSteps
    <2>3. <<a, a>> \o <<b>> = <<a, a, b>>
      BY ThreeSteps
    <2>4. <<a, a, b>> \o <<b>> = <<a, a, b, b>>
      BY FourSteps
    <2> QED BY <2>1, <2>2, <2>3, <2>4
  <1> QED BY <1>2, <1>3, <1>4, <1>5

(* Every path is one of the four kinds.                                    *)
LEMMA PathsFit ==
  ASSUME NEW p \in DOMAIN Path, NEW s \in Path[p]
  PROVE  Fits(p, s)
  <1>1. p \in {"alloc", "slab", "fs", "exec", "kill", "dirscan", "mutex", "locks"}
    BY DEF Path
  <1>2. CASE p \in Plain
    <2>1. Path[p] \in {kmalloc, slab_alloc \cup slab_free, {bdl_read \o kfree}}
      BY <1>2 DEF Path, Plain
    <2>2. bdl_read \o kfree \in Light
      BY FrameCalls, InSequence DEF Light
    <2>3. s \in Any
      BY <2>1, <2>2, HeapCalls, SlabCalls, LightIsAny
    <2>4. s \in Calls(Op)
      BY <2>3, OpsGrow, CallsMore DEF Any
    <2> QED BY <1>2, <2>3, <2>4 DEF Fits, Plain, Masked, Any, Calls
  <1>3. CASE p \in Masked
    <2>1. s \in Calls(MaskedOps) /\ s # <<>> /\ s[Len(s)] = <<"sti">>
      BY <1>3, SystemCalls
    <2>2. s \in Calls(Op)
      BY <2>1, OpsGrow, CallsMore
    <2> QED BY <1>3, <2>1, <2>2 DEF Fits, Plain, Masked, Calls
  <1>4. CASE p = "mutex"
    <2>1. s \in {acpi_mutex("wait"), acpi_mutex("try")}
      BY <1>4 DEF Path
    <2> QED BY <1>4, <2>1, AcpiCalls DEF Fits, Plain, Masked
  <1>5. CASE p = "locks"
    <2>1. s = acpi_locks
      BY <1>5 DEF Path
    <2> QED BY <1>5, <2>1, AcpiCalls DEF Fits, Plain, Masked
  <1> QED BY <1>1, <1>2, <1>3, <1>4, <1>5 DEF Plain, Masked

-----------------------------------------------------------------------------
(* Which step of which path does what.                                     *)
LEMMA StepIs ==
  ASSUME NEW p \in DOMAIN Path, NEW s \in Path[p], NEW k \in 1 .. Len(s)
  PROVE  /\ s[k] \in Op
         /\ s[k][1] \in {"acq", "rel"} => /\ p # "locks"
                                          /\ p \in Masked => k # Len(s)
                                          /\ p = "mutex" => k \in {3, 4} /\ k # Len(s)
         /\ s[k][1] \in {"cli", "sti"} => p \in Masked
         /\ s[k][1] = "cli" => k # Len(s)
         /\ s[k][1] = "save" => p = "locks" /\ k \in {1, 2}
         /\ s[k][1] = "restore" => p = "locks" /\ k \in {3, 4}
         /\ s[k][1] \in {"wait", "try"} => p = "mutex" /\ k = 1
         /\ s[k][1] = "store" => p = "mutex" /\ k = 2
         /\ s[k][1] = "signal" => p = "mutex" /\ k = 5
         /\ s[k] = <<"acq", "slab">> => p \notin Masked
         /\ p = "mutex" => Len(s) = 5
         /\ p = "locks" => Len(s) = 4
  <1>1. Fits(p, s)
    BY PathsFit
  <1>2. s[k] \in Op
    BY <1>1 DEF Fits, Calls
  <1>3. p \in Plain \cup Masked \cup {"mutex", "locks"}
    BY DEF Path, Plain, Masked
  <1>4. CASE p \in Plain
    <2>1. s[k][1] \in {"acq", "rel"}
      BY <1>1, <1>4 DEF Fits, PlainOps, LockOps
    <2>2. p \notin Masked /\ p # "mutex" /\ p # "locks"
      BY <1>4 DEF Plain, Masked
    <2> QED BY <1>2, <2>1, <2>2
  <1>5. CASE p \in Masked
    <2>1. s \in Seq(MaskedOps) /\ s[Len(s)] = <<"sti">>
      BY <1>1, <1>5 DEF Fits
    <2>2. s[k][1] \in {"acq", "rel", "cli", "sti"} /\ s[k] # <<"acq", "slab">>
      <3>1. s[k] \in MaskedOps
        BY <2>1
      <3>2. CASE s[k] \in LockOps(Lock \ {"slab"})
        BY <3>2 DEF LockOps
      <3>3. CASE s[k] \in {<<"cli">>, <<"sti">>}
        <4>1. s[k][1] \in {"cli", "sti"}
          BY <3>3
        <4> QED BY <4>1
      <3> QED BY <3>1, <3>2, <3>3 DEF MaskedOps
    <2>3. s[k][1] # "sti" => k # Len(s)
      BY <2>1
    <2>4. p # "mutex" /\ p # "locks"
      BY <1>5 DEF Masked
    <2> QED BY <1>2, <1>5, <2>2, <2>3, <2>4
  <1>6. CASE p = "mutex"
    <2>1. PICK w \in {"wait", "try"} : s = MutexPath(w)
      BY <1>1, <1>6 DEF Fits
    <2>2. Len(s) = 5 /\ s[1] = <<w>> /\ s[2] = <<"store">> /\ s[3] = <<"acq", "slab">>
          /\ s[4] = <<"rel", "slab">> /\ s[5] = <<"signal">>
      BY <2>1 DEF MutexPath
    <2>3. s[1][1] = w /\ s[2][1] = "store" /\ s[3][1] = "acq" /\ s[4][1] = "rel" /\ s[5][1] = "signal"
      BY <2>2
    <2>4. k \in {1, 2, 3, 4, 5} /\ p \notin Masked /\ (k \in {3, 4} => k # Len(s))
      BY <1>6, <2>2 DEF Masked
    <2> QED BY <1>2, <1>6, <2>2, <2>3, <2>4
  <1>7. CASE p = "locks"
    <2>1. s = LocksPath
      BY <1>1, <1>7 DEF Fits
    <2>2. Len(s) = 4 /\ s[1] = <<"save">> /\ s[2] = <<"save">> /\ s[3] = <<"restore">>
          /\ s[4] = <<"restore">>
      BY <2>1 DEF LocksPath
    <2>3. s[1][1] = "save" /\ s[2][1] = "save" /\ s[3][1] = "restore" /\ s[4][1] = "restore"
      BY <2>2
    <2>4. k \in {1, 2, 3, 4} /\ p \notin Masked
      BY <1>7, <2>2 DEF Masked
    <2> QED BY <1>2, <1>7, <2>2, <2>3, <2>4
  <1> QED BY <1>3, <1>4, <1>5, <1>6, <1>7

(* What one more step does to the locks held.                              *)
LEMMA HeldNext ==
  ASSUME NEW s, NEW k \in Nat \ {0}
  PROVE  \A l \in Lock : l \in HeldAt(s, k + 1) <=>
           Acquires(s[k], l) \/ (l \in HeldAt(s, k) /\ ~Releases(s[k], l))
  <1>1. ASSUME NEW l \in HeldAt(s, k + 1), ~Acquires(s[k], l)
        PROVE  l \in HeldAt(s, k) /\ ~Releases(s[k], l)
    <2>1. l \in Lock
      BY DEF HeldAt
    <2>2. PICK i \in 1 .. (k + 1) - 1 : /\ Acquires(s[i], l)
                                        /\ \A j \in i + 1 .. (k + 1) - 1 : ~Releases(s[j], l)
      BY DEF HeldAt
    <2>3. i # k /\ i \in 1 .. k - 1 /\ k \in i + 1 .. (k + 1) - 1
          /\ \A j \in i + 1 .. k - 1 : j \in i + 1 .. (k + 1) - 1
      BY <1>1, <2>2
    <2> QED BY <2>1, <2>2, <2>3 DEF HeldAt
  <1>2. ASSUME NEW l \in Lock, Acquires(s[k], l) PROVE l \in HeldAt(s, k + 1)
    <2>1. k \in 1 .. (k + 1) - 1 /\ \A j \in k + 1 .. (k + 1) - 1 : FALSE
      OBVIOUS
    <2> QED BY <1>2, <2>1 DEF HeldAt
  <1>3. ASSUME NEW l \in HeldAt(s, k), ~Releases(s[k], l) PROVE l \in HeldAt(s, k + 1)
    <2>1. l \in Lock
      BY DEF HeldAt
    <2>2. PICK i \in 1 .. k - 1 : /\ Acquires(s[i], l)
                                  /\ \A j \in i + 1 .. k - 1 : ~Releases(s[j], l)
      BY DEF HeldAt
    <2>3. i \in 1 .. (k + 1) - 1
          /\ \A j \in i + 1 .. (k + 1) - 1 : j = k \/ j \in i + 1 .. k - 1
      BY <2>2
    <2> QED BY <1>3, <2>1, <2>2, <2>3 DEF HeldAt
  <1> QED BY <1>1, <1>2, <1>3

(* The task on the processor is on a path: the first step before it is one *)
(* of that path's.                                                         *)
Doing(p, s, k) ==
  /\ p \in DOMAIN Path /\ s \in Path[p] /\ k \in 1 .. Len(s)
  /\ Along(cur, s, k) /\ Flags(cur, p, k) /\ Head(todo[cur]) = s[k]

LEMMA Busy ==
  ASSUME IInv, todo[cur] # <<>>
  PROVE  \E p, s, k : Doing(p, s, k)
  <1>1. cur \in Task /\ Where(cur) /\ todo[cur] \in Seq(Op)
    BY DEF IInv, TypeOK, Op, LockOps
  <1>2. PICK p \in DOMAIN Path : \E s \in Path[p] : \E k \in 1 .. Len(s) :
          Along(cur, s, k) /\ Flags(cur, p, k)
    BY <1>1 DEF Where, Resting
  <1>7. PICK s \in Path[p] : \E k \in 1 .. Len(s) : Along(cur, s, k) /\ Flags(cur, p, k)
    BY <1>2
  <1>3. PICK k \in 1 .. Len(s) : Along(cur, s, k) /\ Flags(cur, p, k)
    BY <1>7
  <1>4. s \in Seq(Op)
    BY PathsFit DEF Fits, Calls
  <1>5. Len(todo[cur]) >= 1 /\ todo[cur][1] = s[k + 1 - 1] /\ k + 1 - 1 = k
    BY <1>1, <1>3, <1>4 DEF Along
  <1>6. Head(todo[cur]) = s[k]
    BY <1>1, <1>5
  <1> QED BY <1>3, <1>6 DEF Doing

(* The path goes on, or ends with no lock held.                            *)
Passed(s, k) ==
  /\ todo' \in [Task -> Seq(Op)]
  /\ k # Len(s) => /\ k + 1 \in 1 .. Len(s)
                   /\ Len(todo'[cur]) = Len(s) + 1 - (k + 1)
                   /\ \A i \in 1 .. Len(todo'[cur]) : todo'[cur][i] = s[(k + 1) + i - 1]
  /\ k = Len(s) => todo'[cur] = <<>> /\ Has(holder', cur) = {}

LEMMA Onward ==
  ASSUME IInv, NEW p, NEW s, NEW k, Doing(p, s, k),
         todo' = [todo EXCEPT ![cur] = Tail(@)],
         Has(holder', cur) = HeldAt(s, k + 1)
  PROVE  Passed(s, k)
  <1>1. /\ cur \in Task /\ todo \in [Task -> Seq(Op)]
        /\ s \in Path[p] /\ p \in DOMAIN Path /\ k \in 1 .. Len(s)
        /\ Len(todo[cur]) = Len(s) + 1 - k
        /\ \A i \in 1 .. Len(todo[cur]) : todo[cur][i] = s[k + i - 1]
    BY DEF IInv, TypeOK, Op, LockOps, Doing, Along
  <1>2. s \in Seq(Op) /\ Len(s) \in Nat /\ HeldAt(s, Len(s) + 1) = {}
    BY <1>1, PathsFit DEF Fits, Calls, Nested
  <1>3. todo[cur] \in Seq(Op) /\ todo[cur] # <<>>
    BY <1>1, <1>2
  <1>4. /\ todo'[cur] \in Seq(Op) /\ Len(todo'[cur]) = Len(todo[cur]) - 1
        /\ \A i \in 1 .. Len(todo'[cur]) : todo'[cur][i] = todo[cur][i + 1]
    BY <1>1, <1>3, HeadTailProperties
  <1>5. todo' \in [Task -> Seq(Op)]
    BY <1>1, <1>4
  <1>6. ASSUME k # Len(s), NEW i \in 1 .. Len(todo'[cur])
        PROVE  todo'[cur][i] = s[(k + 1) + i - 1]
    <2>1. i + 1 \in 1 .. Len(todo[cur]) /\ k + (i + 1) - 1 = (k + 1) + i - 1
      BY <1>1, <1>2, <1>4
    <2> QED BY <1>1, <1>4, <2>1
  <1>7. k = Len(s) => todo'[cur] = <<>>
    <2> SUFFICES ASSUME k = Len(s) PROVE todo'[cur] = <<>>
      OBVIOUS
    <2>1. Len(todo'[cur]) = 0
      BY <1>1, <1>2, <1>4
    <2> QED BY <1>4, <2>1, EmptySeq
  <1> QED BY <1>1, <1>2, <1>4, <1>5, <1>6, <1>7 DEF Passed

(* Nobody else is touched.                                                 *)
LEMMA Others ==
  ASSUME NEW u, Where(u), todo'[u] = todo[u], int'[u] = int[u], saved'[u] = saved[u],
         u \in owners' <=> u \in owners, loaded'[u] = loaded[u],
         \A l \in Lock : holder'[l] = u <=> holder[l] = u
  PROVE  Where(u)'
  <1>1. HeldBy(u)' = HeldBy(u)
    BY DEF HeldBy, Has
  <1>2. Resting(u) => Resting(u)'
    BY <1>1 DEF Resting
  <1>3. ASSUME NEW p, NEW s, NEW k, Along(u, s, k), Flags(u, p, k)
        PROVE  Along(u, s, k)' /\ Flags(u, p, k)'
    <2>1. Along(u, s, k)'
      BY <1>1, <1>3 DEF Along
    <2>2. Flags(u, p, k)'
      BY <1>3, Zenon DEF Flags
    <2> QED BY <2>1, <2>2
  <1> QED BY <1>2, <1>3 DEF Where

-----------------------------------------------------------------------------
(* What the steps along a path have in common.                             *)
LEMMA PathStep ==
  ASSUME IInv, NEW p, NEW s, NEW k, Doing(p, s, k),
         cur' = cur, todo' = [todo EXCEPT ![cur] = Tail(@)],
         holder' \in [Lock -> Task \cup {Free}], int' \in [Task -> BOOLEAN],
         saved' \in [Task -> Seq(BOOLEAN)], loaded' \in [Task -> Nat],
         units' \in Nat, owners' \in SUBSET Task, raced' \in BOOLEAN,
         Has(holder', cur) = HeldAt(s, k + 1),
         \A u \in Task \ {cur} : /\ \A l \in Lock : holder'[l] = u <=> holder[l] = u
                                 /\ int'[u] = int[u] /\ saved'[u] = saved[u]
                                 /\ u \in owners' <=> u \in owners
                                 /\ loaded'[u] = loaded[u],
         k # Len(s) => Flags(cur, p, k + 1)',
         k = Len(s) => int'[cur] /\ saved'[cur] = <<>> /\ cur \notin owners',
         ~raced' => units' + Cardinality(owners') = 1
  PROVE  IInv'
  <1>1. Passed(s, k)
    BY Onward, Zenon
  <1>2. TypeOK'
    BY <1>1 DEF TypeOK, Op, LockOps, IInv, Passed
  <1>3. HeldBy(cur)' = HeldAt(s, k + 1) /\ HeldBy(cur)' = Has(holder', cur)
    BY DEF HeldBy, Has
  <1>4. Where(cur)'
    <2>1. CASE k = Len(s)
      BY <1>1, <1>3, <2>1 DEF Where, Resting, Passed
    <2>2. CASE k # Len(s)
      <3>1. Along(cur, s, k + 1)'
        BY <1>1, <1>3, <2>2 DEF Along, Passed
      <3>2. Flags(cur, p, k + 1)' /\ k + 1 \in 1 .. Len(s) /\ p \in DOMAIN Path /\ s \in Path[p]
        BY <1>1, <2>2 DEF Doing, Passed
      <3> QED BY <3>1, <3>2 DEF Where
    <2> QED BY <2>1, <2>2
  <1>5. ASSUME NEW u \in Task PROVE (~int[u] => u = cur)' /\ Where(u)'
    <2>1. CASE u = cur
      BY <1>4, <2>1
    <2>2. CASE u # cur
      <3>1. Where(u) /\ (~int[u] => u = cur) /\ todo'[u] = todo[u]
        BY <2>2 DEF IInv, TypeOK
      <3> QED BY <2>2, <3>1, Others
    <2> QED BY <2>1, <2>2
  <1> QED BY <1>2, <1>5 DEF IInv

(* A step that takes or releases no lock leaves the locks held as they are. *)
LEMMA NoLock ==
  ASSUME NEW p, NEW s, NEW k, Doing(p, s, k), s[k][1] \notin {"acq", "rel"}
  PROVE  Has(holder, cur) = HeldAt(s, k + 1)
  <1>1. HeldBy(cur) = HeldAt(s, k) /\ k \in Nat \ {0}
    BY DEF Doing, Along
  <1>2. \A l \in Lock : l \in HeldAt(s, k + 1) <=>
          Acquires(s[k], l) \/ (l \in HeldAt(s, k) /\ ~Releases(s[k], l))
    BY <1>1, HeldNext
  <1>3. HeldAt(s, k) \subseteq Lock /\ HeldAt(s, k + 1) \subseteq Lock
    BY DEF HeldAt
  <1> QED BY <1>1, <1>2, <1>3 DEF HeldBy, Has, Acquires, Releases

LEMMA SpinLockStep == IInv /\ spin_lock => IInv'
  <1> SUFFICES ASSUME IInv, spin_lock PROVE IInv'
    OBVIOUS
  <1>1. PICK p, s, k : Doing(p, s, k)
    BY Busy DEF spin_lock, At, Idle
  <1> DEFINE l == s[k][2]
  <1>2. /\ s[k][1] = "acq" /\ holder[l] = Free /\ holder' = [holder EXCEPT ![l] = cur]
        /\ todo' = [todo EXCEPT ![cur] = Tail(@)]
        /\ UNCHANGED <<cur, int, saved, units, loaded, owners, raced>>
    BY <1>1 DEF spin_lock, At, Advance, Doing
  <1>3. TypeOK /\ cur \in Task /\ cur # Free /\ (~raced => units + Cardinality(owners) = 1)
    BY LocksAssumption DEF IInv, TypeOK, Task, Free
  <1>4. s[k] \in Op /\ l \in Lock
    <2>1. s[k] \in Op
      BY <1>1, StepIs DEF Doing
    <2> QED BY <1>2, <2>1 DEF Op, LockOps
  <1>5. /\ p # "locks" /\ (p \in Masked => k # Len(s)) /\ (p = "mutex" => k \in {3, 4} /\ k # Len(s))
        /\ k \in Nat \ {0} /\ HeldBy(cur) = HeldAt(s, k) /\ Flags(cur, p, k)
    BY <1>1, <1>2, StepIs DEF Doing, Along
  <1> HIDE DEF l
  <1>6. Has(holder', cur) = HeldAt(s, k + 1)
    <2>1. /\ HeldAt(s, k + 1) \subseteq Lock
          /\ \A h \in Lock : h \in HeldAt(s, k + 1) <=>
               Acquires(s[k], h) \/ (h \in HeldAt(s, k) /\ ~Releases(s[k], h))
      BY <1>5, HeldNext DEF HeldAt
    <2>2. \A h \in Lock : holder'[h] = cur <=> h = l \/ holder[h] = cur
      BY <1>2, <1>3, <1>4 DEF TypeOK
    <2> QED BY <1>2, <1>5, <2>1, <2>2 DEF HeldBy, Has, Acquires, Releases, l
  <1>7. holder' \in [Lock -> Task \cup {Free}]
        /\ \A u \in Task \ {cur} : \A h \in Lock : holder'[h] = u <=> holder[h] = u
    <2>1. Free \notin Task
      BY LocksAssumption DEF Task, Free
    <2> QED BY <1>2, <1>3, <1>4, <2>1 DEF TypeOK
  <1>8. Flags(cur, p, k + 1)' /\ (k = Len(s) => int[cur] /\ saved[cur] = <<>> /\ cur \notin owners)
    <2>1. Flags(cur, p, k + 1)
      BY <1>5 DEF Flags
    <2>2. Flags(cur, p, k + 1)'
      BY <1>2, <2>1 DEF Flags
    <2>3. k = Len(s) => int[cur]
      BY <1>5 DEF Flags
    <2>4. k = Len(s) => saved[cur] = <<>>
      BY <1>5, Zenon DEF Flags
    <2>5. k = Len(s) => p # "mutex"
      BY <1>5
    <2>6. p # "mutex" => cur \notin owners
      BY <1>5, Zenon DEF Flags
    <2> QED BY <2>2, <2>3, <2>4, <2>5, <2>6
  <1>9. /\ cur' = cur /\ todo' = [todo EXCEPT ![cur] = Tail(@)]
        /\ int' \in [Task -> BOOLEAN] /\ saved' \in [Task -> Seq(BOOLEAN)]
        /\ loaded' \in [Task -> Nat] /\ units' \in Nat /\ owners' \in SUBSET Task
        /\ raced' \in BOOLEAN
    BY <1>2, <1>3 DEF TypeOK
  <1>10. \A u \in Task \ {cur} : /\ \A h \in Lock : holder'[h] = u <=> holder[h] = u
                                 /\ int'[u] = int[u] /\ saved'[u] = saved[u]
                                 /\ u \in owners' <=> u \in owners
                                 /\ loaded'[u] = loaded[u]
    BY <1>2, <1>7
  <1>11. k = Len(s) => int'[cur] /\ saved'[cur] = <<>> /\ cur \notin owners'
    BY <1>2, <1>8
  <1>12. ~raced' => units' + Cardinality(owners') = 1
    BY <1>2, <1>3
  <1>13. holder' \in [Lock -> Task \cup {Free}] /\ Flags(cur, p, k + 1)'
    BY <1>7, <1>8
  <1> QED BY <1>1, <1>6, <1>9, <1>10, <1>11, <1>12, <1>13, PathStep, ZenonT(40)

LEMMA SpinUnlockStep == IInv /\ spin_unlock => IInv'
  <1> SUFFICES ASSUME IInv, spin_unlock PROVE IInv'
    OBVIOUS
  <1>1. PICK p, s, k : Doing(p, s, k)
    BY Busy DEF spin_unlock, At, Idle
  <1> DEFINE l == s[k][2]
  <1>2. /\ s[k][1] = "rel" /\ holder' = [holder EXCEPT ![l] = Free]
        /\ todo' = [todo EXCEPT ![cur] = Tail(@)]
        /\ UNCHANGED <<cur, int, saved, units, loaded, owners, raced>>
    BY <1>1 DEF spin_unlock, At, Advance, Doing
  <1>3. TypeOK /\ cur \in Task /\ Free \notin Task /\ (~raced => units + Cardinality(owners) = 1)
    BY LocksAssumption DEF IInv, TypeOK, Task, Free
  <1>4. s[k] \in Op /\ l \in Lock
    <2>1. s[k] \in Op
      BY <1>1, StepIs DEF Doing
    <2> QED BY <1>2, <2>1 DEF Op, LockOps
  <1>5. /\ p # "locks" /\ (p \in Masked => k # Len(s)) /\ (p = "mutex" => k \in {3, 4} /\ k # Len(s))
        /\ k \in Nat \ {0} /\ HeldBy(cur) = HeldAt(s, k) /\ Flags(cur, p, k)
    BY <1>1, <1>2, StepIs DEF Doing, Along
  <1>6. l \in HeldAt(s, k)
    <2>1. Nested(s) /\ k \in 1 .. Len(s)
      BY <1>1, PathsFit DEF Doing, Fits, Calls
    <2> QED BY <1>2, <1>4, <2>1 DEF Nested, Releases
  <1> HIDE DEF l
  <1>7. holder[l] = cur
    BY <1>5, <1>6 DEF HeldBy, Has
  <1>8. Has(holder', cur) = HeldAt(s, k + 1)
    <2>1. /\ HeldAt(s, k + 1) \subseteq Lock
          /\ \A h \in Lock : h \in HeldAt(s, k + 1) <=>
               Acquires(s[k], h) \/ (h \in HeldAt(s, k) /\ ~Releases(s[k], h))
      BY <1>5, HeldNext DEF HeldAt
    <2>2. \A h \in Lock : holder'[h] = cur <=> h # l /\ holder[h] = cur
      BY <1>2, <1>3, <1>4 DEF TypeOK
    <2> QED BY <1>2, <1>5, <2>1, <2>2 DEF HeldBy, Has, Acquires, Releases, l
  <1>9. holder' \in [Lock -> Task \cup {Free}]
        /\ \A u \in Task \ {cur} : \A h \in Lock : holder'[h] = u <=> holder[h] = u
    BY <1>2, <1>3, <1>4, <1>7 DEF TypeOK
  <1>10. Flags(cur, p, k + 1)' /\ (k = Len(s) => int[cur] /\ saved[cur] = <<>> /\ cur \notin owners)
    <2>1. Flags(cur, p, k + 1)
      BY <1>5 DEF Flags
    <2>2. Flags(cur, p, k + 1)'
      BY <1>2, <2>1 DEF Flags
    <2>3. k = Len(s) => int[cur]
      BY <1>5 DEF Flags
    <2>4. k = Len(s) => saved[cur] = <<>>
      BY <1>5, Zenon DEF Flags
    <2>5. k = Len(s) => p # "mutex"
      BY <1>5
    <2>6. p # "mutex" => cur \notin owners
      BY <1>5, Zenon DEF Flags
    <2> QED BY <2>2, <2>3, <2>4, <2>5, <2>6
  <1> QED BY <1>1, <1>2, <1>3, <1>8, <1>9, <1>10, PathStep DEF TypeOK

(* cli and sti.                                                            *)
LEMMA IntStep ==
  ASSUME IInv, system_int_off \/ system_int_on
  PROVE  IInv'
  <1>1. PICK p, s, k : Doing(p, s, k)
    BY Busy DEF system_int_off, system_int_on, At, Idle
  <1>2. /\ \/ s[k][1] = "cli" /\ int' = [int EXCEPT ![cur] = FALSE]
           \/ s[k][1] = "sti" /\ int' = [int EXCEPT ![cur] = TRUE]
        /\ todo' = [todo EXCEPT ![cur] = Tail(@)]
        /\ UNCHANGED <<cur, saved, holder, units, loaded, owners, raced>>
    BY <1>1 DEF system_int_off, system_int_on, At, Advance, Doing
  <1>3. TypeOK /\ cur \in Task /\ (~raced => units + Cardinality(owners) = 1)
    BY DEF IInv, TypeOK
  <1>4. p \in Masked /\ p # "mutex" /\ p # "locks" /\ (s[k][1] = "cli" => k # Len(s)) /\ Flags(cur, p, k)
    BY <1>1, <1>2, StepIs DEF Doing, Masked
  <1>5. Has(holder', cur) = HeldAt(s, k + 1)
    BY <1>1, <1>2, NoLock
  <1>6. int' \in [Task -> BOOLEAN] /\ \A u \in Task \ {cur} : int'[u] = int[u]
    BY <1>2, <1>3 DEF TypeOK
  <1>7. Flags(cur, p, k + 1)' /\ (k = Len(s) => int'[cur] /\ saved[cur] = <<>> /\ cur \notin owners)
    BY <1>2, <1>3, <1>4 DEF Flags, TypeOK
  <1> QED BY <1>1, <1>2, <1>3, <1>5, <1>6, <1>7, PathStep DEF TypeOK

LEMMA AcpiLockStep ==
  ASSUME IInv, AcpiOsAcquireLock \/ AcpiOsReleaseLock
  PROVE  IInv'
  <1>1. PICK p, s, k : Doing(p, s, k)
    BY Busy DEF AcpiOsAcquireLock, AcpiOsReleaseLock, At, Idle
  <1>2. /\ \/ /\ s[k][1] = "save" /\ int' = [int EXCEPT ![cur] = FALSE]
              /\ saved' = [saved EXCEPT ![cur] = Append(@, int[cur])]
           \/ /\ s[k][1] = "restore" /\ int' = [int EXCEPT ![cur] = saved[cur][Len(saved[cur])]]
              /\ saved' = [saved EXCEPT ![cur] = SubSeq(@, 1, Len(@) - 1)]
        /\ todo' = [todo EXCEPT ![cur] = Tail(@)]
        /\ UNCHANGED <<cur, holder, units, loaded, owners, raced>>
    BY <1>1 DEF AcpiOsAcquireLock, AcpiOsReleaseLock, At, Advance, Doing
  <1>3. TypeOK /\ cur \in Task /\ (~raced => units + Cardinality(owners) = 1)
    BY DEF IInv, TypeOK
  <1>4. /\ p = "locks" /\ Len(s) = 4 /\ Flags(cur, p, k)
        /\ s[k][1] = "save" => k \in {1, 2}
        /\ s[k][1] = "restore" => k \in {3, 4}
    BY <1>1, <1>2, StepIs DEF Doing
  <1>5. Has(holder', cur) = HeldAt(s, k + 1)
    BY <1>1, <1>2, NoLock
  <1>6. /\ int[cur] <=> k = 1
        /\ cur \notin owners
        /\ k = 1 => saved[cur] = <<>>
        /\ k = 3 => Len(saved[cur]) = 2 /\ saved[cur][1] /\ ~saved[cur][2]
        /\ k \in {2, 4} => Len(saved[cur]) = 1 /\ saved[cur][1]
    BY <1>4 DEF Flags, Masked
  <1>7. /\ int'[cur] <=> k = 4
        /\ k \in {1, 3} => Len(saved'[cur]) = 1 /\ saved'[cur][1]
        /\ k = 2 => Len(saved'[cur]) = 2 /\ saved'[cur][1] /\ ~saved'[cur][2]
        /\ k = 4 => saved'[cur] = <<>>
        /\ saved'[cur] \in Seq(BOOLEAN) /\ int'[cur] \in BOOLEAN
    <2> DEFINE q == saved[cur]
    <2>1. /\ s[k][1] = "save" => int'[cur] = FALSE /\ saved'[cur] = Append(q, int[cur])
          /\ s[k][1] = "restore" => int'[cur] = q[Len(q)] /\ saved'[cur] = SubSeq(q, 1, Len(q) - 1)
      BY <1>2, <1>3 DEF TypeOK
    <2>2. q \in Seq(BOOLEAN) /\ int[cur] \in BOOLEAN /\ Len(q) \in Nat
      BY <1>3 DEF TypeOK
    <2> HIDE DEF q
    <2>3. CASE k \in {1, 2}
      <3>1. ~int'[cur] /\ saved'[cur] = Append(q, int[cur])
        BY <1>2, <1>4, <2>1, <2>3
      <3>2. /\ saved'[cur] \in Seq(BOOLEAN) /\ Len(saved'[cur]) = Len(q) + 1
            /\ \A i \in 1 .. Len(q) : saved'[cur][i] = q[i]
            /\ saved'[cur][Len(q) + 1] = int[cur]
        BY <2>2, <3>1, AppendProperties
      <3>3. k = 1 => Len(q) = 0
        BY <1>6 DEF q
      <3>4. k = 2 => Len(q) = 1 /\ q[1]
        BY <1>6 DEF q
      <3>5. k = 1 => Len(saved'[cur]) = 1 /\ saved'[cur][1]
        BY <1>6, <3>2, <3>3
      <3>6. k = 2 => Len(saved'[cur]) = 2 /\ saved'[cur][1] /\ ~saved'[cur][2]
        <4> SUFFICES ASSUME k = 2 PROVE Len(saved'[cur]) = 2 /\ saved'[cur][1] /\ ~saved'[cur][2]
          OBVIOUS
        <4>1. ~int[cur] /\ Len(q) = 1 /\ q[1]
          BY <1>6, <3>4
        <4>2. 1 \in 1 .. Len(q) /\ Len(q) + 1 = 2
          BY <4>1
        <4>3. saved'[cur][1] = q[1] /\ saved'[cur][2] = int[cur] /\ Len(saved'[cur]) = 2
          BY <3>2, <4>2, Zenon
        <4> QED BY <4>1, <4>3, Zenon
      <3>7. int'[cur] \in BOOLEAN
        <4>1. int'[cur] = FALSE
          BY <1>2, <1>4, <2>1, <2>3
        <4> QED BY <4>1
      <3> QED BY <2>3, <3>1, <3>2, <3>5, <3>6, <3>7
    <2>4. CASE k \in {3, 4}
      <3>1. int'[cur] = q[Len(q)] /\ saved'[cur] = SubSeq(q, 1, Len(q) - 1)
        BY <1>2, <1>4, <2>1, <2>4
      <3>2. Len(q) = (IF k = 3 THEN 2 ELSE 1) /\ q[1] /\ (k = 3 => ~q[2])
        BY <1>6, <2>4 DEF q
      <3>3. /\ saved'[cur] \in Seq(BOOLEAN) /\ Len(saved'[cur]) = Len(q) - 1
            /\ \A i \in 1 .. Len(q) - 1 : saved'[cur][i] = q[i]
        BY <2>2, <2>4, <3>1, <3>2
      <3>4. k = 4 => saved'[cur] = <<>>
        BY <3>2, <3>3, EmptySeq
      <3>5. k = 3 => Len(saved'[cur]) = 1 /\ saved'[cur][1] /\ ~int'[cur]
        BY <3>1, <3>2, <3>3
      <3>6. k = 4 => int'[cur]
        BY <3>1, <3>2
      <3>7. int'[cur] \in BOOLEAN
        BY <2>2, <3>1, <3>2
      <3> QED BY <2>4, <3>3, <3>4, <3>5, <3>6, <3>7
    <2>5. k \in {1, 2, 3, 4}
      BY <1>2, <1>4
    <2> QED BY <2>3, <2>4, <2>5
  <1>8. /\ int' \in [Task -> BOOLEAN] /\ saved' \in [Task -> Seq(BOOLEAN)]
        /\ \A u \in Task \ {cur} : int'[u] = int[u] /\ saved'[u] = saved[u]
    BY <1>2, <1>3, <1>7 DEF TypeOK
  <1>9. /\ k # Len(s) => Flags(cur, p, k + 1)'
        /\ k = Len(s) => int'[cur] /\ saved'[cur] = <<>> /\ cur \notin owners
    <2>1. k \in {1, 2, 3, 4}
      BY <1>2, <1>4
    <2> QED BY <1>2, <1>4, <1>6, <1>7, <2>1 DEF Flags, Masked
  <1> QED BY <1>1, <1>2, <1>3, <1>5, <1>8, <1>9, PathStep DEF TypeOK

-----------------------------------------------------------------------------
(* The semaphore.                                                          *)
LEMMA TaskFinite == IsFiniteSet(Task) /\ Free \notin Task /\ Task \subseteq Nat
  BY LocksAssumption, FS_Interval DEF Task, Free

LEMMA SemTestStep == IInv /\ SemTest => IInv'
  <1> SUFFICES ASSUME IInv, SemTest PROVE IInv'
    OBVIOUS
  <1>1. PICK p, s, k : Doing(p, s, k)
    BY Busy DEF SemTest, At, Idle
  <1>2. /\ s[k][1] \in {"wait", "try"} /\ units >= 1
        /\ loaded' = [loaded EXCEPT ![cur] = units]
        /\ todo' = [todo EXCEPT ![cur] = Tail(@)]
        /\ UNCHANGED <<cur, int, saved, holder, units, owners, raced>>
    BY <1>1 DEF SemTest, At, Advance, Doing
  <1>3. TypeOK /\ cur \in Task /\ (~raced => units + Cardinality(owners) = 1)
    BY DEF IInv, TypeOK
  <1>4. p = "mutex" /\ k = 1 /\ Len(s) = 5 /\ Flags(cur, p, k)
    BY <1>1, <1>2, StepIs DEF Doing
  <1>5. Has(holder', cur) = HeldAt(s, k + 1)
    <2>1. Has(holder, cur) = HeldAt(s, k + 1)
      BY <1>1, <1>2, NoLock
    <2> QED BY <1>2, <2>1
  <1>6. loaded' \in [Task -> Nat] /\ loaded'[cur] = units /\ \A u \in Task \ {cur} : loaded'[u] = loaded[u]
    BY <1>2, <1>3 DEF TypeOK
  <1>7. Flags(cur, p, k + 1)'
    BY <1>2, <1>4, <1>6 DEF Flags, Masked
  <1>8. k # Len(s)
    BY <1>4
  <1> QED BY <1>1, <1>2, <1>3, <1>5, <1>6, <1>7, <1>8, PathStep DEF TypeOK

(* The unit that was seen is taken; unless another store came between, it  *)
(* was the only one.                                                       *)
LEMMA SemStoreStep == IInv /\ SemStore => IInv'
  <1> SUFFICES ASSUME IInv, SemStore PROVE IInv'
    OBVIOUS
  <1>1. PICK p, s, k : Doing(p, s, k)
    BY Busy DEF SemStore, At, Idle
  <1>2. /\ s[k][1] = "store" /\ units' = loaded[cur] - 1
        /\ loaded' = [loaded EXCEPT ![cur] = 0]
        /\ raced' = (raced \/ units # loaded[cur])
        /\ owners' = owners \cup {cur}
        /\ todo' = [todo EXCEPT ![cur] = Tail(@)]
        /\ UNCHANGED <<cur, int, saved, holder>>
    BY <1>1 DEF SemStore, At, Advance, Doing
  <1>3. TypeOK /\ cur \in Task /\ (~raced => units + Cardinality(owners) = 1)
    BY DEF IInv, TypeOK
  <1>4. p = "mutex" /\ k = 2 /\ Len(s) = 5 /\ Flags(cur, p, k)
    BY <1>1, <1>2, StepIs DEF Doing
  <1>5. Has(holder', cur) = HeldAt(s, k + 1)
    <2>1. Has(holder, cur) = HeldAt(s, k + 1)
      BY <1>1, <1>2, NoLock
    <2> QED BY <1>2, <2>1
  <1>6. loaded[cur] >= 1 /\ cur \notin owners
    BY <1>4 DEF Flags
  <1>7. /\ loaded' \in [Task -> Nat] /\ \A u \in Task \ {cur} : loaded'[u] = loaded[u]
        /\ loaded[cur] \in Nat
    BY <1>2, <1>3 DEF TypeOK
  <1>8. units' \in Nat /\ owners' \in SUBSET Task /\ raced' \in BOOLEAN
        /\ \A u \in Task \ {cur} : u \in owners' <=> u \in owners
    BY <1>2, <1>3, <1>6, <1>7 DEF TypeOK
  <1>9. Flags(cur, p, k + 1)'
    BY <1>2, <1>4 DEF Flags, Masked
  <1>10. ~raced' => units' + Cardinality(owners') = 1
    <2> SUFFICES ASSUME ~raced' PROVE units' + Cardinality(owners') = 1
      OBVIOUS
    <2>1. ~raced /\ units = loaded[cur] /\ owners \in SUBSET Task /\ units \in Nat
      BY <1>2, <1>3 DEF TypeOK
    <2>2. IsFiniteSet(owners) /\ Cardinality(owners) \in Nat
      BY <2>1, TaskFinite, FS_Subset, FS_CardinalityType
    <2>3. Cardinality(owners \cup {cur}) = Cardinality(owners) + 1
      BY <1>6, <2>2, FS_AddElement
    <2> QED BY <1>2, <1>3, <1>7, <2>1, <2>2, <2>3
  <1>11. k # Len(s)
    BY <1>4
  <1> QED BY <1>1, <1>2, <1>3, <1>5, <1>7, <1>8, <1>9, <1>10, <1>11, PathStep DEF TypeOK

LEMMA SignalStep == IInv /\ AcpiOsSignalSemaphore => IInv'
  <1> SUFFICES ASSUME IInv, AcpiOsSignalSemaphore PROVE IInv'
    OBVIOUS
  <1>1. PICK p, s, k : Doing(p, s, k)
    BY Busy DEF AcpiOsSignalSemaphore, At, Idle
  <1>2. /\ s[k][1] = "signal" /\ units' = units + 1 /\ owners' = owners \ {cur}
        /\ todo' = [todo EXCEPT ![cur] = Tail(@)]
        /\ UNCHANGED <<cur, int, saved, holder, loaded, raced>>
    BY <1>1 DEF AcpiOsSignalSemaphore, At, Advance, Doing
  <1>3. TypeOK /\ cur \in Task /\ (~raced => units + Cardinality(owners) = 1)
    BY DEF IInv, TypeOK
  <1>4. p = "mutex" /\ k = 5 /\ Len(s) = 5 /\ Flags(cur, p, k)
    BY <1>1, <1>2, StepIs DEF Doing
  <1>5. Has(holder', cur) = HeldAt(s, k + 1)
    <2>1. Has(holder, cur) = HeldAt(s, k + 1)
      BY <1>1, <1>2, NoLock
    <2> QED BY <1>2, <2>1
  <1>6. cur \in owners /\ int[cur] /\ saved[cur] = <<>>
    BY <1>4 DEF Flags, Masked
  <1>7. units' \in Nat /\ owners' \in SUBSET Task
        /\ cur \notin owners' /\ \A u \in Task \ {cur} : u \in owners' <=> u \in owners
    BY <1>2, <1>3 DEF TypeOK
  <1>8. ~raced' => units' + Cardinality(owners') = 1
    <2> SUFFICES ASSUME ~raced' PROVE units' + Cardinality(owners') = 1
      OBVIOUS
    <2>1. ~raced /\ owners \in SUBSET Task /\ units \in Nat
      BY <1>2, <1>3 DEF TypeOK
    <2>2. IsFiniteSet(owners) /\ Cardinality(owners) \in Nat
      BY <2>1, TaskFinite, FS_Subset, FS_CardinalityType
    <2>3. Cardinality(owners \ {cur}) = Cardinality(owners) - 1
      BY <1>6, <2>2, FS_RemoveElement
    <2> QED BY <1>2, <1>3, <2>1, <2>2, <2>3
  <1>9. k = Len(s)
    BY <1>4
  <1> QED BY <1>1, <1>2, <1>3, <1>5, <1>6, <1>7, <1>8, <1>9, PathStep DEF TypeOK

-----------------------------------------------------------------------------
(* The processor changes hands only while interrupts are on.               *)
LEMMA TurnIs == cur \in Task /\ Turn => cur' \in Task
  BY LocksAssumption DEF Turn, Task

LEMMA PreemptStep == IInv /\ Preempt => IInv'
  <1> SUFFICES ASSUME IInv, Preempt PROVE IInv'
    OBVIOUS
  <1>1. /\ int[cur] /\ cur' \in Task
        /\ UNCHANGED <<int, todo, saved, holder, units, loaded, owners, raced>>
    BY TurnIs DEF Preempt, IInv, TypeOK
  <1>2. TypeOK'
    BY <1>1 DEF IInv, TypeOK
  <1>3. ASSUME NEW u \in Task PROVE (~int[u] => u = cur)' /\ Where(u)'
    <2>1. Where(u) /\ int[u]
      BY <1>1 DEF IInv
    <2> QED BY <1>1, <2>1, Others
  <1> QED BY <1>1, <1>2, <1>3 DEF IInv

LEMMA SemYieldStep == IInv /\ SemYield => IInv'
  <1> SUFFICES ASSUME IInv, SemYield PROVE IInv'
    OBVIOUS
  <1>1. PICK p, s, k : Doing(p, s, k)
    BY Busy DEF SemYield, At, Idle
  <1>2. /\ s[k][1] \in {"wait", "try"} /\ Turn
        /\ todo' = [todo EXCEPT ![cur] = <<>>] \/ todo' = todo
        /\ UNCHANGED <<int, saved, holder, units, loaded, owners, raced>>
    BY <1>1 DEF SemYield, At, Doing
  <1>3. TypeOK /\ cur \in Task /\ cur' \in Task
    BY <1>2, TurnIs DEF IInv, TypeOK
  <1>4. p = "mutex" /\ k = 1 /\ Flags(cur, p, k) /\ HeldBy(cur) = HeldAt(s, k)
    BY <1>1, <1>2, StepIs DEF Doing, Along
  <1>5. int[cur] /\ saved[cur] = <<>> /\ cur \notin owners /\ HeldBy(cur) = {}
    <2>1. HeldAt(s, 1) = {}
      BY DEF HeldAt
    <2>2. int[cur] /\ cur \notin owners
      BY <1>4 DEF Flags, Masked
    <2>3. saved[cur] = <<>>
      BY <1>4, Zenon DEF Flags
    <2> QED BY <1>4, <2>1, <2>2, <2>3
  <1>6. todo' \in [Task -> Seq(Op)] /\ \A u \in Task : todo'[u] = todo[u] \/ (u = cur /\ todo'[u] = <<>>)
    <2>1. todo \in [Task -> Seq(Op)] /\ <<>> \in Seq(Op)
      BY <1>3 DEF TypeOK, Op, LockOps
    <2> QED BY <1>2, <1>3, <2>1
  <1>7. TypeOK'
    BY <1>2, <1>3, <1>6 DEF TypeOK, Op, LockOps
  <1>8. ASSUME NEW u \in Task PROVE (~int[u] => u = cur)' /\ Where(u)'
    <2>1. int[u] /\ Where(u)
      BY <1>5 DEF IInv
    <2>2. CASE todo'[u] = todo[u]
      BY <1>2, <2>1, <2>2, Others
    <2>3. CASE u = cur /\ todo'[u] = <<>>
      <3>1. HeldBy(u)' = HeldBy(u)
        BY <1>2 DEF HeldBy, Has
      <3>2. Resting(u)'
        BY <1>2, <1>5, <2>3, <3>1 DEF Resting
      <3> QED BY <1>2, <2>1, <3>2 DEF Where
    <2> QED BY <1>6, <2>2, <2>3
  <1> QED BY <1>2, <1>7, <1>8 DEF IInv

LEMMA StartStep == IInv /\ Start => IInv'
  <1> SUFFICES ASSUME IInv, Start PROVE IInv'
    OBVIOUS
  <1>1. PICK p \in Paths[cur] : \E s \in Path[p] : todo' = [todo EXCEPT ![cur] = s]
    BY DEF Start
  <1>2. PICK s \in Path[p] : todo' = [todo EXCEPT ![cur] = s]
    BY <1>1
  <1>3. /\ todo[cur] = <<>> /\ UNCHANGED <<cur, int, saved, holder, units, loaded, owners, raced>>
        /\ TypeOK /\ cur \in Task
    BY DEF Start, Idle, IInv, TypeOK
  <1>4. p \in DOMAIN Path
    BY <1>3, LocksAssumption
  <1>5. s \in Seq(Op)
    BY <1>4, PathsFit DEF Fits, Calls
  <1>6. todo' \in [Task -> Seq(Op)] /\ todo'[cur] = s /\ \A u \in Task \ {cur} : todo'[u] = todo[u]
    BY <1>2, <1>3, <1>5 DEF TypeOK, Op, LockOps
  <1>7. TypeOK'
    BY <1>3, <1>6 DEF TypeOK, Op, LockOps
  <1>8. Resting(cur)
    <2> SUFFICES ASSUME NEW q \in DOMAIN Path, NEW w \in Path[q], NEW k \in 1 .. Len(w),
                        Along(cur, w, k)
                 PROVE  FALSE
      BY <1>3 DEF IInv, Where
    <2>1. w \in Seq(Op)
      BY PathsFit DEF Fits, Calls
    <2>2. Len(todo[cur]) = 0
      BY <1>3, EmptySeq
    <2> QED BY <2>1, <2>2 DEF Along
  <1>9. HeldBy(cur)' = {} /\ HeldAt(s, 1) = {}
    BY <1>3, <1>8 DEF Resting, HeldBy, Has, HeldAt
  <1>10. Where(cur)'
    <2>1. CASE s = <<>>
      BY <1>3, <1>6, <1>8, <1>9, <2>1 DEF Where, Resting
    <2>2. CASE s # <<>>
      <3>1. 1 \in 1 .. Len(s)
        BY <1>5, <2>2, EmptySeq
      <3>2. Along(cur, s, 1)'
        <4>1. \A i \in 1 .. Len(s) : 1 + i - 1 = i
          BY <1>5
        <4>2. Len(s) = Len(s) + 1 - 1
          BY <1>5
        <4> QED BY <1>3, <1>6, <1>9, <3>1, <4>1, <4>2 DEF Along
      <3>3. Flags(cur, p, 1)
        BY <1>8 DEF Resting, Flags
      <3>4. Flags(cur, p, 1)'
        BY <1>3, <3>3 DEF Flags
      <3> QED BY <1>4, <3>1, <3>2, <3>4 DEF Where
    <2> QED BY <2>1, <2>2
  <1>11. ASSUME NEW u \in Task PROVE (~int[u] => u = cur)' /\ Where(u)'
    <2>1. CASE u = cur
      BY <1>3, <1>10, <2>1
    <2>2. CASE u # cur
      <3>1. Where(u) /\ (~int[u] => u = cur) /\ todo'[u] = todo[u]
        BY <1>6, <2>2 DEF IInv
      <3> QED BY <1>3, <3>1, Others
    <2> QED BY <2>1, <2>2
  <1> QED BY <1>3, <1>7, <1>11 DEF IInv

LEMMA InitInv == Init => IInv
  <1> SUFFICES ASSUME Init PROVE IInv
    OBVIOUS
  <1>1. TypeOK
    <2>1. 1 \in Task /\ <<>> \in Seq(Op) /\ <<>> \in Seq(BOOLEAN)
      BY LocksAssumption DEF Task
    <2> QED BY <2>1 DEF Init, TypeOK, Op, LockOps
  <1>2. ASSUME NEW t \in Task PROVE (~int[t] => t = cur) /\ Where(t)
    <2>1. HeldBy(t) = {}
      BY TaskFinite DEF Init, HeldBy, Has
    <2> QED BY <2>1 DEF Init, Where, Resting
  <1>3. units + Cardinality(owners) = 1
    BY FS_EmptySet DEF Init
  <1> QED BY <1>1, <1>2, <1>3 DEF IInv

LEMMA StepInv == IInv /\ [Next]_vars => IInv'
  <1> SUFFICES ASSUME IInv, [Next]_vars PROVE IInv'
    OBVIOUS
  <1>1. CASE UNCHANGED vars
    <2>1. UNCHANGED <<cur, int, todo, saved, holder, units, loaded, owners, raced>>
      BY <1>1 DEF vars
    <2>2. TypeOK'
      BY <2>1 DEF IInv, TypeOK
    <2>3. ASSUME NEW u \in Task PROVE (~int[u] => u = cur)' /\ Where(u)'
      BY <2>1, Others DEF IInv
    <2> QED BY <2>1, <2>2, <2>3 DEF IInv
  <1>2. CASE Run
    BY <1>2, SpinLockStep, SpinUnlockStep, IntStep, AcpiLockStep, SemTestStep, SemYieldStep,
       SemStoreStep, SignalStep DEF Run
  <1> QED BY <1>1, <1>2, PreemptStep, StartStep DEF Next

LEMMA Inductive == Spec => []IInv
  BY InitInv, StepInv, PTL DEF Spec

-----------------------------------------------------------------------------
(* TypeOK: every variable holds a value of its type, whatever paths the    *)
(* tasks run.                                                              *)
THEOREM TypeCorrect == Spec => []TypeOK
  <1>1. IInv => TypeOK
    BY DEF IInv
  <1> QED BY <1>1, Inductive, PTL

(* A task waits only for a lock of a lower rank than those it holds, and   *)
(* not for slab_lock with interrupts off.                                  *)
LEMMA WaitsBelow ==
  ASSUME IInv, NEW t \in Task, NEW l \in SpinsOn(t)
  PROVE  /\ l \in Lock /\ holder[l] \in Task /\ l \in HeldBy(holder[l])
         /\ \A h \in HeldBy(t) : Rank(l) < Rank(h)
         /\ l = "slab" => int[t]
  <1>1. l \in Lock /\ todo[t] # <<>> /\ Head(todo[t]) = <<"acq", l>> /\ holder[l] # Free
    BY DEF SpinsOn, Idle
  <1>2. holder[l] \in Task /\ l \in HeldBy(holder[l])
    BY <1>1 DEF IInv, TypeOK, HeldBy, Has
  <1>3. Where(t) /\ todo[t] \in Seq(Op)
    BY DEF IInv, TypeOK, Op, LockOps
  <1>4. PICK p \in DOMAIN Path : \E s \in Path[p] : \E k \in 1 .. Len(s) :
          Along(t, s, k) /\ Flags(t, p, k)
    BY <1>1, <1>3 DEF Where, Resting
  <1>5. PICK s \in Path[p] : \E k \in 1 .. Len(s) : Along(t, s, k) /\ Flags(t, p, k)
    BY <1>4
  <1>6. PICK k \in 1 .. Len(s) : Along(t, s, k) /\ Flags(t, p, k)
    BY <1>5
  <1>7. s \in Seq(Op) /\ Nested(s)
    BY PathsFit DEF Fits, Calls
  <1>8. s[k] = <<"acq", l>>
    <2>1. Len(todo[t]) >= 1 /\ todo[t][1] = s[k + 1 - 1] /\ k + 1 - 1 = k
      BY <1>3, <1>6, <1>7 DEF Along
    <2> QED BY <1>1, <1>3, <2>1
  <1>9. Acquires(s[k], l) /\ s[k][1] = "acq"
    BY <1>8 DEF Acquires
  <1>10. \A h \in HeldBy(t) : Rank(l) < Rank(h)
    BY <1>1, <1>6, <1>7, <1>9 DEF Nested, Along
  <1>11. l = "slab" => int[t]
    <2>1. p # "locks" /\ (l = "slab" => p \notin Masked)
      BY <1>8, <1>9, StepIs
    <2> QED BY <1>6, <2>1 DEF Flags
  <1> QED BY <1>1, <1>2, <1>10, <1>11

(* NoCycle: nested spinlocks never make tasks wait for each other, or a    *)
(* task for itself, and nobody waits for slab_lock with interrupts off.    *)
THEOREM NoCycleHolds == Spec => []NoCycle
  <1>1. IInv => NoCycle
    <2> SUFFICES ASSUME IInv PROVE NoCycle
      OBVIOUS
    <2>1. ASSUME NEW S \in SUBSET Task, S # {}
          PROVE  \E t \in S : \A l \in SpinsOn(t) : holder[l] \notin S
      <3> SUFFICES ASSUME \A t \in S : \E l \in SpinsOn(t) : holder[l] \in S PROVE FALSE
        OBVIOUS
      <3> DEFINE Waits(l) == l \in Lock /\ \E t \in S : l \in SpinsOn(t) /\ holder[l] \in S
      <3>1. ASSUME NEW l, Waits(l) PROVE \E m : Waits(m) /\ Rank(m) < Rank(l)
        <4>1. PICK t \in S : l \in SpinsOn(t) /\ holder[l] \in S
          BY <3>1
        <4>2. l \in HeldBy(holder[l])
          BY <4>1, WaitsBelow
        <4>3. PICK m \in SpinsOn(holder[l]) : holder[m] \in S
          BY <4>1
        <4>4. holder[l] \in Task
          BY <4>1
        <4>5. Rank(m) < Rank(l) /\ m \in Lock
          BY <4>2, <4>3, <4>4, WaitsBelow
        <4> QED BY <4>1, <4>3, <4>5
      <3>2. \E l : Waits(l)
        <4>1. PICK t \in S : TRUE
          BY <2>1
        <4>2. PICK l \in SpinsOn(t) : holder[l] \in S
          BY <4>1
        <4> QED BY <4>1, <4>2, WaitsBelow
      <3> HIDE DEF Waits
      <3>3. \A l : Rank(l) \in 0 .. 2
        BY DEF Rank
      <3>4. PICK a : Waits(a)
        BY <3>2
      <3>5. PICK b : Waits(b) /\ Rank(b) < Rank(a)
        BY <3>1, <3>4
      <3>6. PICK c : Waits(c) /\ Rank(c) < Rank(b)
        BY <3>1, <3>5
      <3>7. PICK d : Waits(d) /\ Rank(d) < Rank(c)
        BY <3>1, <3>6
      <3>8. Rank(a) \in 0 .. 2 /\ Rank(b) \in 0 .. 2 /\ Rank(c) \in 0 .. 2 /\ Rank(d) \in 0 .. 2
        BY <3>3
      <3> QED BY <3>5, <3>6, <3>7, <3>8
    <2>2. Wedged => SpinsOn(cur) \cap {"slab"} = {}
      <3>1. cur \in Task
        BY DEF IInv, TypeOK
      <3> QED BY <3>1, WaitsBelow DEF Wedged
    <2>3. \A S \in (SUBSET Task) \ {{}} :
            \E t \in S : \A l \in SpinsOn(t) : holder[l] \notin S
      BY <2>1, Zenon
    <2> QED BY <2>2, <2>3, Zenon DEF NoCycle
  <1> QED BY <1>1, Inductive, PTL

(* UnitConserved: ACPICA's locks exclude each other, and its mutex's one   *)
(* unit is with one task or in the semaphore until a store overwrites what *)
(* another task changed.                                                   *)
THEOREM UnitConservedHolds == Spec => []UnitConserved
  <1>1. IInv => UnitConserved
    <2> SUFFICES ASSUME IInv PROVE UnitConserved
      OBVIOUS
    <2>1. ASSUME NEW t \in Task, saved[t] # <<>> PROVE t = cur
      <3>1. Where(t) /\ ~Resting(t)
        BY <2>1 DEF IInv, Resting
      <3>2. PICK p \in DOMAIN Path : \E s \in Path[p] : \E k \in 1 .. Len(s) :
              Along(t, s, k) /\ Flags(t, p, k)
        BY <3>1 DEF Where
      <3>3. PICK s \in Path[p] : \E k \in 1 .. Len(s) : Along(t, s, k) /\ Flags(t, p, k)
        BY <3>2
      <3>4. PICK k \in 1 .. Len(s) : Flags(t, p, k)
        BY <3>3
      <3>5. p = "locks" /\ k # 1
        BY <2>1, <3>4, Zenon DEF Flags
      <3>6. ~int[t]
        BY <3>4, <3>5, Zenon DEF Flags
      <3> QED BY <3>6 DEF IInv
    <2>2. AcpiExclusive
      BY <2>1 DEF AcpiExclusive
    <2> QED BY <2>2 DEF UnitConserved, IInv
  <1> QED BY <1>1, Inductive, PTL
=============================================================================
