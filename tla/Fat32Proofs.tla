---------------------------- MODULE Fat32Proofs ----------------------------
(***************************************************************************)
(* The FAT32 driver, for any number of clusters and of entries in one, any *)
(* names and any sizes.                                                    *)
(*                                                                         *)
(* Whatever writes are lost and wherever the machine stops, the links run  *)
(* in no circle: first part.  And as long as nothing put the disk in disorder,   *)
(* each operation goes through the stages below, and at each of them the   *)
(* directories, the links between clusters and the entries that name them  *)
(* form one forest: second part.                                           *)
(***************************************************************************)
EXTENDS Fat32, SequenceTheorems, WellFoundedInduction, TLAPS

USE Fat32Assumption DEF Fat32Assumption

(* No circle: every set of clusters has one whose link leads out of it.    *)
Acyclic == \A S \in SUBSET Cluster : S # {} => \E c \in S : fat[c] \notin S

(* A list of jobs that links no cluster to another, and a first job that   *)
(* may: to a free one.                                                     *)
Plain(s) == \A k \in DOMAIN s : s[k].do = "fat" => s[k].v = EOF

Linkable(j) == j.do = "fat" => \/ j.v = EOF
                               \/ j.v \in Cluster /\ j.v # j.c /\ fat[j.v] = FREE
Ready == todo # <<>> => Linkable(Head(todo)) /\ Plain(Tail(todo))

(* What survives every loss and every crash, and all that there is.        *)
IInv == TypeOK /\ harm # "garbled" /\ Acyclic /\ Ready
Inv  == IInv \/ (TypeOK /\ harm = "garbled" /\ todo = <<>>)

LEMMA Bounds ==
  /\ Cluster \subseteq Nat /\ Root \in Cluster /\ EOF \in Nat /\ EOF \notin Cluster
  /\ FREE \notin Cluster /\ FREE # EOF /\ 1 \in 1 .. Slots /\ 2 \in 1 .. Slots
  BY DEF Cluster, Root, EOF, FREE

LEMMA ChainIn ==
  ASSUME NEW c
  PROVE  Chain(c) \subseteq Cluster
  BY DEF Chain

LEMMA ChainClosed ==
  ASSUME NEW c \in Cluster
  PROVE  /\ c \in Chain(c)
         /\ \A x \in Chain(c) : fat[x] \in Cluster => fat[x] \in Chain(c)
  BY DEF Chain

LEMMA SlotTypes ==
  /\ {End, Gone, Dot, Text} \subseteq Slot
  /\ \A n \in Name, c \in Cluster, s \in {0} \cup Size, k \in {"file", "dir"} :
       Entry(k, n, c, s) \in Slot
  /\ \A e \in Slot : e.name \in Name \/ e.kind \in {"file", "dir"} =>
       /\ e.kind \in {"file", "dir"} /\ e.first \in Cluster
       /\ \A s \in Size : [e EXCEPT !.size = s] \in Slot
  BY DEF Slot, Entry, End, Gone, Dot, Text, NoName

LEMMA BlockTypes ==
  /\ \A e \in Slot : Fill(e) \in Block
  /\ Folder \in Block
  BY SlotTypes DEF Fill, Folder, Block

LEMMA PlaceTypes ==
  ASSUME TypeOK, NEW c, NEW n
  PROVE  /\ Places(c) \subseteq Place /\ Vacant(c) \subseteq Places(c)
         /\ \A p \in Find(c, n) : p \in Place /\ At(p).name = n
         /\ \A p \in Place : At(p) \in Slot /\ p[1] \in Cluster /\ p[2] \in 1 .. Slots
  <1>1. Places(c) \subseteq Place
    BY ChainIn DEF Places, Place
  <1>2. Vacant(c) \subseteq Places(c)
    BY DEF Vacant, First
  <1>3. \A p \in Find(c, n) : p \in Places(c) /\ At(p).name = n
    BY DEF Find, First
  <1>4. \A p \in Place : At(p) \in Slot /\ p[1] \in Cluster /\ p[2] \in 1 .. Slots
    BY DEF Place, At, TypeOK, Block
  <1> QED BY <1>1, <1>2, <1>3, <1>4

LEMMA JobTypes ==
  /\ \A c \in Cluster, v \in Cluster \cup {EOF} : Mark(c, v) \in Jobs
  /\ \A c \in Cluster, b \in Block : Sector(c, b) \in Jobs
  /\ \A p \in Place, e \in Slot : PutSlot(p, e) \in Jobs
  /\ \A c \in Cluster : FreeFrom(c) \in Jobs
  /\ \A c \in Cluster, n \in Name, b \in Block : NewFile(c, n, b) \in Jobs
  /\ \A p \in Place, n \in Name : NewFolder(p, n) \in Jobs
  /\ \A c \in Cluster, s \in Nat \ {0} : WriteText(c, s) \in Jobs
  <1>1. End \in Slot
    BY SlotTypes
  <1>2. \A c \in Cluster, v \in Cluster \cup {EOF} : Mark(c, v) \in Jobs
    BY <1>1, Bounds DEF Mark, Job, Jobs
  <1>3. \A c \in Cluster, b \in Block : Sector(c, b) \in Jobs
    BY <1>1, Bounds DEF Sector, Job, Jobs
  <1>4. \A p \in Place, e \in Slot : PutSlot(p, e) \in Jobs
    BY <1>1, Bounds DEF PutSlot, Job, Jobs, Place
  <1>5. \A c \in Cluster : FreeFrom(c) \in Jobs
    BY <1>1, Bounds DEF FreeFrom, Job, Jobs
  <1>6. \A c \in Cluster, n \in Name, b \in Block : NewFile(c, n, b) \in Jobs
    BY <1>1, Bounds DEF NewFile, Job, Jobs, Entry
  <1>7. \A p \in Place, n \in Name : NewFolder(p, n) \in Jobs
    BY <1>1, Bounds DEF NewFolder, Job, Jobs, Entry, Place
  <1>8. \A c \in Cluster, s \in Nat \ {0} : WriteText(c, s) \in Jobs
    BY <1>1, Bounds DEF WriteText, Job, Jobs
  <1> QED BY <1>2, <1>3, <1>4, <1>5, <1>6, <1>7, <1>8

(* The entry of a new file once its cluster is known.                      *)
LEMMA NewEntry ==
  ASSUME NEW j \in Jobs, j.do = "newfile", NEW c \in Cluster
  PROVE  LET e == [j.e EXCEPT !.first = c] IN e \in Slot /\ e.first = c /\ e.kind = j.e.kind
  <1>1. /\ j.e \in Slot \cup [kind : {"file", "dir"}, name : Name, first : {0}, size : {0}]
        /\ j.e.kind \in {"file", "dir"} /\ j.e.first = 0
    BY DEF Jobs
  <1>2. j.e \notin Slot
    BY <1>1, SlotTypes, Bounds DEF FREE
  <1>3. j.e \in [kind : {"file", "dir"}, name : Name, first : {0}, size : {0}]
    BY <1>1, <1>2
  <1> DEFINE e == [j.e EXCEPT !.first = c]
  <1>4. /\ e \in [kind : {"file", "dir"}, name : Name, first : Cluster, size : {0} \cup Size]
        /\ e.first = c /\ e.kind = j.e.kind
    BY <1>3
  <1> QED BY <1>4 DEF Slot

LEMMA InitInv == Init => IInv
  <1> SUFFICES ASSUME Init PROVE IInv
    OBVIOUS
  <1>1. /\ fat \in [Cluster -> {FREE, EOF} \cup Cluster] /\ 3 \in Cluster /\ 4 \in Cluster
        /\ fat[3] = 4 /\ fat[4] = EOF /\ \A c \in Cluster \ {3} : fat[c] \notin Cluster
    BY DEF Init, Cluster, Root, EOF, FREE
  <1>2. data \in [Cluster -> Block]
    <2>1. PICK n \in Name :
            data = [c \in Cluster |-> CASE c = Root -> [Fill(End) EXCEPT ![1] = Entry("file", n, 3, 2)]
                                        [] c \in {3, 4} -> Fill(Text) [] OTHER -> Fill(End)]
      BY DEF Init
    <2>2. Entry("file", n, 3, 2) \in Slot /\ Fill(End) \in Block /\ Fill(Text) \in Block
      BY <1>1, SlotTypes, BlockTypes
    <2>3. [Fill(End) EXCEPT ![1] = Entry("file", n, 3, 2)] \in Block
      BY <2>2 DEF Block
    <2> QED BY <2>1, <2>2, <2>3
  <1>3. TypeOK
    <2>1. todo = <<>> /\ <<>> \in Seq(Jobs)
      BY DEF Init
    <2>2. target = NoPlace /\ harm = "none" /\ after = 0 /\ 0 \in 0 .. MaxAfter
      BY DEF Init
    <2> QED BY <1>1, <1>2, <2>1, <2>2 DEF TypeOK
  <1>4. Acyclic
    BY <1>1 DEF Acyclic
  <1> QED BY <1>3, <1>4 DEF IInv, Ready, Init

(* The jobs an operation starts with, or goes on with: only the first may  *)
(* link a cluster to another.                                              *)
Fit(s) == s \in Seq(Jobs) /\ s # <<>> /\ Linkable(Head(s)) /\ Plain(Tail(s))

(* After its first job an operation links no cluster to another.           *)
Tame(s) == s \in Seq(Jobs) /\ Plain(s)

LEMMA FitJobs ==
  ASSUME NEW x \in Jobs, NEW y \in Jobs, NEW z \in Jobs,
         Linkable(x), y.do = "fat" => y.v = EOF, z.do = "fat" => z.v = EOF
  PROVE  Fit(<<x>>) /\ Fit(<<x, y>>) /\ Fit(<<x, y, z>>)
  BY DEF Fit, Plain

(* The entry of a new file or directory, and its cluster.                  *)
LEMMA EntryJobs ==
  ASSUME NEW p \in Place, NEW n \in Name, NEW c \in Cluster
  PROVE  /\ Fit(FileJobs(p, n, c)) /\ Fit(FolderJobs(p, n, c))
         /\ Tame(FolderJobs(p, n, c))
  <1> DEFINE x == PutSlot(p, Entry("file", n, c, 0))
             u == PutSlot(p, Entry("dir", n, c, 0))
             y == Mark(c, EOF)
             z == Sector(c, Folder)
  <1>1. x \in Jobs /\ u \in Jobs /\ y \in Jobs /\ z \in Jobs
    BY JobTypes, SlotTypes, BlockTypes
  <1>2. x.do = "slot" /\ u.do = "slot" /\ y.v = EOF /\ z.do = "sector"
    BY DEF PutSlot, Mark, Sector, Job
  <1>3. Linkable(x) /\ Linkable(u)
    BY <1>2 DEF Linkable
  <1>4. FileJobs(p, n, c) = <<x, y>> /\ FolderJobs(p, n, c) = <<u, y, z>>
    BY DEF FileJobs, FolderJobs
  <1> HIDE DEF x, u, y, z
  <1>5. Tame(<<u, y, z>>)
    BY <1>1, <1>2 DEF Tame, Plain
  <1> QED BY <1>1, <1>2, <1>3, <1>4, <1>5, FitJobs

(* Linking a cluster that is free to one at the end of a chain.            *)
LEMMA GrowJobs ==
  ASSUME IInv, NEW d, NEW last \in Ending(d), NEW new \in FirstFree, NEW j \in Jobs, j.do # "fat"
  PROVE  Fit(Grow(last, new, j))
  <1>1. last \in Cluster /\ fat[last] = EOF /\ new \in Cluster /\ fat[new] = FREE
    BY ChainIn DEF Ending, FirstFree
  <1> DEFINE m == Mark(last, new)
             n == Mark(new, EOF)
             s == Sector(new, Fill(End))
  <1>2. m \in Jobs /\ n \in Jobs /\ s \in Jobs
    BY <1>1, JobTypes, SlotTypes, BlockTypes
  <1>3. m.c = last /\ m.v = new /\ n.do = "fat" /\ n.v = EOF /\ s.do = "sector"
    BY DEF Mark, Sector, Job
  <1>4. Grow(last, new, j) = <<m, n, s, j>>
    BY DEF Grow
  <1> HIDE DEF m, n, s
  <1>5. <<m, n, s, j>> \in Seq(Jobs) /\ Head(<<m, n, s, j>>) = m /\ Tail(<<m, n, s, j>>) = <<n, s, j>>
        /\ <<m, n, s, j>> # <<>>
    BY <1>2
  <1>6. Linkable(m)
    BY <1>1, <1>3, Bounds DEF Linkable
  <1>7. Plain(<<n, s, j>>)
    BY <1>3 DEF Plain
  <1> QED BY <1>4, <1>5, <1>6, <1>7 DEF Fit

LEMMA StartInv ==
  ASSUME IInv, NEW jobs, NEW p \in Place, NEW b, NEW why \in {"nofolder", "nofile", "orphans"},
         Start(jobs, p), HurtIf(b, why), UNCHANGED <<fat, data>>, Fit(jobs)
  PROVE  IInv'
  <1>1. after' \in 0 .. MaxAfter
    BY DEF Start, IInv, TypeOK
  <1>2. harm' \in {"none", "lost", "crash", "stale", "nofolder", "nofile", "orphans"}
    BY DEF HurtIf, Hurt, IInv, TypeOK
  <1>3. TypeOK'
    BY <1>1, <1>2 DEF TypeOK, IInv, Start, Fit
  <1>4. Acyclic' /\ Ready'
    BY DEF IInv, Acyclic, Ready, Start, Linkable, Fit, Plain
  <1> QED BY <1>2, <1>3, <1>4 DEF IInv

LEMMA CreateInv ==
  ASSUME IInv, NEW path, NEW n \in Name, Fat32Create(path, n)
  PROVE  IInv'
  <1> DEFINE d == Resolve(path)
             b == NotFolder(path)
  <1>1. UNCHANGED <<fat, data>> /\ HurtIf(b, "nofolder")
    BY DEF Fat32Create
  <1>2. ASSUME NEW p \in Vacant(d), NEW c \in FirstFree, Start(FileJobs(p, n, c), p) PROVE IInv'
    <2>1. p \in Place /\ c \in Cluster
      BY PlaceTypes DEF FirstFree, IInv
    <2> HIDE DEF b
    <2> QED BY <1>1, <1>2, <2>1, EntryJobs, StartInv
  <1>3. ASSUME NEW last \in Ending(d), NEW new \in FirstFree,
               Start(Grow(last, new, NewFile(new, n, data[last])), <<new, 1>>)
        PROVE  IInv'
    <2> DEFINE j == NewFile(new, n, data[last])
    <2>1. last \in Cluster /\ new \in Cluster /\ <<new, 1>> \in Place
      BY ChainIn, Bounds DEF Ending, FirstFree, Place
    <2>2. j \in Jobs /\ j.do = "newfile"
      BY <2>1, JobTypes DEF IInv, TypeOK, NewFile, Job
    <2> HIDE DEF b, j, d
    <2>3. Fit(Grow(last, new, j))
      BY <2>2, GrowJobs
    <2> QED BY <1>1, <1>3, <2>1, <2>3, StartInv DEF j
  <1> QED BY <1>2, <1>3 DEF Fat32Create

LEMMA MkdirInv ==
  ASSUME IInv, NEW path, NEW n \in Name, Fat32Mkdir(path, n)
  PROVE  IInv'
  <1> DEFINE d == Resolve(path)
             b == NotFolder(path)
  <1>1. UNCHANGED <<fat, data>> /\ HurtIf(b, "nofolder")
    BY DEF Fat32Mkdir
  <1>2. ASSUME NEW p \in Vacant(d), NEW c \in FirstFree, Start(FolderJobs(p, n, c), p) PROVE IInv'
    <2>1. p \in Place /\ c \in Cluster
      BY PlaceTypes DEF FirstFree, IInv
    <2> HIDE DEF b
    <2> QED BY <1>1, <1>2, <2>1, EntryJobs, StartInv
  <1>3. ASSUME NEW last \in Ending(d), NEW new \in FirstFree,
               Start(Grow(last, new, NewFolder(<<new, 1>>, n)), <<new, 1>>)
        PROVE  IInv'
    <2> DEFINE j == NewFolder(<<new, 1>>, n)
    <2>1. <<new, 1>> \in Place
      BY Bounds DEF FirstFree, Place
    <2>2. j \in Jobs /\ j.do = "newfolder"
      BY <2>1, JobTypes DEF NewFolder, Job
    <2> HIDE DEF b, j, d
    <2>3. Fit(Grow(last, new, j))
      BY <2>2, GrowJobs
    <2> QED BY <1>1, <1>3, <2>1, <2>3, StartInv DEF j
  <1> QED BY <1>2, <1>3 DEF Fat32Mkdir

LEMMA RemoveInv ==
  ASSUME IInv, NEW path, NEW n \in Name, Fat32Remove(path, n)
  PROVE  IInv'
  <1> DEFINE b(p) == \/ NotFolder(path)
                     \/ At(p).kind = "dir" /\ \E q \in Places(At(p).first) :
                          At(q).kind \in {"file", "dir"}
  <1>1. PICK p \in Find(Resolve(path), n) :
          Start(<<FreeFrom(At(p).first), PutSlot(p, Gone)>>, p) /\ HurtIf(b(p), "orphans")
    BY DEF Fat32Remove
  <1>2. p \in Place /\ At(p).first \in Cluster
    BY PlaceTypes, SlotTypes DEF IInv
  <1> DEFINE x == FreeFrom(At(p).first)
             y == PutSlot(p, Gone)
  <1>3. x \in Jobs /\ y \in Jobs
    BY <1>2, JobTypes, SlotTypes
  <1>4. x.do = "free" /\ y.do = "slot"
    BY DEF FreeFrom, PutSlot, Job
  <1>5. UNCHANGED <<fat, data>>
    BY DEF Fat32Remove
  <1> HIDE DEF x, y, b
  <1>6. Fit(<<x, y>>)
    BY <1>3, <1>4, FitJobs DEF Linkable
  <1> QED BY <1>1, <1>2, <1>5, <1>6, StartInv DEF x, y

LEMMA WriteInv ==
  ASSUME IInv, NEW path, NEW n \in Name, NEW size \in Size, Fat32Write(path, n, size)
  PROVE  IInv'
  <1> DEFINE b(p) == NotFolder(path) \/ At(p).kind = "dir"
  <1>1. PICK p \in Find(Resolve(path), n) :
          Start(WriteJobs(p, size), p) /\ HurtIf(b(p), "nofile")
    BY DEF Fat32Write
  <1>2. p \in Place /\ At(p).first \in Cluster /\ [At(p) EXCEPT !.size = size] \in Slot
    BY PlaceTypes, SlotTypes DEF IInv
  <1> DEFINE x == WriteText(At(p).first, size)
             y == PutSlot(p, [At(p) EXCEPT !.size = size])
  <1>3. x \in Jobs /\ y \in Jobs
    BY <1>2, JobTypes, SlotTypes
  <1>4. x.do = "text" /\ y.do = "slot"
    BY DEF WriteText, PutSlot, Job
  <1>5. UNCHANGED <<fat, data>>
    BY DEF Fat32Write
  <1>6. WriteJobs(p, size) \in {<<x>>, <<x, y>>}
    BY DEF WriteJobs
  <1> HIDE DEF x, y, b
  <1>7. Fit(<<x>>) /\ Fit(<<x, y>>)
    BY <1>3, <1>4, FitJobs DEF Linkable
  <1> QED BY <1>1, <1>2, <1>5, <1>6, <1>7, StartInv

LEMMA TameHead ==
  ASSUME NEW s, Tame(s), s # <<>>
  PROVE  (Head(s).do = "fat" => Head(s).v = EOF) /\ Plain(Tail(s))
  <1>1. s \in Seq(Jobs) /\ Plain(s)
    BY DEF Tame
  <1>2. Head(s).do = "fat" => Head(s).v = EOF
    BY <1>1 DEF Plain
  <1>3. \A k \in DOMAIN Tail(s) : k + 1 \in DOMAIN s /\ Tail(s)[k] = s[k + 1]
    BY <1>1
  <1> QED BY <1>1, <1>2, <1>3 DEF Plain

LEMMA FirstJob ==
  ASSUME IInv, todo # <<>>
  PROVE  /\ Head(todo) \in Jobs /\ Linkable(Head(todo)) /\ Tame(Tail(todo))
         /\ \A k \in Jobs : k.do # "fat" => Tame([todo EXCEPT ![1] = k])
  <1>1. todo \in Seq(Jobs) /\ Linkable(Head(todo)) /\ Plain(Tail(todo))
    BY DEF IInv, TypeOK, Ready
  <1>2. Head(todo) \in Jobs /\ Tail(todo) \in Seq(Jobs)
    BY <1>1
  <1>3. ASSUME NEW k \in Jobs, k.do # "fat" PROVE Tame([todo EXCEPT ![1] = k])
    <2> DEFINE s == [todo EXCEPT ![1] = k]
    <2>1. s \in Seq(Jobs) /\ DOMAIN s = 1 .. Len(todo) /\ s[1] = k
      BY <1>1, <1>3
    <2>2. ASSUME NEW i \in DOMAIN s, i # 1 PROVE i - 1 \in DOMAIN Tail(todo) /\ s[i] = Tail(todo)[i - 1]
      BY <1>1, <2>1, <2>2
    <2> HIDE DEF s
    <2>3. Plain(s)
      BY <1>1, <1>3, <2>1, <2>2 DEF Plain
    <2> QED BY <2>1, <2>3 DEF Tame, s
  <1> QED BY <1>1, <1>2, <1>3 DEF Tame

(* A new mark that leads nowhere, or to a free cluster, closes no circle.  *)
LEMMA AcyclicKept ==
  ASSUME Acyclic, NEW c \in Cluster, NEW v, fat \in [Cluster -> {FREE, EOF} \cup Cluster],
         v \notin Cluster \/ (v # c /\ fat[v] = FREE),
         fat' = [fat EXCEPT ![c] = v]
  PROVE  Acyclic'
  <1> SUFFICES ASSUME NEW S \in SUBSET Cluster, S # {} PROVE \E x \in S : fat'[x] \notin S
    BY DEF Acyclic
  <1>1. CASE c \in S /\ v \notin S
    BY <1>1
  <1>2. CASE v \in S
    <2>1. v \in Cluster /\ fat'[v] = FREE
      BY <1>2
    <2> QED BY <1>2, <2>1, Bounds
  <1>3. CASE c \notin S
    <2>1. PICK x \in S : fat[x] \notin S
      BY DEF Acyclic
    <2> QED BY <1>3, <2>1
  <1> QED BY <1>1, <1>2, <1>3

(* A step of an operation that is under way, in terms of what it leaves.   *)
LEMMA WorkInv ==
  ASSUME IInv, UNCHANGED after, Acyclic',
         fat' \in [Cluster -> {FREE, EOF} \cup Cluster], data' \in [Cluster -> Block],
         harm' \in {harm, "lost", "stale", "crash"},
         Quit \/ (UNCHANGED target /\ Tame(todo'))
  PROVE  IInv'
  <1>1. Tame(todo') /\ target' \in Place \cup {NoPlace}
    <2>1. Tame(<<>>)
      BY DEF Tame, Plain
    <2> QED BY <2>1 DEF Quit, IInv, TypeOK
  <1>2. harm' \in {"none", "lost", "crash", "stale", "nofolder", "nofile", "orphans"}
    BY DEF IInv, TypeOK
  <1>3. TypeOK'
    BY <1>1, <1>2 DEF Tame, IInv, TypeOK
  <1>4. Ready'
    BY <1>1, TameHead DEF Ready, Linkable, Plain
  <1> QED BY <1>2, <1>3, <1>4 DEF IInv

LEMMA PutInv ==
  ASSUME IInv, NEW lost \in BOOLEAN, NEW c \in Cluster, NEW v \in {FREE, EOF} \cup Cluster, NEW d,
         v \notin Cluster \/ (v # c /\ fat[v] = FREE), d \in [Cluster -> Block],
         Put(lost, [fat EXCEPT ![c] = v], d) \/ Put(lost, fat, d),
         UNCHANGED after, Quit \/ (UNCHANGED target /\ Tame(todo'))
  PROVE  IInv'
  <1>1. fat \in [Cluster -> {FREE, EOF} \cup Cluster] /\ data \in [Cluster -> Block] /\ Acyclic
    BY DEF IInv, TypeOK
  <1>2. harm' \in {harm, "lost", "stale", "crash"} /\ data' \in [Cluster -> Block]
    BY <1>1 DEF Put, Hurt
  <1>3. fat' = fat \/ fat' = [fat EXCEPT ![c] = v]
    BY DEF Put
  <1>4. Acyclic' /\ fat' \in [Cluster -> {FREE, EOF} \cup Cluster]
    BY <1>1, <1>3, AcyclicKept DEF Acyclic
  <1> QED BY <1>2, <1>4, WorkInv

LEMMA DiskInv ==
  ASSUME IInv, NEW lost \in BOOLEAN, Step(lost), UNCHANGED after
  PROVE  IInv'
  <1> DEFINE j == Head(todo)
  <1>1. todo # <<>>
    BY DEF Step
  <1>2. j \in Jobs /\ Linkable(j) /\ Tame(Tail(todo))
        /\ \A k \in Jobs : k.do # "fat" => Tame([todo EXCEPT ![1] = k])
    BY <1>1, FirstJob
  <1>3. /\ fat \in [Cluster -> {FREE, EOF} \cup Cluster] /\ data \in [Cluster -> Block]
        /\ j.c \in Cluster /\ FREE \notin Cluster /\ FREE \in {FREE, EOF} \cup Cluster
    BY <1>2, Bounds DEF IInv, TypeOK, Jobs
  <1>4. Rest => Quit \/ (UNCHANGED target /\ Tame(todo'))
    BY <1>2 DEF Rest
  <1> HIDE DEF j
  <1>5. CASE DoMark(j, lost)
    <2>1. j.do = "fat" /\ Put(lost, [fat EXCEPT ![j.c] = j.v], data) /\ Rest
      BY <1>5 DEF DoMark
    <2>2. j.v \in {FREE, EOF} \cup Cluster /\ (j.v \notin Cluster \/ (j.v # j.c /\ fat[j.v] = FREE))
      BY <1>2, <2>1, Bounds DEF Jobs, Linkable
    <2> QED BY <1>3, <1>4, <2>1, <2>2, PutInv
  <1>6. CASE DoSector(j, lost)
    <2>1. Put(lost, fat, [data EXCEPT ![j.c] = j.b]) /\ Rest /\ j.b \in Block
      BY <1>2, <1>6 DEF DoSector, Jobs
    <2> DEFINE d == [data EXCEPT ![j.c] = j.b]
    <2>2. d \in [Cluster -> Block]
      BY <1>3, <2>1
    <2> HIDE DEF d
    <2> QED BY <1>3, <1>4, <2>1, <2>2, PutInv DEF d
  <1>7. CASE DoSlot(j, lost)
    <2>1. Put(lost, fat, [data EXCEPT ![j.c][j.i] = j.e]) /\ Rest /\ j.i \in 1 .. Slots /\ j.e \in Slot
      BY <1>2, <1>7 DEF DoSlot, Jobs
    <2> DEFINE d == [data EXCEPT ![j.c][j.i] = j.e]
    <2>2. d \in [Cluster -> Block]
      BY <1>3, <2>1 DEF Block
    <2> HIDE DEF d
    <2> QED BY <1>3, <1>4, <2>1, <2>2, PutInv DEF d
  <1>8. CASE DoFree(j, lost)
    <2>1. CASE Quit /\ UNCHANGED <<fat, data, harm>>
      BY <1>3, <2>1, WorkInv DEF IInv, Acyclic
    <2>2. CASE Put(lost, [fat EXCEPT ![j.c] = FREE], data) /\ Rest
      BY <1>3, <1>4, <2>2, PutInv
    <2>3. CASE /\ Put(lost, [fat EXCEPT ![j.c] = FREE], data) /\ fat[j.c] \in Cluster
               /\ todo' = [todo EXCEPT ![1] = FreeFrom(fat[j.c])] /\ UNCHANGED target
      <3>1. FreeFrom(fat[j.c]) \in Jobs /\ FreeFrom(fat[j.c]).do = "free"
        BY <2>3, JobTypes DEF FreeFrom, Job
      <3>2. Tame(todo')
        BY <1>2, <2>3, <3>1
      <3> QED BY <1>3, <2>3, <3>2, PutInv
    <2> QED BY <1>8, <2>1, <2>2, <2>3 DEF DoFree
  <1>9. CASE DoText(j, lost)
    <2> DEFINE d == [data EXCEPT ![j.c] = Fill(Text)]
    <2>1. d \in [Cluster -> Block]
      BY <1>3, BlockTypes, SlotTypes
    <2>2. Put(lost, fat, d)
      BY <1>9 DEF DoText
    <2> HIDE DEF d
    <2>3. CASE Quit \/ Rest
      BY <1>3, <1>4, <2>1, <2>2, <2>3, PutInv
    <2>4. CASE /\ j.v > 1 /\ fat[j.c] \in Cluster
               /\ todo' = [todo EXCEPT ![1] = WriteText(fat[j.c], j.v - 1)] /\ UNCHANGED target
      <3>1. j.v - 1 \in Nat \ {0}
        BY <1>2, <2>4 DEF Jobs
      <3>2. WriteText(fat[j.c], j.v - 1) \in Jobs /\ WriteText(fat[j.c], j.v - 1).do = "text"
        BY <2>4, <3>1, JobTypes DEF WriteText, Job
      <3>3. Tame(todo')
        BY <1>2, <2>4, <3>2
      <3> QED BY <1>3, <2>1, <2>2, <2>4, <3>3, PutInv
    <2> QED BY <1>9, <2>3, <2>4 DEF DoText
  <1> QED BY <1>5, <1>6, <1>7, <1>8, <1>9 DEF Step, j

LEMMA GoInv ==
  ASSUME IInv, Go, UNCHANGED after
  PROVE  IInv'
  <1> DEFINE j == Head(todo)
  <1>1. todo # <<>> /\ (DoNewFile(j) \/ DoNewFolder(j))
    BY DEF Go
  <1>2. j \in Jobs /\ UNCHANGED <<fat, data>>
    BY <1>1, FirstJob DEF DoNewFile, DoNewFolder
  <1>3. /\ fat' \in [Cluster -> {FREE, EOF} \cup Cluster] /\ data' \in [Cluster -> Block] /\ Acyclic'
    BY <1>2 DEF IInv, TypeOK, Acyclic
  <1> HIDE DEF j
  <1>4. harm' \in {harm, "lost", "stale", "crash"}
    BY <1>1 DEF DoNewFile, DoNewFolder, HurtIf, Hurt
  <1>5. CASE Quit
    BY <1>3, <1>4, <1>5, WorkInv
  <1>6. ASSUME DoNewFile(j), NEW c \in FirstFree, UNCHANGED target,
               todo' = <<Sector(j.c, [j.b EXCEPT ![1] = [j.e EXCEPT !.first = c]]), Mark(c, EOF)>>
        PROVE  IInv'
    <2> DEFINE x == Sector(j.c, [j.b EXCEPT ![1] = [j.e EXCEPT !.first = c]])
               y == Mark(c, EOF)
    <2>1. j.c \in Cluster /\ j.b \in Block /\ c \in Cluster
      BY <1>2, <1>6 DEF DoNewFile, Jobs, FirstFree
    <2>2. [j.e EXCEPT !.first = c] \in Slot
      BY <1>2, <1>6, <2>1, NewEntry DEF DoNewFile
    <2>3. [j.b EXCEPT ![1] = [j.e EXCEPT !.first = c]] \in Block
      BY <2>1, <2>2 DEF Block
    <2>4. x \in Jobs /\ y \in Jobs /\ x.do = "sector" /\ y.v = EOF
      BY <2>1, <2>3, JobTypes DEF Sector, Mark, Job
    <2> HIDE DEF x, y
    <2>5. Tame(<<x, y>>)
      BY <2>4 DEF Tame, Plain
    <2> QED BY <1>3, <1>4, <1>6, <2>5, WorkInv DEF x, y
  <1>7. ASSUME DoNewFolder(j), NEW c \in FirstFree, UNCHANGED target,
               todo' = FolderJobs(<<j.c, j.i>>, j.e.name, c)
        PROVE  IInv'
    <2>1. <<j.c, j.i>> \in Place /\ c \in Cluster
      BY <1>2, <1>7 DEF DoNewFolder, Jobs, FirstFree, Place
    <2>2. j.e.name \in Name
      BY <1>2, <1>7 DEF DoNewFolder, Jobs, Slot, End, Gone, Dot, Text, Entry
    <2>3. Tame(todo')
      BY <1>7, <2>1, <2>2, EntryJobs
    <2> QED BY <1>3, <1>4, <1>7, <2>3, WorkInv
  <1> QED BY <1>1, <1>5, <1>6, <1>7 DEF DoNewFile, DoNewFolder

(* Other bytes are of their type all the same.                             *)
LEMMA GarbleInv ==
  ASSUME TypeOK, Garble, UNCHANGED after
  PROVE  Inv'
  <1>1. fat' \in [Cluster -> {FREE, EOF} \cup Cluster]
    BY StrayAssumption DEF Garble
  <1>2. data' \in [Cluster -> Block]
    BY StrayAssumption DEF Garble
  <1>3. /\ harm' = "garbled" /\ todo' = <<>> /\ todo' \in Seq(Jobs) /\ target' = NoPlace
        /\ after' \in 0 .. MaxAfter
    BY DEF Garble, Quit, TypeOK
  <1> QED BY <1>1, <1>2, <1>3 DEF Inv, TypeOK

LEMMA StepInv == Inv /\ [Next]_vars => Inv'
  <1> SUFFICES ASSUME Inv, [Next]_vars PROVE Inv'
    OBVIOUS
  <1>1. ASSUME NEW path \in Path, NEW n \in Name,
               \/ Fat32Create(path, n) \/ Fat32Mkdir(path, n) \/ Fat32Remove(path, n)
               \/ \E size \in Size : Fat32Write(path, n, size)
        PROVE  Inv'
    <2>1. harm # "garbled"
      BY <1>1 DEF Fat32Create, Fat32Mkdir, Fat32Remove, Fat32Write, Start
    <2> QED BY <1>1, <2>1, CreateInv, MkdirInv, RemoveInv, WriteInv DEF Inv
  <1>2. CASE Crash /\ UNCHANGED after
    BY <1>2, WorkInv DEF Crash, Hurt, Inv, IInv, TypeOK, Acyclic
  <1>3. CASE UNCHANGED vars
    BY <1>3 DEF vars, Inv, IInv, TypeOK, Acyclic, Ready, Linkable, Plain
  <1>4. CASE Garble /\ UNCHANGED after
    BY <1>4, GarbleInv DEF Inv, IInv
  <1>5. CASE Go /\ UNCHANGED after
    BY <1>5, GoInv DEF Go, Inv
  <1>6. ASSUME NEW lost \in BOOLEAN, Step(lost), UNCHANGED after PROVE Inv'
    BY <1>6, DiskInv DEF Step, Inv
  <1> QED BY <1>1, <1>2, <1>3, <1>4, <1>5, <1>6 DEF Next

LEMMA Inductive == Spec => []Inv
  <1>1. Init => Inv
    BY InitInv DEF Inv
  <1> QED BY <1>1, StepInv, PTL DEF Spec

(* Every variable keeps its type.                                          *)
THEOREM TypeCorrect == Spec => []TypeOK
  <1>1. Inv => TypeOK
    BY DEF Inv, IInv
  <1> QED BY <1>1, Inductive, PTL

(* Whatever writes are lost and wherever the machine stops, every walk     *)
(* along the links comes to an end (get_next_cluster and the loops that    *)
(* call it), as long as no read fails and no late write brings other bytes. *)
THEOREM WalksEndHolds == Spec => []WalksEnd
  <1>1. Inv => WalksEnd
    <2> SUFFICES ASSUME IInv, NEW c \in Cluster PROVE \E b \in Chain(c) : fat[b] \notin Cluster
      BY DEF WalksEnd, Inv
    <2>1. Chain(c) \in SUBSET Cluster /\ Chain(c) # {}
      BY ChainIn, ChainClosed
    <2>2. PICK b \in Chain(c) : fat[b] \notin Chain(c)
      BY <2>1 DEF IInv, Acyclic
    <2> QED BY <2>2, ChainClosed
  <1> QED BY <1>1, Inductive, PTL

-----------------------------------------------------------------------------
(* The disk in order.  An entry of a file or a directory: ...              *)
IsEntry(e) == e.kind \in {"file", "dir"}

(* ... those in the clusters D of the directories, of which the clusters U *)
(* are still to be written.                                                *)
Ent(D, U) == {p \in D \X (1 .. Slots) : p[1] \notin U /\ IsEntry(At(p))}

Linked(c)   == \E e \in Cluster : fat[e] = c
Named(D, U, c) == \E p \in Ent(D, U) : At(p).first = c

(* Links lead from directories to directories and from files to files, and *)
(* no cluster is both linked and named, linked twice or named twice.       *)
Apart(D, U) ==
  /\ Root \in D /\ ~Linked(Root) /\ ~Named(D, U, Root)
  /\ \A c \in Cluster : fat[c] \in Cluster =>
       (fat[c] \in D <=> c \in D) /\ \A e \in Cluster : fat[e] = fat[c] => e = c
  /\ \A p \in Ent(D, U) :
       /\ At(p).first \in D <=> At(p).kind = "dir"
       /\ ~Linked(At(p).first)
       /\ \A q \in Ent(D, U) : At(q).first = At(p).first => q = p

(* What is linked or named is taken.                                       *)
LinksTaken(x) == \A c \in Cluster : fat[c] \in Cluster => fat[c] = x \/ fat[fat[c]] # FREE
NamesTaken(D, U, x) == \A p \in Ent(D, U) : At(p).first = x \/ fat[At(p).first] # FREE
DirsTaken(D, x) == \A c \in D : c = x \/ fat[c] # FREE

(* What is taken is linked or named.                                       *)
Held(D, U, x) ==
  \A c \in Cluster : fat[c] # FREE => c \in {Root, x} \/ Linked(c) \/ Named(D, U, c)

(* The links and the names lead away from the root.                        *)
Ranked(D, U) ==
  \E r \in [Cluster -> Nat] :
    /\ \A c \in Cluster : fat[c] \in Cluster => r[c] < r[fat[c]]
    /\ \A p \in Ent(D, U) : r[p[1]] < r[At(p).first]

(* Nothing comes after the end of a directory.                             *)
Shown(D, U) ==
  \A c \in D \ U, i \in 1 .. Slots : data[c][i] = End =>
    fat[c] \notin Cluster /\ \A k \in i + 1 .. Slots : ~IsEntry(data[c][k])

Full(D, U, x) ==
  /\ Apart(D, U) /\ LinksTaken(x) /\ NamesTaken(D, U, x) /\ DirsTaken(D, x)
  /\ Held(D, U, FREE) /\ Ranked(D, U) /\ Shown(D, U)

(* A cluster that nothing uses yet, a slot that an entry may be put in, and *)
(* the job an operation still has for the cluster a directory grew by.     *)
Fresh(D, c) == c \in Cluster \ D /\ fat[c] = FREE
Open(p)     == ~IsEntry(At(p)) /\ \A i \in 1 .. p[2] - 1 : data[p[1]][i] # End
Later(j, c) == /\ j.c = c /\ target = <<c, 1>>
               /\ (j.do = "newfile" /\ j.e.kind = "file") \/ (j.do = "newfolder" /\ j.i = 1)

LEMMA EntType ==
  ASSUME TypeOK, NEW D \in SUBSET Cluster, NEW U, NEW p \in Ent(D, U)
  PROVE  /\ p \in Place /\ p[1] \in D \ U /\ p[2] \in 1 .. Slots /\ p = <<p[1], p[2]>>
         /\ At(p) \in Slot /\ At(p).first \in Cluster /\ IsEntry(At(p))
  <1>1. p \in D \X (1 .. Slots) /\ p[1] \notin U /\ IsEntry(At(p))
    BY DEF Ent
  <1>2. p \in Place /\ p[1] \in D /\ p[2] \in 1 .. Slots /\ p = <<p[1], p[2]>>
    BY <1>1 DEF Place
  <1>3. At(p) \in Slot
    BY <1>2, PlaceTypes
  <1>4. At(p).first \in Cluster
    BY <1>1, <1>3, SlotTypes DEF IsEntry
  <1> QED BY <1>1, <1>2, <1>3, <1>4

(* A free cluster that is linked or named gets its end mark.               *)
LEMMA MarkTidy ==
  ASSUME TypeOK, NEW D \in SUBSET Cluster, NEW U, NEW c \in Cluster, Full(D, U, c),
         fat[c] = FREE, Linked(c) \/ Named(D, U, c),
         fat' = [fat EXCEPT ![c] = EOF], data' = data
  PROVE  Full(D, U, FREE)'
  <1>1. Ent(D, U)' = Ent(D, U) /\ \A p : At(p)' = At(p)
    BY DEF Ent, At
  <1>2. /\ fat'[c] = EOF /\ \A e \in Cluster \ {c} : fat'[e] = fat[e]
        /\ FREE \notin Cluster /\ EOF \notin Cluster /\ EOF # FREE
    BY Bounds DEF TypeOK
  <1>3. \A e, y \in Cluster : fat'[e] = y <=> fat[e] = y
    BY <1>2
  <1>4. \A y \in Cluster : (Linked(y)' <=> Linked(y)) /\ (Named(D, U, y)' <=> Named(D, U, y))
    BY <1>1, <1>3 DEF Linked, Named
  <1>5. \A p \in Ent(D, U) : At(p).first \in Cluster
    BY EntType
  <1>6. Apart(D, U)'
    <2>1. Root \in D /\ ~Linked(Root)' /\ ~Named(D, U, Root)'
      BY <1>4, Bounds DEF Full, Apart
    <2>2. ASSUME NEW e \in Cluster, fat'[e] \in Cluster
          PROVE  (fat'[e] \in D <=> e \in D) /\ \A f \in Cluster : fat'[f] = fat'[e] => f = e
      BY <1>3, <2>2 DEF Full, Apart
    <2>3. ASSUME NEW p \in Ent(D, U)
          PROVE  /\ At(p).first \in D <=> At(p).kind = "dir"
                 /\ ~Linked(At(p).first)'
                 /\ \A q \in Ent(D, U) : At(q).first = At(p).first => q = p
      BY <1>1, <1>4, <1>5 DEF Full, Apart
    <2> QED BY <1>1, <2>1, <2>2, <2>3 DEF Apart
  <1>7. LinksTaken(FREE)' /\ NamesTaken(D, U, FREE)' /\ DirsTaken(D, FREE)'
    BY <1>1, <1>2, <1>3, <1>5 DEF Full, LinksTaken, NamesTaken, DirsTaken
  <1>8. Held(D, U, FREE)'
    BY <1>2, <1>4 DEF Full, Held
  <1>9. Ranked(D, U)'
    BY <1>1, <1>3 DEF Full, Ranked
  <1>10. Shown(D, U)'
    BY <1>2 DEF Full, Shown
  <1> QED BY <1>6, <1>7, <1>8, <1>9, <1>10 DEF Full

(* Nothing links or names a fresh cluster.                                 *)
LEMMA FreshAlone ==
  ASSUME TypeOK, NEW D \in SUBSET Cluster, Full(D, {}, FREE), NEW c, Fresh(D, c)
  PROVE  /\ c \in Cluster /\ c \notin D /\ c # Root /\ fat[c] = FREE
         /\ ~Linked(c) /\ ~Named(D, {}, c)
         /\ \A e \in Cluster : fat[e] # c
         /\ \A p \in Ent(D, {}) : At(p).first # c
  <1>1. c \in Cluster /\ c \notin D /\ fat[c] = FREE /\ c # FREE
    BY Bounds DEF Fresh
  <1>2. \A e \in Cluster : fat[e] # c
    BY <1>1 DEF Full, LinksTaken
  <1>3. \A p \in Ent(D, {}) : At(p).first # c
    BY <1>1 DEF Full, NamesTaken
  <1> QED BY <1>1, <1>2, <1>3 DEF Linked, Named, Full, Apart

(* A directory gets a cluster, of which nothing has been written yet.      *)
LEMMA LinkTidy ==
  ASSUME TypeOK, NEW D \in SUBSET Cluster, Full(D, {}, FREE), NEW new, Fresh(D, new),
         NEW last \in D, fat[last] = EOF, \A i \in 1 .. Slots : data[last][i] # End,
         fat' = [fat EXCEPT ![last] = new], data' = data
  PROVE  Full(D \cup {new}, {new}, new)' /\ fat'[new] = FREE /\ Linked(new)'
  <1> DEFINE C == D \cup {new}
             E == Ent(D, {})
  <1>1. /\ new \in Cluster /\ new \notin D /\ new # Root /\ fat[new] = FREE
        /\ \A e \in Cluster : fat[e] # new
        /\ \A p \in E : At(p).first # new
    BY FreshAlone
  <1>2. Ent(C, {new})' = E /\ \A p : At(p)' = At(p)
    BY <1>1 DEF Ent, At
  <1>3. /\ last \in Cluster /\ fat'[last] = new /\ \A e \in Cluster \ {last} : fat'[e] = fat[e]
        /\ FREE \notin Cluster /\ EOF \notin Cluster /\ EOF # FREE
    BY Bounds DEF TypeOK
  <1>4. \A e, y \in Cluster : fat'[e] = y <=> (fat[e] = y \/ (e = last /\ y = new))
    BY <1>1, <1>3
  <1>5. \A y \in Cluster : /\ Linked(y)' <=> (Linked(y) \/ y = new)
                           /\ Named(C, {new}, y)' <=> Named(D, {}, y)
    BY <1>2, <1>3, <1>4 DEF Linked, Named
  <1>6. \A p \in E : At(p).first \in Cluster /\ p[1] \in D
    BY EntType
  <1> HIDE DEF E
  <1>7. Apart(C, {new})'
    <2>1. Root \in C /\ ~Linked(Root)' /\ ~Named(C, {new}, Root)'
      BY <1>1, <1>5, Bounds DEF Full, Apart
    <2>2. ASSUME NEW e \in Cluster, fat'[e] \in Cluster
          PROVE  (fat'[e] \in C <=> e \in C) /\ \A f \in Cluster : fat'[f] = fat'[e] => f = e
      BY <1>1, <1>3, <1>4, <2>2 DEF Full, Apart
    <2>3. ASSUME NEW p \in E
          PROVE  /\ At(p).first \in C <=> At(p).kind = "dir"
                 /\ ~Linked(At(p).first)'
                 /\ \A q \in E : At(q).first = At(p).first => q = p
      BY <1>1, <1>2, <1>5, <1>6 DEF Full, Apart, E
    <2> QED BY <1>2, <2>1, <2>2, <2>3 DEF Apart
  <1>8. LinksTaken(new)' /\ NamesTaken(C, {new}, new)' /\ DirsTaken(C, new)'
    <2>1. LinksTaken(new)'
      BY <1>1, <1>3, <1>4 DEF Full, LinksTaken
    <2>2. NamesTaken(C, {new}, new)'
      BY <1>1, <1>2, <1>3, <1>6 DEF Full, NamesTaken, E
    <2>3. DirsTaken(C, new)'
      BY <1>1, <1>3 DEF Full, DirsTaken
    <2> QED BY <2>1, <2>2, <2>3
  <1>9. Held(C, {new}, FREE)'
    BY <1>3, <1>5 DEF Full, Held
  <1>10. Ranked(C, {new})'
    <2>1. PICK r \in [Cluster -> Nat] :
            /\ \A c \in Cluster : fat[c] \in Cluster => r[c] < r[fat[c]]
            /\ \A p \in E : r[p[1]] < r[At(p).first]
      BY DEF Full, Ranked, E
    <2> DEFINE s == [r EXCEPT ![new] = r[last] + 1]
    <2>2. /\ s \in [Cluster -> Nat] /\ s[new] = r[last] + 1 /\ r[last] \in Nat
          /\ \A c \in Cluster \ {new} : s[c] = r[c]
      BY <1>1, <1>3, <2>1
    <2> HIDE DEF s
    <2>3. \A c \in Cluster : fat'[c] \in Cluster => s[c] < s[fat'[c]]
      BY <1>1, <1>3, <2>1, <2>2
    <2>4. \A p \in E : s[p[1]] < s[At(p).first]
      BY <1>1, <1>6, <2>1, <2>2
    <2> QED BY <1>2, <2>2, <2>3, <2>4 DEF Ranked
  <1>11. Shown(C, {new})'
    BY <1>1, <1>3 DEF Full, Shown
  <1> QED BY <1>1, <1>3, <1>5, <1>7, <1>8, <1>9, <1>10, <1>11 DEF Full

(* A sector of a directory gets an entry for a fresh cluster, and loses    *)
(* nothing.                                                                *)
Adds(k, i, b, c) ==
  /\ ~IsEntry(data[k][i]) /\ IsEntry(b[i]) /\ b[i].first = c
  /\ \A m \in 1 .. Slots \ {i} : IsEntry(b[m]) \/ IsEntry(data[k][m]) => b[m] = data[k][m]
  /\ \A m \in 1 .. Slots : b[m] = End => data[k][m] = End
  /\ \A m \in 1 .. i - 1 : b[m] # End

LEMMA AddTidy ==
  ASSUME TypeOK, NEW D \in SUBSET Cluster, Full(D, {}, FREE), NEW c, Fresh(D, c),
         NEW k \in D, NEW i \in 1 .. Slots, NEW b \in Block, Adds(k, i, b, c),
         fat' = fat, data' = [data EXCEPT ![k] = b]
  PROVE  /\ b[i].kind = "file" => Full(D, {}, c)'
         /\ b[i].kind = "dir" => Full(D \cup {c}, {c}, c)' /\ Named(D \cup {c}, {c}, c)'
         /\ <<k, i>> \in Ent(D, {})' /\ At(<<k, i>>)' = b[i]
         /\ \A p \in Ent(D, {}) : p \in Ent(D, {})' /\ At(p)' = At(p)
  <1> DEFINE C == D \cup {c}
             E == Ent(D, {})
             n == <<k, i>>
  <1>1. /\ c \in Cluster /\ c \notin D /\ c # Root /\ fat[c] = FREE
        /\ \A e \in Cluster : fat[e] # c
        /\ \A p \in E : At(p).first # c
    BY FreshAlone
  <1>2. /\ k \in Cluster /\ data'[k] = b /\ \A e \in Cluster \ {k} : data'[e] = data[e]
    BY DEF TypeOK
  <1>3. \A p \in E : p[1] \in D /\ p[2] \in 1 .. Slots /\ p = <<p[1], p[2]>> /\ At(p).first \in Cluster
    BY EntType
  <1>4. n \notin E /\ At(n)' = b[i]
    BY <1>2 DEF Adds, Ent, At
  <1>5. \A p \in E : At(p)' = At(p)
    <2> SUFFICES ASSUME NEW p \in E PROVE At(p)' = At(p)
      OBVIOUS
    <2>1. CASE p[1] # k
      BY <1>2, <1>3, <2>1 DEF At
    <2>2. CASE p[1] = k
      <3>1. p[2] # i /\ IsEntry(data[k][p[2]])
        BY <1>3, <1>4, <2>2 DEF Ent, At
      <3> QED BY <1>2, <1>3, <2>2, <3>1 DEF Adds, At
    <2> QED BY <2>1, <2>2
  <1>6. Ent(D, {})' = E \cup {n}
    <2>1. \A p \in E : p \in Ent(D, {})'
      BY <1>5 DEF Ent
    <2>2. n \in Ent(D, {})'
      BY <1>4 DEF Adds, Ent
    <2>3. ASSUME NEW p \in Ent(D, {})', p # n PROVE p \in E
      <3>1. p[1] \in D /\ p[2] \in 1 .. Slots /\ p = <<p[1], p[2]>> /\ IsEntry(At(p)')
        BY DEF Ent
      <3>2. CASE p[1] # k
        BY <1>2, <3>1, <3>2 DEF Ent, At
      <3>3. CASE p[1] = k
        <4>1. p[2] # i /\ IsEntry(b[p[2]])
          BY <1>2, <2>3, <3>1, <3>3 DEF At
        <4>2. data[k][p[2]] = b[p[2]]
          BY <3>1, <4>1 DEF Adds
        <4> QED BY <3>1, <3>3, <4>1, <4>2 DEF Ent, At
      <3> QED BY <3>2, <3>3
    <2> QED BY <2>1, <2>2, <2>3
  <1>7. Ent(C, {c})' = E \cup {n}
    <2>1. Ent(C, {c})' = Ent(D, {})'
      BY <1>1 DEF Ent
    <2> QED BY <1>6, <2>1
  <1>8. \A y : /\ Linked(y)' <=> Linked(y)
               /\ Named(D, {}, y)' <=> (Named(D, {}, y) \/ y = c)
               /\ Named(C, {c}, y)' <=> (Named(D, {}, y) \/ y = c)
    <2>1. At(n)'.first = c
      BY <1>4 DEF Adds
    <2> QED BY <1>5, <1>6, <1>7, <2>1 DEF Linked, Named
  <1>9. ~Linked(c) /\ ~Linked(Root) /\ ~Named(D, {}, Root) /\ Root \in D /\ At(n)'.first = c
        /\ b[i].kind \in {"file", "dir"}
    BY <1>1, <1>4 DEF Linked, Full, Apart, Adds, IsEntry
  <1>10. /\ \A e \in Cluster : fat[e] \in Cluster =>
              (fat[e] \in D <=> e \in D) /\ \A f \in Cluster : fat[f] = fat[e] => f = e
         /\ \A p \in E : /\ At(p).first \in D <=> At(p).kind = "dir"
                         /\ ~Linked(At(p).first)
                         /\ \A q \in E : At(q).first = At(p).first => q = p
    BY DEF Full, Apart
  <1> HIDE DEF E, n
  <1>11. ASSUME NEW p \in E \cup {n}
         PROVE  /\ b[i].kind = "file" => (At(p)'.first \in D <=> At(p)'.kind = "dir")
                /\ b[i].kind = "dir" => (At(p)'.first \in C <=> At(p)'.kind = "dir")
                /\ ~Linked(At(p)'.first)
                /\ \A q \in E \cup {n} : At(q)'.first = At(p)'.first => q = p
    <2>1. CASE p \in E
      BY <1>1, <1>3, <1>4, <1>5, <1>9, <1>10, <2>1
    <2>2. CASE p = n
      BY <1>1, <1>4, <1>5, <1>9, <2>2
    <2> QED BY <2>1, <2>2
  <1>12. b[i].kind = "file" => Apart(D, {})'
    BY <1>1, <1>6, <1>8, <1>9, <1>10, <1>11 DEF Apart
  <1>13. b[i].kind = "dir" => Apart(C, {c})'
    <2>1. \A e \in Cluster : fat[e] \in Cluster =>
            (fat[e] \in C <=> e \in C) /\ \A f \in Cluster : fat[f] = fat[e] => f = e
      BY <1>1, <1>10, Bounds
    <2>2. Root \in C /\ ~Linked(Root)' /\ ~Named(C, {c}, Root)'
      BY <1>1, <1>8, <1>9
    <2>3. b[i].kind = "dir" => \A p \in Ent(C, {c})' :
            /\ At(p)'.first \in C <=> At(p)'.kind = "dir"
            /\ ~Linked(At(p).first)'
            /\ \A q \in Ent(C, {c})' : At(q)'.first = At(p)'.first => q = p
      BY <1>7, <1>8, <1>11
    <2> HIDE DEF C
    <2> QED BY <2>1, <2>2, <2>3 DEF Apart
  <1>14. LinksTaken(c)' /\ DirsTaken(D, c)' /\ DirsTaken(C, c)'
    <2>1. LinksTaken(c)'
      BY <1>1, Bounds DEF Full, LinksTaken
    <2>2. DirsTaken(D, c)' /\ DirsTaken(C, c)'
      BY Bounds DEF Full, DirsTaken
    <2> QED BY <2>1, <2>2
  <1>15. NamesTaken(D, {}, c)' /\ NamesTaken(C, {c}, c)'
    <2>1. \A p \in E \cup {n} : At(p)'.first = c \/ fat[At(p)'.first] # FREE
      BY <1>3, <1>5, <1>9, Bounds DEF Full, NamesTaken, E
    <2> QED BY <1>6, <1>7, <2>1 DEF NamesTaken
  <1>16. Held(D, {}, FREE)' /\ Held(C, {c}, FREE)'
    BY <1>8 DEF Full, Held
  <1>17. Ranked(D, {})' /\ Ranked(C, {c})'
    <2>1. PICK r \in [Cluster -> Nat] :
            /\ \A e \in Cluster : fat[e] \in Cluster => r[e] < r[fat[e]]
            /\ \A p \in E : r[p[1]] < r[At(p).first]
      BY DEF Full, Ranked, E
    <2> DEFINE s == [r EXCEPT ![c] = r[k] + 1]
    <2>2. /\ s \in [Cluster -> Nat] /\ s[c] = r[k] + 1 /\ r[k] \in Nat
          /\ \A e \in Cluster \ {c} : s[e] = r[e]
      BY <1>1, <1>2, <2>1
    <2> HIDE DEF s
    <2>3. \A e \in Cluster : fat[e] \in Cluster => s[e] < s[fat[e]]
      BY <1>1, <2>1, <2>2, Bounds
    <2>4. \A p \in E \cup {n} : s[p[1]] < s[At(p)'.first]
      <3>1. \A p \in E : s[p[1]] < s[At(p)'.first]
        BY <1>1, <1>3, <1>5, <2>1, <2>2
      <3>2. s[n[1]] < s[At(n)'.first]
        BY <1>1, <1>2, <1>9, <2>2 DEF n
      <3> QED BY <3>1, <3>2
    <2> QED BY <1>6, <1>7, <2>2, <2>3, <2>4 DEF Ranked
  <1>18. Shown(D, {})' /\ Shown(C, {c})'
    <2>1. ASSUME NEW e \in D, NEW m \in 1 .. Slots, data'[e][m] = End
          PROVE  fat[e] \notin Cluster /\ \A l \in m + 1 .. Slots : ~IsEntry(data'[e][l])
      <3>1. CASE e # k
        BY <1>2, <2>1, <3>1 DEF Full, Shown
      <3>2. CASE e = k
        <4>1. data[k][m] = End /\ m > i
          <5>1. b[m] = End
            BY <1>2, <2>1, <3>2
          <5>2. ~IsEntry(End)
            BY DEF IsEntry, End, Entry
          <5> QED BY <5>1, <5>2 DEF Adds
        <4>2. fat[k] \notin Cluster /\ \A l \in m + 1 .. Slots : ~IsEntry(data[k][l])
          BY <4>1 DEF Full, Shown
        <4>3. \A l \in m + 1 .. Slots : l \in 1 .. Slots \ {i}
          BY <4>1
        <4> QED BY <1>2, <3>2, <4>2, <4>3 DEF Adds
      <3> QED BY <3>1, <3>2
    <2>2. C \ {c} \subseteq D
      OBVIOUS
    <2> QED BY <2>1, <2>2 DEF Shown
  <1>19. n \in Ent(D, {})' /\ \A p \in E : p \in Ent(D, {})'
    BY <1>6
  <1>20. Named(C, {c}, c)'
    BY <1>8
  <1> QED
    BY <1>4, <1>5, <1>12, <1>13, <1>14, <1>15, <1>16, <1>17, <1>18, <1>19, <1>20 DEF Full, E, n

(* A directory's new cluster is cleared.                                   *)
LEMMA ClearTidy ==
  ASSUME TypeOK, NEW D \in SUBSET Cluster, NEW c \in D, Full(D, {c}, FREE), fat[c] = EOF,
         NEW b \in Block, \A i \in 1 .. Slots : ~IsEntry(b[i]),
         fat' = fat, data' = [data EXCEPT ![c] = b]
  PROVE  Full(D, {}, FREE)' /\ data'[c] = b
  <1>1. data'[c] = b /\ \A e \in Cluster \ {c} : data'[e] = data[e]
    BY DEF TypeOK
  <1>2. Ent(D, {})' = Ent(D, {c}) /\ \A p \in Ent(D, {c}) : At(p)' = At(p)
    <2>1. \A p \in D \X (1 .. Slots) : p[1] # c => At(p)' = At(p)
      BY <1>1 DEF At
    <2>2. \A p \in D \X (1 .. Slots) : p[1] = c => ~IsEntry(At(p)')
      BY <1>1 DEF At
    <2> QED BY <2>1, <2>2 DEF Ent
  <1>3. \A y : (Linked(y)' <=> Linked(y)) /\ (Named(D, {}, y)' <=> Named(D, {c}, y))
    BY <1>2 DEF Linked, Named
  <1>4. Apart(D, {})'
    <2>1. Root \in D /\ ~Linked(Root)' /\ ~Named(D, {}, Root)'
      BY <1>3 DEF Full, Apart
    <2>2. ASSUME NEW e \in Cluster, fat'[e] \in Cluster
          PROVE  (fat'[e] \in D <=> e \in D) /\ \A f \in Cluster : fat'[f] = fat'[e] => f = e
      BY <2>2 DEF Full, Apart
    <2>3. ASSUME NEW p \in Ent(D, {c})
          PROVE  /\ At(p).first \in D <=> At(p).kind = "dir"
                 /\ ~Linked(At(p).first)
                 /\ \A q \in Ent(D, {c}) : At(q).first = At(p).first => q = p
      BY DEF Full, Apart
    <2>4. \A p \in Ent(D, {})' : /\ At(p)'.first \in D <=> At(p)'.kind = "dir"
                                 /\ ~Linked(At(p).first)'
                                 /\ \A q \in Ent(D, {})' : At(q)'.first = At(p)'.first => q = p
      <3> DEFINE E == Ent(D, {c})
      <3>1. Ent(D, {})' = E /\ \A p \in E : At(p)' = At(p) /\ (~Linked(At(p).first) => ~Linked(At(p).first)')
        BY <1>2, <1>3
      <3>2. \A p \in E : /\ At(p).first \in D <=> At(p).kind = "dir"
                         /\ ~Linked(At(p).first)
                         /\ \A q \in E : At(q).first = At(p).first => q = p
        BY <2>3
      <3> HIDE DEF E
      <3> QED BY <3>1, <3>2
    <2> QED BY <2>1, <2>2, <2>4 DEF Apart
  <1>5. LinksTaken(FREE)' /\ NamesTaken(D, {}, FREE)' /\ DirsTaken(D, FREE)' /\ Held(D, {}, FREE)'
    BY <1>2, <1>3 DEF Full, LinksTaken, NamesTaken, DirsTaken, Held
  <1>6. Ranked(D, {})'
    BY <1>2 DEF Full, Ranked
  <1>7. Shown(D, {})'
    <2>1. EOF \notin Cluster
      BY Bounds
    <2> QED BY <1>1, <2>1 DEF Full, Shown
  <1> QED BY <1>1, <1>4, <1>5, <1>6, <1>7 DEF Full

(* The chain of a file keeps out of the directories, and no two meet.      *)
LEMMA ChainLeast ==
  ASSUME NEW c, NEW S \in SUBSET Cluster, c \in S, \A x \in S : fat[x] \in Cluster => fat[x] \in S
  PROVE  Chain(c) \subseteq S
  BY DEF Chain

LEMMA ChainSide ==
  ASSUME NEW D \in SUBSET Cluster, NEW U, Apart(D, U), NEW c \in Cluster
  PROVE  /\ c \in D => Chain(c) \subseteq D
         /\ c \notin D => Chain(c) \cap D = {}
  <1>1. ASSUME NEW x \in Cluster, fat[x] \in Cluster PROVE fat[x] \in D <=> x \in D
    BY <1>1 DEF Apart
  <1>2. CASE c \in D
    BY <1>1, <1>2, ChainLeast
  <1>3. CASE c \notin D
    <2>1. Chain(c) \subseteq Cluster \ D
      BY <1>1, <1>3, ChainLeast
    <2> QED BY <1>3, <2>1
  <1> QED BY <1>2, <1>3

LEMMA ChainAvoids ==
  ASSUME NEW c \in Cluster, NEW x, ~Linked(x), x # c
  PROVE  x \notin Chain(c)
  <1>1. \A y \in Cluster : fat[y] # x
    BY DEF Linked
  <1>2. Chain(c) \subseteq Cluster \ {x}
    BY <1>1, ChainLeast
  <1> QED BY <1>2

LEMMA ChainsApart ==
  ASSUME NEW D, NEW U, Apart(D, U), NEW a \in Cluster, NEW b \in Cluster, a # b,
         ~Linked(a), ~Linked(b)
  PROVE  Chain(a) \cap Chain(b) = {}
  <1>1. b \notin Chain(a)
    BY ChainAvoids
  <1>2. ASSUME NEW y \in Cluster \ Chain(a), fat[y] \in Cluster PROVE fat[y] \notin Chain(a)
    <2> DEFINE S == Chain(a) \ {fat[y]}
    <2> SUFFICES ASSUME fat[y] \in Chain(a) PROVE FALSE
      OBVIOUS
    <2>1. a \in S /\ S \subseteq Cluster
      BY ChainIn, ChainClosed DEF Linked
    <2>2. ASSUME NEW z \in S, fat[z] \in Cluster PROVE fat[z] \in S
      <3>1. fat[z] \in Chain(a) /\ z \in Cluster
        BY <2>1, <2>2, ChainClosed
      <3>2. fat[z] # fat[y]
        BY <1>2, <2>2, <3>1 DEF Apart
      <3> QED BY <3>1, <3>2
    <2>3. Chain(a) \subseteq S
      BY <2>1, <2>2, ChainLeast
    <2> QED BY <2>3
  <1>3. Chain(b) \subseteq Cluster \ Chain(a)
    BY <1>1, <1>2, ChainLeast
  <1> QED BY <1>3

(* While p is removed: the clusters after x are left to be freed.          *)
Freeing(D, p, x) ==
  /\ target = p /\ p \in Ent(D, {})
  /\ Apart(D, {}) /\ LinksTaken(FREE) /\ NamesTaken(D, {}, At(p).first) /\ fat[Root] # FREE
  /\ Held(D, {}, x) /\ Ranked(D, {}) /\ Shown(D, {})
  /\ \A q \in Ent(D, {}) : fat[q[1]] # FREE

(* The next of them: nothing else leads to it, and no entry is left in or  *)
(* behind it.                                                              *)
Loose(D, p, x) ==
  /\ x # Root /\ fat[x] # FREE /\ ~Linked(x)
  /\ x = At(p).first \/ fat[At(p).first] = FREE
  /\ \A q \in Ent(D, {}) : At(q).first = x => q = p
  /\ \E R \in SUBSET Cluster :
       /\ x \in R /\ \A c \in R : fat[c] \in Cluster => fat[c] \in R
       /\ \A q \in Ent(D, {}) : q[1] \notin R

LEMMA FreeTidy ==
  ASSUME TypeOK, NEW D \in SUBSET Cluster, NEW p, NEW x \in Cluster, Freeing(D, p, x), Loose(D, p, x),
         NEW y, y = fat[x], fat' = [fat EXCEPT ![x] = FREE], data' = data, target' = target
  PROVE  /\ y \in Cluster => Freeing(D, p, y)' /\ Loose(D, p, y)'
         /\ y \notin Cluster => Freeing(D, p, FREE)' /\ fat'[At(p)'.first] = FREE
  <1> DEFINE E == Ent(D, {})
  <1>1. Ent(D, {})' = E /\ \A q : At(q)' = At(q)
    BY DEF Ent, At
  <1>2. /\ fat'[x] = FREE /\ \A c \in Cluster \ {x} : fat'[c] = fat[c]
        /\ FREE \notin Cluster /\ EOF \notin Cluster /\ EOF # FREE
    BY Bounds DEF TypeOK
  <1>3. \A q \in E : At(q).first \in Cluster /\ q[1] \in D /\ q[1] \in Cluster
    BY EntType
  <1>4. \A c \in Cluster : fat[c] # x
    BY DEF Loose, Linked
  <1>5. \A c, z \in Cluster : fat'[c] = z <=> (fat[c] = z /\ c # x)
    BY <1>2
  <1>6. /\ Apart(D, {}) /\ LinksTaken(FREE) /\ NamesTaken(D, {}, At(p).first) /\ fat[Root] # FREE
        /\ Held(D, {}, x) /\ Ranked(D, {}) /\ Shown(D, {}) /\ p \in E
        /\ \A q \in E : fat[q[1]] # FREE
    BY DEF Freeing
  <1>7. PICK R \in SUBSET Cluster :
          /\ x \in R /\ \A c \in R : fat[c] \in Cluster => fat[c] \in R
          /\ \A q \in E : q[1] \notin R
    BY DEF Loose
  <1>8. /\ x # Root /\ fat[x] # FREE /\ (x = At(p).first \/ fat[At(p).first] = FREE)
        /\ \A q \in E : At(q).first = x => q = p
    BY DEF Loose
  <1> HIDE DEF E
  <1>9. \A z \in Cluster : (Linked(z)' => Linked(z)) /\ (Linked(z) => Linked(z)' \/ y = z)
    BY <1>5 DEF Linked
  <1>10. Apart(D, {})'
    <2>1. Root \in D /\ ~Linked(Root)' /\ ~Named(D, {}, Root)'
      BY <1>1, <1>6, <1>9, Bounds DEF Apart, Named, E
    <2>2. ASSUME NEW e \in Cluster, fat'[e] \in Cluster
          PROVE  (fat'[e] \in D <=> e \in D) /\ \A f \in Cluster : fat'[f] = fat'[e] => f = e
      BY <1>2, <1>5, <1>6, <2>2 DEF Apart
    <2>3. ASSUME NEW q \in E
          PROVE  /\ At(q).first \in D <=> At(q).kind = "dir"
                 /\ ~Linked(At(q).first)'
                 /\ \A s \in E : At(s).first = At(q).first => s = q
      BY <1>1, <1>3, <1>6, <1>9 DEF Apart, E
    <2> QED BY <1>1, <2>1, <2>2, <2>3 DEF Apart
  <1>11. LinksTaken(FREE)'
    <2>1. ASSUME NEW c \in Cluster, fat'[c] \in Cluster PROVE fat'[fat'[c]] # FREE
      BY <1>2, <1>4, <1>6, <2>1 DEF LinksTaken
    <2> QED BY <2>1 DEF LinksTaken
  <1>12. NamesTaken(D, {}, At(p).first)' /\ fat'[Root] # FREE /\ \A q \in E : fat'[q[1]] # FREE
    BY <1>1, <1>2, <1>3, <1>6, <1>7, <1>8, Bounds DEF NamesTaken, E
  <1>13. Ranked(D, {})'
    BY <1>1, <1>5, <1>6 DEF Ranked, E
  <1>14. Shown(D, {})'
    BY <1>2, <1>6 DEF Shown
  <1>15. \A z : Named(D, {}, z)' <=> Named(D, {}, z)
    BY <1>1 DEF Named, E
  <1>16. CASE y \in Cluster
    <2>1. y # x /\ fat[y] # FREE /\ fat'[y] # FREE /\ Linked(y) /\ y # Root
      BY <1>2, <1>4, <1>6, <1>16, Bounds DEF LinksTaken, Linked, Apart
    <2>2. ~Linked(y)'
      BY <1>5, <1>6, <1>16 DEF Linked, Apart
    <2>3. \A q \in E : At(q).first # y
      BY <1>6, <2>1 DEF Apart, E
    <2>4. y \in R /\ \A c \in R : fat'[c] \in Cluster => fat'[c] \in R
      BY <1>5, <1>7, <1>16
    <2>5. fat'[At(p).first] = FREE
      BY <1>2, <1>3, <1>6, <1>8
    <2>6. ASSUME NEW c \in Cluster, fat'[c] # FREE
          PROVE  c \in {Root, y} \/ Linked(c)' \/ Named(D, {}, c)'
      BY <1>2, <1>6, <1>9, <1>15, <2>6 DEF Held
    <2>7. Held(D, {}, y)'
      BY <2>6 DEF Held
    <2>8. Loose(D, p, y)'
      BY <1>1, <1>7, <2>1, <2>2, <2>3, <2>4, <2>5 DEF Loose, E
    <2>9. Freeing(D, p, y)'
      BY <1>1, <1>6, <1>10, <1>11, <1>12, <1>13, <1>14, <2>7 DEF Freeing, E
    <2> QED BY <1>16, <2>8, <2>9
  <1>17. CASE y \notin Cluster
    <2>1. fat'[At(p).first] = FREE
      BY <1>2, <1>3, <1>6, <1>8
    <2>2. ASSUME NEW c \in Cluster, fat'[c] # FREE
          PROVE  c \in {Root, FREE} \/ Linked(c)' \/ Named(D, {}, c)'
      BY <1>2, <1>6, <1>9, <1>15, <1>17, <2>2 DEF Held
    <2>3. Held(D, {}, FREE)'
      BY <2>2 DEF Held
    <2>4. Freeing(D, p, FREE)'
      BY <1>1, <1>6, <1>10, <1>11, <1>12, <1>13, <1>14, <2>3 DEF Freeing, E
    <2> QED BY <1>1, <1>17, <2>1, <2>4
  <1> QED BY <1>16, <1>17

(* The entry goes last, and the clusters it freed are no directory's.      *)
LEMMA DropTidy ==
  ASSUME TypeOK, NEW D \in SUBSET Cluster, NEW p, Freeing(D, p, FREE), fat[At(p).first] = FREE,
         NEW C, C = {c \in D : fat[c] # FREE},
         fat' = fat, data' = [data EXCEPT ![p[1]][p[2]] = Gone]
  PROVE  Full(C, {}, FREE)'
  <1> DEFINE E == Ent(D, {})
  <1>1. /\ Apart(D, {}) /\ LinksTaken(FREE) /\ NamesTaken(D, {}, At(p).first) /\ fat[Root] # FREE
        /\ Held(D, {}, FREE) /\ Ranked(D, {}) /\ Shown(D, {}) /\ p \in E
        /\ \A q \in E : fat[q[1]] # FREE
    BY DEF Freeing
  <1>2. /\ \A q \in E : /\ At(q).first \in Cluster /\ q[1] \in D /\ q[2] \in 1 .. Slots
                        /\ q = <<q[1], q[2]>> /\ IsEntry(At(q))
        /\ FREE \notin Cluster /\ Root \in Cluster
    BY EntType, Bounds
  <1>3. /\ \A q \in D \X (1 .. Slots) : At(q)' = IF q = p THEN Gone ELSE At(q)
        /\ \A c \in Cluster, i \in 1 .. Slots :
             data'[c][i] = IF c = p[1] /\ i = p[2] THEN Gone ELSE data[c][i]
    <2>1. p[1] \in Cluster /\ p[2] \in 1 .. Slots /\ p = <<p[1], p[2]>>
      BY <1>1, <1>2
    <2>2. \A c \in Cluster, i \in 1 .. Slots :
            data'[c][i] = IF c = p[1] /\ i = p[2] THEN Gone ELSE data[c][i]
      BY <2>1 DEF TypeOK, Block
    <2> QED BY <2>1, <2>2 DEF At
  <1>4. ~IsEntry(Gone) /\ Gone # End
    BY DEF IsEntry, Gone, End, Entry
  <1>5. Ent(C, {})' = E \ {p} /\ \A q \in E \ {p} : At(q)' = At(q)
    <2>1. \A q \in E \ {p} : At(q)' = At(q) /\ q \in Ent(C, {})'
      BY <1>1, <1>2, <1>3 DEF Ent
    <2>2. ASSUME NEW q \in Ent(C, {})' PROVE q \in E \ {p}
      <3>1. q \in D \X (1 .. Slots) /\ IsEntry(At(q)')
        BY DEF Ent
      <3>2. q # p /\ At(q)' = At(q)
        BY <1>3, <1>4, <3>1
      <3> QED BY <3>1, <3>2 DEF Ent
    <2> QED BY <2>1, <2>2
  <1> HIDE DEF E
  <1>6. \A q \in E \ {p} : At(q).first # At(p).first /\ fat[At(q).first] # FREE
    BY <1>1, <1>2 DEF Apart, NamesTaken, E
  <1>7. \A y : Linked(y)' <=> Linked(y)
    BY DEF Linked
  <1>8. Apart(C, {})'
    <2>1. Root \in C /\ ~Linked(Root)' /\ ~Named(C, {}, Root)'
      BY <1>1, <1>5, <1>7 DEF Apart, Named, E
    <2>2. ASSUME NEW e \in Cluster, fat[e] \in Cluster
          PROVE  (fat[e] \in C <=> e \in C) /\ \A f \in Cluster : fat[f] = fat[e] => f = e
      BY <1>1, <1>2, <2>2 DEF Apart, LinksTaken
    <2>3. ASSUME NEW q \in E \ {p}
          PROVE  /\ At(q).first \in C <=> At(q).kind = "dir"
                 /\ ~Linked(At(q).first)
                 /\ \A s \in E \ {p} : At(s).first = At(q).first => s = q
      BY <1>1, <1>6 DEF Apart, E
    <2>4. \A q \in Ent(C, {})' :
            /\ At(q)'.first \in C <=> At(q)'.kind = "dir"
            /\ ~Linked(At(q).first)'
            /\ \A s \in Ent(C, {})' : At(s)'.first = At(q)'.first => s = q
      BY <1>5, <1>7, <2>3
    <2> QED BY <2>1, <2>2, <2>4 DEF Apart
  <1>9. LinksTaken(FREE)' /\ NamesTaken(C, {}, FREE)' /\ DirsTaken(C, FREE)'
    BY <1>1, <1>5, <1>6 DEF LinksTaken, NamesTaken, DirsTaken
  <1>10. Held(C, {}, FREE)'
    <2>1. ASSUME NEW c \in Cluster, fat[c] # FREE PROVE c \in {Root, FREE} \/ Linked(c) \/ Named(C, {}, c)'
      <3>1. CASE Named(D, {}, c)
        <4>1. PICK q \in E : At(q).first = c
          BY <3>1 DEF Named, E
        <4>2. q \in E \ {p}
          BY <2>1, <4>1
        <4> QED BY <1>5, <4>1, <4>2 DEF Named
      <3> QED BY <1>1, <2>1, <3>1 DEF Held
    <2> QED BY <1>7, <2>1 DEF Held
  <1>11. Ranked(C, {})'
    <2>1. PICK r \in [Cluster -> Nat] :
            /\ \A c \in Cluster : fat[c] \in Cluster => r[c] < r[fat[c]]
            /\ \A q \in E : r[q[1]] < r[At(q).first]
      BY <1>1 DEF Ranked, E
    <2> QED BY <1>5, <2>1 DEF Ranked
  <1>12. Shown(C, {})'
    <2>1. ASSUME NEW c \in C, NEW i \in 1 .. Slots, data'[c][i] = End
          PROVE  fat[c] \notin Cluster /\ \A k \in i + 1 .. Slots : ~IsEntry(data'[c][k])
      <3>1. data[c][i] = End
        BY <1>3, <1>4, <2>1
      <3>2. fat[c] \notin Cluster /\ \A k \in i + 1 .. Slots : ~IsEntry(data[c][k])
        BY <1>1, <3>1 DEF Shown
      <3> QED BY <1>3, <1>4, <3>2
    <2> QED BY <2>1 DEF Shown
  <1> QED BY <1>8, <1>9, <1>10, <1>11, <1>12 DEF Full

(* Nothing changes that this is about when a sector of no directory does.  *)
LEMMA TextTidy ==
  ASSUME TypeOK, NEW D \in SUBSET Cluster, Full(D, {}, FREE), NEW x \in Cluster \ D, NEW b,
         fat' = fat, data' = [data EXCEPT ![x] = b]
  PROVE  /\ Full(D, {}, FREE)' /\ Ent(D, {})' = Ent(D, {})
         /\ \A p \in Ent(D, {}) : At(p)' = At(p)
  <1>1. \A c \in D : data'[c] = data[c]
    BY DEF TypeOK
  <1>2. \A p \in D \X (1 .. Slots) : At(p)' = At(p)
    BY <1>1 DEF At
  <1>3. Ent(D, {})' = Ent(D, {}) /\ \A p \in Ent(D, {}) : At(p)' = At(p)
    BY <1>2 DEF Ent
  <1>4. \A y : (Linked(y)' <=> Linked(y)) /\ (Named(D, {}, y)' <=> Named(D, {}, y))
    BY <1>3 DEF Linked, Named
  <1>5. Apart(D, {})'
    <2>1. Root \in D /\ ~Linked(Root)' /\ ~Named(D, {}, Root)'
      BY <1>4 DEF Full, Apart
    <2> QED BY <1>3, <1>4, <2>1 DEF Full, Apart
  <1>6. LinksTaken(FREE)' /\ NamesTaken(D, {}, FREE)' /\ DirsTaken(D, FREE)' /\ Held(D, {}, FREE)'
    BY <1>3, <1>4 DEF Full, LinksTaken, NamesTaken, DirsTaken, Held
  <1>7. Ranked(D, {})'
    BY <1>3 DEF Full, Ranked
  <1>8. Shown(D, {})'
    BY <1>1 DEF Full, Shown
  <1> QED BY <1>3, <1>5, <1>6, <1>7, <1>8 DEF Full

(* An entry keeps what it is and where it leads.                           *)
LEMMA SizeTidy ==
  ASSUME TypeOK, NEW D \in SUBSET Cluster, Full(D, {}, FREE), NEW p \in Ent(D, {}), NEW e,
         e.kind = At(p).kind, e.first = At(p).first,
         NEW d, d = [data EXCEPT ![p[1]][p[2]] = e], fat' = fat, data' = d
  PROVE  Full(D, {}, FREE)' /\ \A q \in D \X (1 .. Slots) : q # p => At(q)' = At(q)
  <1> DEFINE E == Ent(D, {})
  <1>1. /\ p[1] \in Cluster /\ p[2] \in 1 .. Slots /\ p = <<p[1], p[2]>> /\ p \in D \X (1 .. Slots)
        /\ IsEntry(At(p)) /\ IsEntry(e) /\ ~IsEntry(End)
    BY EntType DEF Ent, IsEntry, End, Entry
  <1>2. \A c \in Cluster, i \in 1 .. Slots :
          data'[c][i] = IF c = p[1] /\ i = p[2] THEN e ELSE data[c][i]
    BY <1>1 DEF TypeOK, Block
  <1>3. \A q \in D \X (1 .. Slots) : At(q)' = IF q = p THEN e ELSE At(q)
    BY <1>1, <1>2 DEF At
  <1>4. \A q \in D \X (1 .. Slots) : /\ IsEntry(At(q))' <=> IsEntry(At(q))
                                     /\ At(q)'.kind = At(q).kind
                                     /\ At(q)'.first = At(q).first
    BY <1>1, <1>3 DEF IsEntry
  <1>5. Ent(D, {})' = E
    BY <1>4 DEF Ent
  <1>6. \A q \in E : q \in D \X (1 .. Slots) /\ At(q)'.kind = At(q).kind /\ At(q)'.first = At(q).first
    BY <1>4 DEF Ent
  <1> HIDE DEF E
  <1>7. \A y : (Linked(y)' <=> Linked(y)) /\ (Named(D, {}, y)' <=> Named(D, {}, y))
    BY <1>5, <1>6 DEF Linked, Named, E
  <1>8. Apart(D, {})'
    <2>1. Root \in D /\ ~Linked(Root)' /\ ~Named(D, {}, Root)'
      BY <1>7 DEF Full, Apart
    <2>2. \A q \in E : /\ At(q)'.first \in D <=> At(q)'.kind = "dir"
                       /\ ~Linked(At(q)'.first)
                       /\ \A s \in E : At(s)'.first = At(q)'.first => s = q
      BY <1>6 DEF Full, Apart, E
    <2>3. \A q \in Ent(D, {})' : /\ At(q)'.first \in D <=> At(q)'.kind = "dir"
                                 /\ ~Linked(At(q).first)'
                                 /\ \A s \in Ent(D, {})' : At(s)'.first = At(q)'.first => s = q
      BY <1>5, <1>7, <2>2
    <2> QED BY <2>1, <2>3 DEF Full, Apart
  <1>9. LinksTaken(FREE)' /\ NamesTaken(D, {}, FREE)' /\ DirsTaken(D, FREE)' /\ Held(D, {}, FREE)'
    BY <1>5, <1>6, <1>7 DEF Full, LinksTaken, NamesTaken, DirsTaken, Held, E
  <1>10. Ranked(D, {})'
    BY <1>5, <1>6 DEF Full, Ranked, E
  <1>11. Shown(D, {})'
    <2>1. ASSUME NEW c \in D, NEW i \in 1 .. Slots, data'[c][i] = End
          PROVE  fat[c] \notin Cluster /\ \A k \in i + 1 .. Slots : ~IsEntry(data'[c][k])
      <3>1. data[c][i] = End
        BY <1>1, <1>2, <2>1
      <3>2. fat[c] \notin Cluster /\ \A k \in i + 1 .. Slots : ~IsEntry(data[c][k])
        BY <3>1 DEF Full, Shown
      <3>3. ASSUME NEW k \in i + 1 .. Slots PROVE ~IsEntry(data'[c][k])
        <4>1. k \in 1 .. Slots
          OBVIOUS
        <4>2. <<c, k>> # p
          BY <1>1, <3>2 DEF At
        <4> QED BY <1>2, <3>2, <4>1, <4>2, <1>1
      <3> QED BY <3>2, <3>3
    <2> QED BY <2>1 DEF Shown
  <1> QED BY <1>3, <1>8, <1>9, <1>10, <1>11 DEF Full

(* What a listing shows is an entry of a sector that has been written.     *)
LEMMA ListedIn ==
  ASSUME TypeOK, NEW D \in SUBSET Cluster, NEW U, Apart(D, U), \A c \in U : Unwritten(c)
  PROVE  Folders \subseteq D /\ \A p \in Listed : p \in Ent(D, U) /\ ~Unwritten(p[1])
  <1>1. ASSUME NEW c \in D, NEW p \in Live(c) PROVE p \in Ent(D, U) /\ ~Unwritten(p[1])
    <2>1. p \in Places(c) /\ IsEntry(At(p)) /\ ~Unwritten(p[1])
      BY DEF Live, IsEntry
    <2>2. p \in D \X (1 .. Slots)
      BY <2>1, ChainSide DEF Places
    <2> QED BY <2>1, <2>2 DEF Ent
  <1>2. ASSUME NEW c \in D, NEW p \in Live(c), At(p).kind = "dir" PROVE At(p).first \in D
    BY <1>1, <1>2 DEF Apart
  <1>3. Folders \subseteq D
    <2> DEFINE in == [d \in Cluster |-> {At(p).first : p \in {q \in Live(d) : At(q).kind = "dir"}}]
    <2>1. Root \in D /\ \A x \in D : in[x] \subseteq D
      BY <1>2 DEF Apart
    <2>2. \A d \in Folders : (Root \in D /\ \A x \in D : in[x] \subseteq D) => d \in D
      BY DEF Folders
    <2> HIDE DEF in
    <2> QED BY <2>1, <2>2
  <1> QED BY <1>1, <1>3 DEF Listed

(* One owner for each cluster, as long as links and names keep apart.      *)
LEMMA ApartOwner ==
  ASSUME TypeOK, NEW D \in SUBSET Cluster, NEW U, Apart(D, U), \A c \in U : Unwritten(c)
  PROVE  OneOwner
  <1>1. \A p \in Listed : p \in Ent(D, U)
    BY ListedIn
  <1>2. \A p \in Ent(D, U) : At(p).first \in Cluster /\ ~Linked(At(p).first) /\ At(p).first # Root
    BY EntType DEF Apart, Named
  <1>3. Root \in Cluster /\ ~Linked(Root)
    BY Bounds DEF Apart
  <1>4. ASSUME NEW p \in Listed
        PROVE  /\ Chain(At(p).first) \cap Chain(Root) = {}
               /\ \A q \in Listed \ {p} : Chain(At(p).first) \cap Chain(At(q).first) = {}
    <2>1. Chain(At(p).first) \cap Chain(Root) = {}
      BY <1>1, <1>2, <1>3, ChainsApart
    <2>2. ASSUME NEW q \in Listed \ {p} PROVE Chain(At(p).first) \cap Chain(At(q).first) = {}
      <3>1. At(p).first # At(q).first
        BY <1>1 DEF Apart
      <3> QED BY <1>1, <1>2, <3>1, ChainsApart
    <2> QED BY <2>1, <2>2
  <1> QED BY <1>4 DEF OneOwner, Owners

(* A step that writes one sector or mark leaves the other files alone if   *)
(* that is a directory's, the target's, or nobody's.                       *)
Untouched ==
  \A p \in Listed \ {target, target'} : At(p).kind = "file" =>
    At(p)' = At(p) /\ \A c \in Chain(At(p).first) : data'[c] = data[c] /\ fat'[c] = fat[c]

LEMMA Aside ==
  ASSUME TypeOK, NEW D \in SUBSET Cluster, NEW U, Apart(D, U), \A c \in U : Unwritten(c),
         NEW k \in Cluster, \A c \in Cluster \ {k} : fat'[c] = fat[c] /\ data'[c] = data[c],
         \/ k \in D
         \/ ~Linked(k) /\ \A p \in Ent(D, U) \ {target} : At(p).first # k
         \/ target \in Ent(D, U) /\ k \in Chain(At(target).first),
         \/ UNCHANGED data
         \/ Unwritten(k)
         \/ \A p \in Ent(D, U) \ {target} : p[1] = k => At(p)' = At(p)
  PROVE  Untouched
  <1> SUFFICES ASSUME NEW p \in Listed, p # target, At(p).kind = "file"
               PROVE  /\ At(p)' = At(p)
                      /\ \A c \in Chain(At(p).first) : data'[c] = data[c] /\ fat'[c] = fat[c]
    BY DEF Untouched
  <1>1. p \in Ent(D, U) /\ ~Unwritten(p[1])
    BY ListedIn
  <1>2. p[1] \in Cluster /\ At(p).first \in Cluster /\ ~Linked(At(p).first) /\ At(p).first \notin D
    BY <1>1, EntType DEF Apart
  <1>3. At(p)' = At(p)
    BY <1>1, <1>2 DEF At
  <1>4. k \notin Chain(At(p).first)
    <2>1. CASE k \in D
      BY <1>2, <2>1, ChainSide
    <2>2. CASE ~Linked(k) /\ \A q \in Ent(D, U) \ {target} : At(q).first # k
      BY <1>1, <1>2, <2>2, ChainAvoids
    <2>3. CASE target \in Ent(D, U) /\ k \in Chain(At(target).first)
      <3>1. /\ At(target).first \in Cluster /\ ~Linked(At(target).first)
            /\ At(target).first # At(p).first
        BY <1>1, <2>3, EntType DEF Apart
      <3> QED BY <1>2, <2>3, <3>1, ChainsApart
    <2> QED BY <2>1, <2>2, <2>3
  <1>5. Chain(At(p).first) \subseteq Cluster
    BY ChainIn
  <1> QED BY <1>3, <1>4, <1>5

(* What a step does with its job, when nothing is lost.                    *)
LEMMA JobStep ==
  ASSUME Step(FALSE), NEW j, j = Head(todo)
  PROVE  /\ harm' = harm /\ todo # <<>>
         /\ j.do \in {"fat", "sector", "slot", "free", "text"}
         /\ j.do = "fat" => fat' = [fat EXCEPT ![j.c] = j.v] /\ data' = data /\ Rest
         /\ j.do = "sector" => fat' = fat /\ data' = [data EXCEPT ![j.c] = j.b] /\ Rest
         /\ j.do = "slot" => fat' = fat /\ data' = [data EXCEPT ![j.c][j.i] = j.e] /\ Rest
         /\ j.do = "free" => DoFree(j, FALSE)
         /\ j.do = "text" => DoText(j, FALSE)
  BY DEF Step, DoMark, DoSector, DoSlot, DoFree, DoText, Put, Hurt

(* The stages of the operations, D being the directories' clusters: none   *)
(* is under way; ...                                                       *)
Resting(D) == todo = <<>> /\ Full(D, {}, FREE)

(* ... the entry of a file or a directory is to be written at p, ...       *)
Making(D) ==
  \E p \in D \X (1 .. Slots), n \in Name, c \in Cluster :
    /\ todo = FileJobs(p, n, c) \/ todo = FolderJobs(p, n, c)
    /\ target = p /\ Open(p) /\ Fresh(D, c) /\ Full(D, {}, FREE)

(* ... the cluster of the new file is to be marked, ...                    *)
Marking(D) ==
  \E c \in Cluster :
    /\ todo = <<Mark(c, EOF)>> /\ fat[c] = FREE /\ Full(D, {}, c)
    /\ target \in Ent(D, {}) /\ At(target).first = c

(* ... or that of a directory, a new one or one that grows, ...            *)
Adding(D) ==
  \E c \in D :
    /\ \/ todo = <<Mark(c, EOF), Sector(c, Folder)>>
       \/ \E j \in Jobs : todo = <<Mark(c, EOF), Sector(c, Fill(End)), j>> /\ Later(j, c)
    /\ fat[c] = FREE /\ Full(D, {c}, c) /\ (Linked(c) \/ Named(D, {c}, c))

(* ... and to be cleared, ...                                              *)
Clearing(D) ==
  \E c \in D :
    /\ \/ todo = <<Sector(c, Folder)>>
       \/ \E j \in Jobs : todo = <<Sector(c, Fill(End)), j>> /\ Later(j, c)
    /\ fat[c] = EOF /\ Full(D, {c}, FREE)

(* ... a full directory is to get a cluster, ...                           *)
Growing(D) ==
  \E last \in D, new \in Cluster, j \in Jobs :
    /\ todo = Grow(last, new, j) /\ Later(j, new)
    /\ fat[last] = EOF /\ \A i \in 1 .. Slots : data[last][i] # End
    /\ Fresh(D, new) /\ Full(D, {}, FREE)

(* ... has got it, and the entry is to be made there, ...                  *)
Grown(D) ==
  \E new \in D, j \in Jobs :
    /\ todo = <<j>> /\ Later(j, new) /\ data[new] = Fill(End) /\ Full(D, {}, FREE)

(* ... in one sector with what the buffer held, ...                        *)
Placing(D) ==
  \E new \in D, c \in Cluster, b \in Block :
    /\ todo = <<Sector(new, b), Mark(c, EOF)>> /\ target = <<new, 1>>
    /\ b[1].kind = "file" /\ b[1].first = c /\ \A i \in 2 .. Slots : ~IsEntry(b[i])
    /\ data[new] = Fill(End) /\ Fresh(D, c) /\ Full(D, {}, FREE)

(* ... the chain of p is to be freed from x on, ...                        *)
Removing(D) ==
  \E p \in D \X (1 .. Slots), x \in Cluster :
    todo = <<FreeFrom(x), PutSlot(p, Gone)>> /\ Freeing(D, p, x) /\ Loose(D, p, x)

(* ... and p is to be deleted, ...                                         *)
Dropping(D) ==
  \E p \in D \X (1 .. Slots) :
    todo = <<PutSlot(p, Gone)>> /\ Freeing(D, p, FREE) /\ fat[At(p).first] = FREE

(* ... the text of a file is to be written from x on, ...                  *)
Sizing(D, j) == /\ j.do = "slot" /\ <<j.c, j.i>> = target /\ target \in Ent(D, {})
                /\ j.e.kind = At(target).kind /\ j.e.first = At(target).first
Writing(D) ==
  \E x \in Cluster, k \in Nat :
    /\ \/ todo = <<WriteText(x, k)>>
       \/ \E j \in Jobs : todo = <<WriteText(x, k), j>> /\ Sizing(D, j)
    /\ target \in Ent(D, {}) /\ At(target).kind = "file" /\ x \in Chain(At(target).first)
    /\ Full(D, {}, FREE)

(* ... and its size.                                                       *)
Resizing(D) == \E j \in Jobs : todo = <<j>> /\ Sizing(D, j) /\ Full(D, {}, FREE)

Stage(D) ==
  \/ Resting(D) \/ Making(D) \/ Marking(D) \/ Adding(D) \/ Clearing(D) \/ Growing(D) \/ Grown(D)
  \/ Placing(D) \/ Removing(D) \/ Dropping(D) \/ Writing(D) \/ Resizing(D)

Tidy == harm = "none" => \E D \in SUBSET Cluster : Stage(D)

(* The first of the jobs, and what is left after it.                       *)
LEMMA Seqs ==
  ASSUME NEW x, NEW y, NEW z
  PROVE  /\ todo = <<x>> => Head(todo) = x /\ (Rest => todo' = <<>>)
         /\ todo = <<x, y>> => Head(todo) = x /\ (Rest => todo' = <<y>> /\ target' = target)
         /\ todo = <<x, y, z>> => Head(todo) = x /\ (Rest => todo' = <<y, z>> /\ target' = target)
  <1>1. /\ Head(<<x>>) = x /\ Tail(<<x>>) = <<>> /\ Head(<<x, y>>) = x /\ Tail(<<x, y>>) = <<y>>
        /\ Head(<<x, y, z>>) = x /\ Tail(<<x, y, z>>) = <<y, z>> /\ <<y>> # <<>> /\ <<y, z>> # <<>>
    OBVIOUS
  <1> QED BY <1>1 DEF Rest, Quit

LEMMA MakingStep ==
  ASSUME TypeOK, NEW D \in SUBSET Cluster, Making(D), Step(FALSE)
  PROVE  (\E C \in SUBSET Cluster : Stage(C)') /\ Untouched
  <1>1. PICK p \in D \X (1 .. Slots), n \in Name, c \in Cluster :
          /\ todo = FileJobs(p, n, c) \/ todo = FolderJobs(p, n, c)
          /\ target = p /\ Open(p) /\ Fresh(D, c) /\ Full(D, {}, FREE)
    BY DEF Making
  <1>2. PICK kind \in {"file", "dir"} :
          /\ kind = "file" => todo = <<PutSlot(p, Entry(kind, n, c, 0)), Mark(c, EOF)>>
          /\ kind = "dir" =>
               todo = <<PutSlot(p, Entry(kind, n, c, 0)), Mark(c, EOF), Sector(c, Folder)>>
    BY <1>1 DEF FileJobs, FolderJobs
  <1> DEFINE e == Entry(kind, n, c, 0)
             j == PutSlot(p, e)
  <1>3. j.do = "slot" /\ j.c = p[1] /\ j.i = p[2] /\ j.e = e
    BY DEF PutSlot, Job
  <1>4. e \in Slot /\ IsEntry(e) /\ e.kind = kind /\ e.first = c
    BY SlotTypes DEF Entry, IsEntry
  <1> HIDE DEF j, e
  <1>5. Head(todo) = j
    BY <1>2, Seqs DEF j, e
  <1>6. fat' = fat /\ data' = [data EXCEPT ![p[1]][p[2]] = e] /\ Rest
    BY <1>3, <1>5, JobStep
  <1>7. /\ kind = "file" => todo' = <<Mark(c, EOF)>>
        /\ kind = "dir" => todo' = <<Mark(c, EOF), Sector(c, Folder)>>
        /\ target' = target
    BY <1>2, <1>6, Seqs
  <1>8. PICK k \in D, i \in 1 .. Slots : p = <<k, i>> /\ p[1] = k /\ p[2] = i /\ data[k] \in Block
    BY DEF TypeOK
  <1>9. PICK b \in Block : /\ data' = [data EXCEPT ![k] = b] /\ b[i] = e
                            /\ \A m \in 1 .. Slots : m # i => b[m] = data[k][m]
    <2> DEFINE b == [data[k] EXCEPT ![i] = e]
    <2>1. b \in Block /\ data' = [data EXCEPT ![k] = b] /\ b[i] = e
          /\ \A m \in 1 .. Slots : m # i => b[m] = data[k][m]
      BY <1>4, <1>6, <1>8 DEF Block, TypeOK
    <2> QED BY <2>1
  <1>10. Adds(k, i, b, c)
    <2>1. ~IsEntry(data[k][i]) /\ \A m \in 1 .. i - 1 : data[k][m] # End
      BY <1>1, <1>8 DEF Open, At
    <2>2. e # End
      BY <1>4 DEF IsEntry, End, Entry
    <2>3. \A m \in 1 .. i - 1 : m \in 1 .. Slots /\ m # i
      OBVIOUS
    <2> QED BY <1>4, <1>9, <2>1, <2>2, <2>3 DEF Adds
  <1>11. /\ kind = "file" => Full(D, {}, c)'
         /\ kind = "dir" => Full(D \cup {c}, {c}, c)' /\ Named(D \cup {c}, {c}, c)'
         /\ p \in Ent(D, {})' /\ At(p)' = e
         /\ \A q \in Ent(D, {}) : q \in Ent(D, {})' /\ At(q)' = At(q)
    <2>1. /\ b[i].kind = "file" => Full(D, {}, c)'
          /\ b[i].kind = "dir" => Full(D \cup {c}, {c}, c)' /\ Named(D \cup {c}, {c}, c)'
          /\ <<k, i>> \in Ent(D, {})' /\ At(<<k, i>>)' = b[i]
          /\ \A q \in Ent(D, {}) : q \in Ent(D, {})' /\ At(q)' = At(q)
      BY <1>1, <1>6, <1>9, <1>10, AddTidy
    <2> QED BY <1>4, <1>8, <1>9, <2>1
  <1>12. fat'[c] = FREE
    BY <1>1, <1>6 DEF Fresh
  <1>13. Untouched
    <2>1. Apart(D, {})
      BY <1>1 DEF Full
    <2>2. \A y \in Cluster \ {k} : fat'[y] = fat[y] /\ data'[y] = data[y]
      BY <1>6, <1>9 DEF TypeOK
    <2> QED BY <1>11, <2>1, <2>2, Aside
  <1>14. CASE kind = "file"
    <2>1. target' \in Ent(D, {})' /\ At(p)'.first = c /\ target' = p
      BY <1>1, <1>4, <1>7, <1>11
    <2>2. Marking(D)'
      BY <1>7, <1>11, <1>12, <1>14, <2>1 DEF Marking
    <2> QED BY <1>13, <2>2 DEF Stage
  <1>15. CASE kind = "dir"
    <2>1. Adding(D \cup {c})'
      BY <1>7, <1>11, <1>12, <1>15 DEF Adding
    <2>2. D \cup {c} \in SUBSET Cluster
      OBVIOUS
    <2> QED BY <1>13, <2>1, <2>2 DEF Stage
  <1> QED BY <1>14, <1>15

LEMMA MarkingStep ==
  ASSUME TypeOK, NEW D \in SUBSET Cluster, Marking(D), Step(FALSE)
  PROVE  (\E C \in SUBSET Cluster : Stage(C)') /\ Untouched
  <1>1. PICK c \in Cluster :
          /\ todo = <<Mark(c, EOF)>> /\ fat[c] = FREE /\ Full(D, {}, c)
          /\ target \in Ent(D, {}) /\ At(target).first = c
    BY DEF Marking
  <1> DEFINE j == Mark(c, EOF)
  <1>2. j.do = "fat" /\ j.c = c /\ j.v = EOF
    BY DEF Mark, Job
  <1> HIDE DEF j
  <1>3. Head(todo) = j
    BY <1>1, Seqs DEF j
  <1>4. fat' = [fat EXCEPT ![c] = EOF] /\ data' = data /\ Rest
    BY <1>2, <1>3, JobStep
  <1>5. todo' = <<>>
    BY <1>1, <1>4, Seqs
  <1>6. Named(D, {}, c)
    BY <1>1 DEF Named
  <1>7. Full(D, {}, FREE)'
    BY <1>1, <1>4, <1>6, MarkTidy
  <1>8. Resting(D)'
    BY <1>5, <1>7 DEF Resting
  <1>9. Untouched
    <2>1. Apart(D, {})
      BY <1>1 DEF Full
    <2>2. \A k \in Cluster \ {c} : fat'[k] = fat[k] /\ data'[k] = data[k]
      BY <1>4 DEF TypeOK
    <2>3. target \in Ent(D, {}) /\ c \in Chain(At(target).first)
      BY <1>1, ChainClosed
    <2>4. \A k \in {} : Unwritten(k)
      OBVIOUS
    <2>5. UNCHANGED data
      BY <1>4
    <2> QED BY <2>1, <2>2, <2>3, <2>4, <2>5, Aside
  <1> QED BY <1>8, <1>9 DEF Stage

LEMMA AddingStep ==
  ASSUME TypeOK, NEW D \in SUBSET Cluster, Adding(D), Step(FALSE)
  PROVE  (\E C \in SUBSET Cluster : Stage(C)') /\ Untouched
  <1>1. PICK c \in D :
          /\ \/ todo = <<Mark(c, EOF), Sector(c, Folder)>>
             \/ \E j \in Jobs : todo = <<Mark(c, EOF), Sector(c, Fill(End)), j>> /\ Later(j, c)
          /\ fat[c] = FREE /\ Full(D, {c}, c) /\ (Linked(c) \/ Named(D, {c}, c))
    BY DEF Adding
  <1> DEFINE j == Mark(c, EOF)
  <1>2. j.do = "fat" /\ j.c = c /\ j.v = EOF /\ c \in Cluster
    BY DEF Mark, Job
  <1> HIDE DEF j
  <1>3. Head(todo) = j
    BY <1>1, Seqs DEF j
  <1>4. fat' = [fat EXCEPT ![c] = EOF] /\ data' = data /\ Rest
    BY <1>2, <1>3, JobStep
  <1>5. /\ \/ todo' = <<Sector(c, Folder)>>
           \/ \E i \in Jobs : todo' = <<Sector(c, Fill(End)), i>> /\ Later(i, c)
        /\ target' = target
    BY <1>1, <1>4, Seqs
  <1>6. Full(D, {c}, FREE)' /\ fat'[c] = EOF
    BY <1>1, <1>2, <1>4, MarkTidy DEF TypeOK
  <1>7. Clearing(D)'
    BY <1>5, <1>6 DEF Clearing, Later
  <1>8. Untouched
    <2>1. Apart(D, {c}) /\ \A k \in {c} : Unwritten(k)
      <3>1. \E i \in DOMAIN todo : \E b : todo[i] = Sector(c, b)
        BY <1>1
      <3> QED BY <1>1, <3>1 DEF Full, Unwritten, Sector, Job
    <2>2. \A k \in Cluster \ {c} : fat'[k] = fat[k] /\ data'[k] = data[k]
      BY <1>4 DEF TypeOK
    <2> QED BY <1>2, <1>4, <2>1, <2>2, Aside
  <1> QED BY <1>7, <1>8 DEF Stage

LEMMA ClearingStep ==
  ASSUME TypeOK, NEW D \in SUBSET Cluster, Clearing(D), Step(FALSE)
  PROVE  (\E C \in SUBSET Cluster : Stage(C)') /\ Untouched
  <1>1. PICK c \in D :
          /\ \/ todo = <<Sector(c, Folder)>>
             \/ \E j \in Jobs : todo = <<Sector(c, Fill(End)), j>> /\ Later(j, c)
          /\ fat[c] = EOF /\ Full(D, {c}, FREE)
    BY DEF Clearing
  <1>2. PICK b \in {Folder, Fill(End)} :
          /\ b # Fill(End) => todo = <<Sector(c, b)>>
          /\ \/ todo = <<Sector(c, b)>>
             \/ b = Fill(End) /\ \E j \in Jobs : todo = <<Sector(c, b), j>> /\ Later(j, c)
    BY <1>1
  <1> DEFINE j == Sector(c, b)
  <1>3. j.do = "sector" /\ j.c = c /\ j.b = b /\ c \in Cluster
    BY DEF Sector, Job
  <1>4. b \in Block /\ \A i \in 1 .. Slots : ~IsEntry(b[i])
    <2>1. ~IsEntry(Dot) /\ ~IsEntry(End)
      BY DEF IsEntry, Dot, End, Entry
    <2>2. \A i \in 1 .. Slots : Folder[i] \in {Dot, End} /\ Fill(End)[i] = End
      BY DEF Folder, Fill
    <2>3. b \in Block
      BY BlockTypes, SlotTypes
    <2> QED BY <2>1, <2>2, <2>3
  <1> HIDE DEF j
  <1>5. Head(todo) = j
    BY <1>2, Seqs DEF j
  <1>6. fat' = fat /\ data' = [data EXCEPT ![c] = b] /\ Rest
    BY <1>3, <1>5, JobStep
  <1>7. Full(D, {}, FREE)' /\ data'[c] = b
    <2>1. Full(D, {c}, FREE) /\ fat[c] = EOF
      BY <1>1
    <2> QED BY <1>4, <1>6, <2>1, ClearTidy
  <1>8. Untouched
    <2>1. Apart(D, {c}) /\ \A k \in {c} : Unwritten(k)
      <3>1. \E i \in DOMAIN todo : todo[i] = Sector(c, b)
        BY <1>2
      <3> QED BY <1>1, <3>1 DEF Full, Unwritten, Sector, Job
    <2>2. \A k \in Cluster \ {c} : fat'[k] = fat[k] /\ data'[k] = data[k]
      BY <1>6 DEF TypeOK
    <2> QED BY <1>3, <2>1, <2>2, Aside
  <1>9. CASE todo = <<Sector(c, b)>>
    <2>1. todo' = <<>>
      BY <1>6, <1>9, Seqs
    <2> QED BY <1>7, <1>8, <2>1 DEF Resting, Stage
  <1>10. CASE b = Fill(End) /\ \E i \in Jobs : todo = <<Sector(c, b), i>> /\ Later(i, c)
    <2>1. PICK i \in Jobs : todo = <<Sector(c, b), i>> /\ Later(i, c)
      BY <1>10
    <2>2. todo' = <<i>> /\ target' = target
      BY <1>6, <2>1, Seqs
    <2>3. Later(i, c)'
      BY <2>1, <2>2 DEF Later
    <2> QED BY <1>7, <1>8, <1>10, <2>2, <2>3 DEF Grown, Stage
  <1> QED BY <1>2, <1>9, <1>10

LEMMA GrowingStep ==
  ASSUME TypeOK, NEW D \in SUBSET Cluster, Growing(D), Step(FALSE)
  PROVE  (\E C \in SUBSET Cluster : Stage(C)') /\ Untouched
  <1>1. PICK last \in D, new \in Cluster, i \in Jobs :
          /\ todo = Grow(last, new, i) /\ Later(i, new)
          /\ fat[last] = EOF /\ \A m \in 1 .. Slots : data[last][m] # End
          /\ Fresh(D, new) /\ Full(D, {}, FREE)
    BY DEF Growing
  <1> DEFINE j == Mark(last, new)
             s == <<Mark(new, EOF), Sector(new, Fill(End)), i>>
  <1>2. j.do = "fat" /\ j.c = last /\ j.v = new /\ last \in Cluster
    BY DEF Mark, Job
  <1>3. todo = <<j, Mark(new, EOF), Sector(new, Fill(End)), i>>
    BY <1>1 DEF Grow
  <1> HIDE DEF j
  <1>4. Head(todo) = j /\ Tail(todo) = s /\ s # <<>>
    BY <1>3
  <1>5. fat' = [fat EXCEPT ![last] = new] /\ data' = data /\ Rest
    BY <1>2, <1>4, JobStep
  <1>6. todo' = s /\ target' = target
    BY <1>4, <1>5 DEF Rest
  <1> HIDE DEF s
  <1>7. Full(D \cup {new}, {new}, new)' /\ fat'[new] = FREE /\ Linked(new)'
    BY <1>1, <1>5, LinkTidy
  <1>8. Later(i, new)'
    BY <1>1, <1>6 DEF Later
  <1>9. Adding(D \cup {new})'
    BY <1>6, <1>7, <1>8 DEF Adding, s
  <1>10. D \cup {new} \in SUBSET Cluster
    OBVIOUS
  <1>11. Untouched
    <2>1. Apart(D, {}) /\ \A k \in {} : Unwritten(k)
      BY <1>1 DEF Full
    <2>2. \A k \in Cluster \ {last} : fat'[k] = fat[k] /\ data'[k] = data[k]
      BY <1>5 DEF TypeOK
    <2>3. UNCHANGED data
      BY <1>5
    <2> QED BY <1>2, <2>1, <2>2, <2>3, Aside
  <1> QED BY <1>9, <1>10, <1>11 DEF Stage

(* The disk stays as it is while the entry's cluster is looked for.        *)
LEMMA StillTidy ==
  ASSUME NEW D, Full(D, {}, FREE), UNCHANGED <<fat, data>>
  PROVE  Full(D, {}, FREE)' /\ Ent(D, {})' = Ent(D, {}) /\ \A p : At(p)' = At(p)
  <1>1. fat' = fat /\ data' = data
    OBVIOUS
  <1>2. Ent(D, {})' = Ent(D, {}) /\ \A p : At(p)' = At(p)
    BY <1>1 DEF Ent, At
  <1>3. \A y : (Linked(y)' <=> Linked(y)) /\ (Named(D, {}, y)' <=> Named(D, {}, y))
    BY <1>1, <1>2 DEF Linked, Named
  <1>4. Apart(D, {})'
    BY <1>1, <1>2, <1>3 DEF Full, Apart
  <1>5. LinksTaken(FREE)' /\ NamesTaken(D, {}, FREE)' /\ DirsTaken(D, FREE)' /\ Held(D, {}, FREE)'
    BY <1>1, <1>2, <1>3 DEF Full, LinksTaken, NamesTaken, DirsTaken, Held
  <1>6. Ranked(D, {})' /\ Shown(D, {})'
    BY <1>1, <1>2 DEF Full, Ranked, Shown
  <1> QED BY <1>2, <1>4, <1>5, <1>6 DEF Full

LEMMA StillUntouched ==
  ASSUME UNCHANGED <<fat, data>>
  PROVE  Untouched
  BY DEF Untouched, At

LEMMA GrownStep ==
  ASSUME TypeOK, NEW D \in SUBSET Cluster, Grown(D), Go, harm = "none", harm' = "none"
  PROVE  \E C \in SUBSET Cluster : Stage(C)'
  <1>1. PICK new \in D, j \in Jobs :
          todo = <<j>> /\ Later(j, new) /\ data[new] = Fill(End) /\ Full(D, {}, FREE)
    BY DEF Grown
  <1>2. Head(todo) = j
    BY <1>1
  <1>3. UNCHANGED <<fat, data>>
    BY DEF Go, DoNewFile, DoNewFolder
  <1>4. Full(D, {}, FREE)' /\ data'[new] = Fill(End) /\ new \in Cluster
    BY <1>1, <1>3, StillTidy
  <1>5. CASE Quit
    <2>1. Resting(D)'
      BY <1>4, <1>5 DEF Quit, Resting
    <2> QED BY <2>1 DEF Stage
  <1>6. \A c \in FirstFree : Fresh(D, c)'
    <2>1. ASSUME NEW c \in FirstFree PROVE c \in Cluster \ D /\ fat[c] = FREE
      BY <1>1, Bounds DEF FirstFree, Full, DirsTaken
    <2> QED BY <1>3, <2>1 DEF Fresh
  <1>7. ASSUME DoNewFile(j), NEW c \in FirstFree, UNCHANGED target,
               todo' = <<Sector(j.c, [j.b EXCEPT ![1] = [j.e EXCEPT !.first = c]]), Mark(c, EOF)>>,
               HurtIf(\E i \in 2 .. Slots : j.b[i].kind \in {"file", "dir"}, "stale")
        PROVE  Placing(D)'
    <2>1. /\ j.c = new /\ target = <<new, 1>> /\ j.e.kind = "file" /\ j.b \in Block
          /\ c \in Cluster
      BY <1>1, <1>7 DEF Later, DoNewFile, Jobs, FirstFree
    <2>2. \A i \in 2 .. Slots : ~IsEntry(j.b[i])
      BY <1>7 DEF HurtIf, Hurt, IsEntry
    <2> DEFINE e == [j.e EXCEPT !.first = c]
               b == [j.b EXCEPT ![1] = e]
    <2>3. e \in Slot /\ e.kind = "file" /\ e.first = c
      BY <1>1, <1>7, <2>1, NewEntry DEF DoNewFile
    <2> HIDE DEF e
    <2>4. b \in Block /\ b[1] = e /\ \A i \in 2 .. Slots : b[i] = j.b[i]
      BY <2>1, <2>3 DEF Block
    <2>5. todo' = <<Sector(new, b), Mark(c, EOF)>> /\ target' = <<new, 1>>
      BY <1>7, <2>1 DEF e
    <2> HIDE DEF b
    <2>6. Fresh(D, c)'
      BY <1>6, <1>7
    <2> QED BY <1>4, <2>1, <2>2, <2>3, <2>4, <2>5, <2>6 DEF Placing
  <1>8. ASSUME DoNewFolder(j), NEW c \in FirstFree, UNCHANGED target,
               todo' = FolderJobs(<<j.c, j.i>>, j.e.name, c)
        PROVE  Making(D)'
    <2> DEFINE p == <<new, 1>>
    <2>1. <<j.c, j.i>> = p /\ target = p /\ c \in Cluster
      BY <1>1, <1>8 DEF Later, DoNewFolder, Jobs, FirstFree
    <2>2. j.e.name \in Name
      BY <1>8 DEF DoNewFolder, Jobs, Slot, End, Gone, Dot, Text, Entry
    <2>3. Open(p)'
      BY <1>4, Bounds DEF Open, At, Fill, IsEntry, End, Entry
    <2>4. p \in D \X (1 .. Slots)
      BY Bounds
    <2> HIDE DEF p
    <2>5. todo' = FolderJobs(p, j.e.name, c) /\ target' = p /\ Fresh(D, c)'
      BY <1>6, <1>8, <2>1
    <2> QED BY <1>4, <2>1, <2>2, <2>3, <2>4, <2>5 DEF Making
  <1> QED BY <1>2, <1>5, <1>7, <1>8 DEF Go, DoNewFile, DoNewFolder, Stage

LEMMA PlacingStep ==
  ASSUME TypeOK, NEW D \in SUBSET Cluster, Placing(D), Step(FALSE)
  PROVE  (\E C \in SUBSET Cluster : Stage(C)') /\ Untouched
  <1>1. PICK new \in D, c \in Cluster, b \in Block :
          /\ todo = <<Sector(new, b), Mark(c, EOF)>> /\ target = <<new, 1>>
          /\ b[1].kind = "file" /\ b[1].first = c /\ \A i \in 2 .. Slots : ~IsEntry(b[i])
          /\ data[new] = Fill(End) /\ Fresh(D, c) /\ Full(D, {}, FREE)
    BY DEF Placing
  <1> DEFINE j == Sector(new, b)
  <1>2. j.do = "sector" /\ j.c = new /\ j.b = b /\ new \in Cluster
    BY DEF Sector, Job
  <1> HIDE DEF j
  <1>3. Head(todo) = j
    BY <1>1, Seqs DEF j
  <1>4. fat' = fat /\ data' = [data EXCEPT ![new] = b] /\ Rest
    BY <1>2, <1>3, JobStep
  <1>5. todo' = <<Mark(c, EOF)>> /\ target' = <<new, 1>>
    BY <1>1, <1>4, Seqs
  <1>6. Adds(new, 1, b, c)
    <2>1. \A i \in 1 .. Slots : data[new][i] = End
      BY <1>1 DEF Fill
    <2>2. ~IsEntry(End) /\ \A i \in 1 .. Slots : i # 1 => i \in 2 .. Slots
      BY DEF IsEntry, End, Entry
    <2>3. IsEntry(b[1]) /\ 1 \in 1 .. Slots
      BY <1>1, Bounds DEF IsEntry
    <2> QED BY <1>1, <2>1, <2>2, <2>3 DEF Adds
  <1>7. Full(D, {}, c)' /\ <<new, 1>> \in Ent(D, {})' /\ At(<<new, 1>>)' = b[1]
    <2>1. Full(D, {}, FREE) /\ Fresh(D, c) /\ b[1].kind = "file" /\ 1 \in 1 .. Slots
      BY <1>1, Bounds
    <2>2. /\ b[1].kind = "file" => Full(D, {}, c)'
          /\ b[1].kind = "dir" => Full(D \cup {c}, {c}, c)' /\ Named(D \cup {c}, {c}, c)'
          /\ <<new, 1>> \in Ent(D, {})' /\ At(<<new, 1>>)' = b[1]
          /\ \A q \in Ent(D, {}) : q \in Ent(D, {})' /\ At(q)' = At(q)
      BY <1>4, <1>6, <2>1, AddTidy
    <2> QED BY <2>1, <2>2
  <1>8. Marking(D)'
    <2>1. fat'[c] = FREE
      BY <1>1, <1>4 DEF Fresh
    <2> QED BY <1>1, <1>5, <1>7, <2>1 DEF Marking
  <1>9. Untouched
    <2>1. Apart(D, {}) /\ \A k \in {} : Unwritten(k)
      BY <1>1 DEF Full
    <2>2. \A k \in Cluster \ {new} : fat'[k] = fat[k] /\ data'[k] = data[k]
      BY <1>4 DEF TypeOK
    <2>3. Unwritten(new)
      <3>1. 1 \in DOMAIN todo /\ todo[1] = j
        BY <1>1 DEF j
      <3> QED BY <1>2, <3>1 DEF Unwritten
    <2> QED BY <1>2, <2>1, <2>2, <2>3, Aside
  <1> QED BY <1>8, <1>9 DEF Stage

LEMMA RemovingStep ==
  ASSUME TypeOK, NEW D \in SUBSET Cluster, Removing(D), Step(FALSE)
  PROVE  (\E C \in SUBSET Cluster : Stage(C)') /\ Untouched
  <1>1. PICK p \in D \X (1 .. Slots), x \in Cluster :
          todo = <<FreeFrom(x), PutSlot(p, Gone)>> /\ Freeing(D, p, x) /\ Loose(D, p, x)
    BY DEF Removing
  <1>2. PICK y : y = fat[x]
    OBVIOUS
  <1> DEFINE j == FreeFrom(x)
             g == PutSlot(p, Gone)
  <1>3. j.do = "free" /\ j.c = x
    BY DEF FreeFrom, Job
  <1> HIDE DEF j, g
  <1>4. Head(todo) = j /\ todo = <<j, g>> /\ fat[x] # FREE /\ target = p
    BY <1>1, Seqs DEF j, g, Loose, Freeing
  <1>5. /\ fat' = [fat EXCEPT ![x] = FREE] /\ data' = data
        /\ IF y \in Cluster THEN todo' = [todo EXCEPT ![1] = FreeFrom(y)] /\ target' = target
                            ELSE Rest
    BY <1>2, <1>3, <1>4, JobStep DEF DoFree, Put
  <1>6. target' = target /\ todo' = IF y \in Cluster THEN <<FreeFrom(y), g>> ELSE <<g>>
    BY <1>4, <1>5, Seqs
  <1>7. /\ y \in Cluster => Freeing(D, p, y)' /\ Loose(D, p, y)'
        /\ y \notin Cluster => Freeing(D, p, FREE)' /\ fat'[At(p)'.first] = FREE
    BY <1>1, <1>2, <1>5, <1>6, FreeTidy
  <1>8. Removing(D)' \/ Dropping(D)'
    BY <1>6, <1>7 DEF Removing, Dropping, g
  <1>9. Untouched
    <2>1. Apart(D, {}) /\ \A k \in {} : Unwritten(k)
      BY <1>1 DEF Freeing
    <2>2. \A k \in Cluster \ {x} : fat'[k] = fat[k] /\ data'[k] = data[k]
      BY <1>5 DEF TypeOK
    <2>3. ~Linked(x) /\ \A q \in Ent(D, {}) \ {target} : At(q).first # x
      BY <1>1, <1>4 DEF Loose
    <2>4. UNCHANGED data
      BY <1>5
    <2> QED BY <2>1, <2>2, <2>3, <2>4, Aside
  <1> QED BY <1>8, <1>9 DEF Stage

LEMMA DroppingStep ==
  ASSUME TypeOK, NEW D \in SUBSET Cluster, Dropping(D), Step(FALSE)
  PROVE  (\E C \in SUBSET Cluster : Stage(C)') /\ Untouched
  <1>1. PICK p \in D \X (1 .. Slots) :
          todo = <<PutSlot(p, Gone)>> /\ Freeing(D, p, FREE) /\ fat[At(p).first] = FREE
    BY DEF Dropping
  <1> DEFINE j == PutSlot(p, Gone)
  <1>2. j.do = "slot" /\ j.c = p[1] /\ j.i = p[2] /\ j.e = Gone
    BY DEF PutSlot, Job
  <1> HIDE DEF j
  <1>3. Head(todo) = j /\ target = p
    BY <1>1, Seqs DEF j, Freeing
  <1>4. fat' = fat /\ data' = [data EXCEPT ![p[1]][p[2]] = Gone] /\ Rest
    BY <1>2, <1>3, JobStep
  <1>5. todo' = <<>>
    BY <1>1, <1>4, Seqs
  <1>6. PICK C \in SUBSET Cluster : C = {c \in D : fat[c] # FREE}
    OBVIOUS
  <1>7. Full(C, {}, FREE)'
    BY <1>1, <1>4, <1>6, DropTidy
  <1>8. Resting(C)'
    BY <1>5, <1>7 DEF Resting
  <1>9. Untouched
    <2>1. Apart(D, {}) /\ \A k \in {} : Unwritten(k)
      BY <1>1 DEF Freeing
    <2>2. p[1] \in D /\ p[2] \in 1 .. Slots /\ p = <<p[1], p[2]>> /\ p[1] \in Cluster
      OBVIOUS
    <2>3. \A k \in Cluster \ {p[1]} : fat'[k] = fat[k] /\ data'[k] = data[k]
      BY <1>4 DEF TypeOK
    <2>4. ASSUME NEW q \in Ent(D, {}) \ {target} PROVE At(q)' = At(q)
      <3>1. q[1] \in Cluster /\ q[2] \in 1 .. Slots /\ q = <<q[1], q[2]>>
        BY EntType
      <3>2. q[1] # p[1] \/ q[2] # p[2]
        BY <1>3, <2>2, <3>1
      <3> QED BY <1>4, <2>2, <3>1, <3>2 DEF At, TypeOK, Block
    <2> QED BY <2>1, <2>2, <2>3, <2>4, Aside
  <1> QED BY <1>8, <1>9 DEF Stage

LEMMA WritingStep ==
  ASSUME TypeOK, NEW D \in SUBSET Cluster, Writing(D), Step(FALSE)
  PROVE  (\E C \in SUBSET Cluster : Stage(C)') /\ Untouched
  <1>1. PICK x \in Cluster, k \in Nat :
          /\ \/ todo = <<WriteText(x, k)>>
             \/ \E i \in Jobs : todo = <<WriteText(x, k), i>> /\ Sizing(D, i)
          /\ target \in Ent(D, {}) /\ At(target).kind = "file" /\ x \in Chain(At(target).first)
          /\ Full(D, {}, FREE)
    BY DEF Writing
  <1> DEFINE j == WriteText(x, k)
  <1>2. j.do = "text" /\ j.c = x /\ j.v = k
    BY DEF WriteText, Job
  <1> HIDE DEF j
  <1>3. Head(todo) = j
    BY <1>1, Seqs DEF j
  <1>4. /\ fat' = fat /\ data' = [data EXCEPT ![x] = Fill(Text)]
        /\ \/ k > 1 /\ fat[x] \in Cluster
              /\ todo' = [todo EXCEPT ![1] = WriteText(fat[x], k - 1)] /\ target' = target
           \/ Quit \/ Rest
    BY <1>2, <1>3, JobStep DEF DoText, Put
  <1>5. /\ At(target).first \in Cluster /\ At(target).first \notin D
        /\ x \in Cluster \ D
    <2>1. At(target).first \in Cluster /\ At(target).first \notin D
      BY <1>1, EntType DEF Full, Apart
    <2>2. Apart(D, {})
      BY <1>1 DEF Full
    <2> QED BY <1>1, <2>1, <2>2, ChainSide
  <1>6. /\ Full(D, {}, FREE)' /\ Ent(D, {})' = Ent(D, {})
        /\ \A p \in Ent(D, {}) : At(p)' = At(p)
    BY <1>1, <1>4, <1>5, TextTidy
  <1>7. \A c : Chain(c)' = Chain(c)
    BY <1>4 DEF Chain
  <1>8. \A i : Sizing(D, i) /\ target' = target => Sizing(D, i)'
    BY <1>1, <1>6 DEF Sizing
  <1>9. Untouched
    <2>1. Apart(D, {}) /\ \A c \in {} : Unwritten(c)
      BY <1>1 DEF Full
    <2>2. \A c \in Cluster \ {x} : fat'[c] = fat[c] /\ data'[c] = data[c]
      BY <1>4 DEF TypeOK
    <2>3. target \in Ent(D, {}) /\ x \in Chain(At(target).first)
      BY <1>1
    <2>4. \A p \in Ent(D, {}) \ {target} : p[1] = x => At(p)' = At(p)
      BY <1>6
    <2> QED BY <2>1, <2>2, <2>3, <2>4, Aside
  <1>10. CASE Quit
    <2>1. Resting(D)'
      BY <1>6, <1>10 DEF Quit, Resting
    <2> QED BY <1>9, <2>1 DEF Stage
  <1>11. CASE Rest
    <2>1. CASE todo = <<j>>
      <3>1. todo' = <<>>
        BY <1>11, <2>1, Seqs
      <3>2. Resting(D)'
        BY <1>6, <3>1 DEF Resting
      <3> QED BY <1>9, <3>2 DEF Stage
    <2>2. ASSUME NEW i \in Jobs, todo = <<j, i>>, Sizing(D, i) PROVE Resizing(D)'
      <3>1. todo' = <<i>> /\ target' = target
        BY <1>11, <2>2, Seqs
      <3> QED BY <1>6, <1>8, <2>2, <3>1 DEF Resizing
    <2> QED BY <1>1, <1>9, <2>1, <2>2 DEF Stage, j
  <1>12. CASE /\ k > 1 /\ fat[x] \in Cluster
              /\ todo' = [todo EXCEPT ![1] = WriteText(fat[x], k - 1)] /\ target' = target
    <2>1. PICK y \in Cluster : y = fat[x]
      BY <1>12
    <2>2. y \in Chain(At(target).first) /\ k - 1 \in Nat
      BY <1>1, <1>5, <1>12, <2>1, ChainClosed
    <2>3. \/ todo' = <<WriteText(y, k - 1)>>
          \/ \E i \in Jobs : todo' = <<WriteText(y, k - 1), i>> /\ Sizing(D, i)
      BY <1>1, <1>12, <2>1
    <2>4. /\ target' \in Ent(D, {})' /\ At(target)'.kind = "file"
          /\ y \in Chain(At(target).first)'
      BY <1>1, <1>6, <1>7, <1>12, <2>2
    <2>5. Writing(D)'
      BY <1>6, <1>8, <1>12, <2>2, <2>3, <2>4 DEF Writing
    <2> QED BY <1>9, <2>5 DEF Stage
  <1> QED BY <1>4, <1>10, <1>11, <1>12

LEMMA ResizingStep ==
  ASSUME TypeOK, NEW D \in SUBSET Cluster, Resizing(D), Step(FALSE)
  PROVE  (\E C \in SUBSET Cluster : Stage(C)') /\ Untouched
  <1>1. PICK j \in Jobs : todo = <<j>> /\ Sizing(D, j) /\ Full(D, {}, FREE)
    BY DEF Resizing
  <1>2. PICK p \in Ent(D, {}) : p = target
    BY <1>1 DEF Sizing
  <1>3. /\ p[1] \in D /\ p[1] \in Cluster /\ p[2] \in 1 .. Slots /\ p = <<p[1], p[2]>>
        /\ j.do = "slot" /\ j.c = p[1] /\ j.i = p[2]
        /\ j.e.kind = At(p).kind /\ j.e.first = At(p).first
    BY <1>1, <1>2, EntType DEF Sizing
  <1>4. Head(todo) = j
    BY <1>1, Seqs
  <1>5. fat' = fat /\ data' = [data EXCEPT ![p[1]][p[2]] = j.e] /\ Rest
    BY <1>3, <1>4, JobStep
  <1>6. todo' = <<>>
    BY <1>1, <1>5, Seqs
  <1>7. Full(D, {}, FREE)' /\ \A q \in D \X (1 .. Slots) : q # p => At(q)' = At(q)
    <2>1. PICK e, d : e = j.e /\ d = [data EXCEPT ![p[1]][p[2]] = e] /\ data' = d
      BY <1>5
    <2>2. /\ Full(D, {}, FREE) /\ e.kind = At(p).kind /\ e.first = At(p).first /\ fat' = fat
      BY <1>1, <1>3, <1>5, <2>1
    <2> QED BY <2>1, <2>2, SizeTidy
  <1>8. Resting(D)'
    BY <1>6, <1>7 DEF Resting
  <1>9. Untouched
    <2>1. Apart(D, {}) /\ \A k \in {} : Unwritten(k)
      BY <1>1 DEF Full
    <2>2. \A k \in Cluster \ {p[1]} : fat'[k] = fat[k] /\ data'[k] = data[k]
      BY <1>5 DEF TypeOK
    <2>3. \A q \in Ent(D, {}) \ {target} : At(q)' = At(q)
      BY <1>2, <1>7 DEF Ent
    <2> QED BY <1>3, <2>1, <2>2, <2>3, Aside
  <1> QED BY <1>8, <1>9 DEF Stage

LEMMA LeastOf ==
  ASSUME NEW S \in SUBSET Nat, S # {}
  PROVE  \E m \in S : \A n \in S : m <= n
  <1> DEFINE below == {ss \in Nat \X Nat : ss[1] < ss[2]}
  <1>1. IsWellFoundedOn(below, Nat)
    BY NatLessThanWellFounded DEF OpToRel
  <1>2. PICK m \in S : \A n \in S : <<n, m>> \notin below
    <2> HIDE DEF below
    <2> QED BY <1>1, WFMin
  <1>3. ASSUME NEW n \in S PROVE m <= n
    <2>1. n \in Nat /\ m \in Nat /\ <<n, m>> \notin below
      BY <1>2
    <2>2. n < m => <<n, m>> \in below
      BY <2>1
    <2> HIDE DEF below
    <2> QED BY <2>1, <2>2
  <1> QED BY <1>3

(* Along a chain the ranks grow.                                           *)
LEMMA ChainRank ==
  ASSUME NEW r \in [Cluster -> Nat], \A c \in Cluster : fat[c] \in Cluster => r[c] < r[fat[c]],
         NEW c \in Cluster, NEW x \in Chain(c)
  PROVE  x \in Cluster /\ (x = c \/ r[c] < r[x])
  <1> DEFINE S == {y \in Cluster : y = c \/ r[c] < r[y]}
  <1>1. c \in S /\ \A y \in S : fat[y] \in Cluster => fat[y] \in S
    OBVIOUS
  <1>2. Chain(c) \subseteq S
    <2>1. S \in SUBSET Cluster
      OBVIOUS
    <2> HIDE DEF S
    <2> QED BY <1>1, <2>1, ChainLeast
  <1> QED BY <1>2

(* A search finds the first of the slots it may stop at.                   *)
LEMMA VacantFound ==
  ASSUME TypeOK, NEW D \in SUBSET Cluster, NEW U, Ranked(D, U), NEW d \in Cluster,
         NEW p \in Places(d), At(p) \in {End, Gone}
  PROVE  Vacant(d) # {}
  <1> DEFINE hits == {q \in Places(d) : At(q) \in {End, Gone}}
  <1>1. PICK r \in [Cluster -> Nat] : \A c \in Cluster : fat[c] \in Cluster => r[c] < r[fat[c]]
    BY DEF Ranked
  <1>2. \A q \in hits : q[1] \in Cluster /\ q[2] \in 1 .. Slots /\ q = <<q[1], q[2]>> /\ q \in Places(d)
    BY ChainIn DEF Places
  <1>3. p \in hits /\ hits \subseteq Places(d)
    OBVIOUS
  <1>4. Vacant(d) = {q \in hits : \A s \in hits : ~Before(s, q)}
    BY DEF Vacant, First
  <1>5. \A q \in hits, i \in 1 .. Slots : <<q[1], i>> \in Places(d)
    BY <1>2 DEF Places
  <1> HIDE DEF hits
  <1>6. PICK q \in hits : \A s \in hits : r[q[1]] <= r[s[1]]
    <2> DEFINE R == {r[s[1]] : s \in hits}
    <2>1. R \in SUBSET Nat /\ R # {}
      BY <1>2, <1>3
    <2>2. PICK m \in R : \A k \in R : m <= k
      <3> HIDE DEF R
      <3> QED BY <2>1, LeastOf
    <2> QED BY <2>2
  <1>7. PICK i \in 1 .. Slots : /\ <<q[1], i>> \in hits
                                /\ \A k \in 1 .. Slots : <<q[1], k>> \in hits => i <= k
    <2> DEFINE I == {k \in 1 .. Slots : <<q[1], k>> \in hits}
    <2>1. I \in SUBSET Nat /\ q[2] \in I
      BY <1>2
    <2>2. PICK m \in I : \A k \in I : m <= k
      <3> HIDE DEF I
      <3> QED BY <2>1, LeastOf
    <2> QED BY <2>2
  <1> DEFINE h == <<q[1], i>>
  <1>8. ASSUME NEW s \in hits, Before(s, h) PROVE FALSE
    <2>1. s[1] \in Cluster /\ s[2] \in 1 .. Slots /\ s = <<s[1], s[2]>> /\ q[1] \in Cluster
      BY <1>2
    <2>2. CASE s[1] = q[1]
      <3>1. s[2] < i
        BY <1>8, <2>2 DEF Before
      <3>2. <<q[1], s[2]>> \in hits
        BY <2>1, <2>2
      <3>3. i <= s[2] /\ i \in Nat /\ s[2] \in Nat
        BY <1>7, <2>1, <3>2
      <3> QED BY <3>1, <3>3
    <2>3. CASE s[1] # q[1]
      <3>1. q[1] \in Chain(s[1])
        BY <1>8, <2>3 DEF Before
      <3>2. r[s[1]] < r[q[1]]
        BY <1>1, <2>1, <2>3, <3>1, ChainRank
      <3>3. r[q[1]] <= r[s[1]] /\ r[q[1]] \in Nat /\ r[s[1]] \in Nat
        BY <1>6, <2>1
      <3> QED BY <3>2, <3>3
    <2> QED BY <2>2, <2>3
  <1> QED BY <1>4, <1>7, <1>8

LEMMA FindIn ==
  ASSUME TypeOK, NEW D \in SUBSET Cluster, Full(D, {}, FREE), NEW d \in D, NEW n \in Name,
         NEW p \in Find(d, n)
  PROVE  p \in Ent(D, {})
  <1>1. p \in Places(d) /\ p \in Place /\ At(p).name = n
    BY PlaceTypes DEF Find, First
  <1>2. p \in D \X (1 .. Slots)
    BY <1>1, ChainSide DEF Places, Full
  <1>3. At(p) \in Slot
    BY <1>1, PlaceTypes
  <1>4. IsEntry(At(p))
    BY <1>1, <1>3, SlotTypes DEF IsEntry
  <1> QED BY <1>2, <1>4 DEF Ent

(* A path through a directory, or none, leads to a directory.              *)
LEMMA ResolveIn ==
  ASSUME TypeOK, NEW D \in SUBSET Cluster, Full(D, {}, FREE), NEW path \in Path,
         ~NotFolder(path), Resolve(path) \in Cluster
  PROVE  Resolve(path) \in D
  <1>1. Root \in D
    BY DEF Full, Apart
  <1>2. CASE path = <<>>
    BY <1>1, <1>2 DEF Resolve
  <1>3. CASE path # <<>>
    <2>1. PICK n \in Name : path = <<n>>
      BY <1>3 DEF Path
    <2>2. path[1] = n /\ Resolve(path) = Enter(Root, n)
      BY <1>3, <2>1 DEF Resolve
    <2>3. PICK q \in Find(Root, n) : Enter(Root, n) = At(q).first
      BY <2>2, Bounds DEF Enter, FREE
    <2>4. At(q).kind = "dir"
      BY <1>3, <2>2, <2>3 DEF NotFolder
    <2>5. q \in Ent(D, {})
      BY <1>1, <2>3, FindIn
    <2> QED BY <2>2, <2>3, <2>4, <2>5 DEF Full, Apart
  <1> QED BY <1>2, <1>3

LEMMA Unhurt ==
  ASSUME NEW b, NEW why, HurtIf(b, why), why # "none", harm' = "none"
  PROVE  ~b /\ harm = "none"
  BY DEF HurtIf, Hurt

LEMMA FreshFirst ==
  ASSUME NEW D \in SUBSET Cluster, Full(D, {}, FREE), NEW c \in FirstFree
  PROVE  Fresh(D, c) /\ c \in Cluster /\ fat[c] = FREE
  BY Bounds DEF Fresh, FirstFree, Full, DirsTaken

(* The entry of a new file or directory, in a free slot of directory d.    *)
LEMMA EntryStart ==
  ASSUME TypeOK, NEW D \in SUBSET Cluster, Full(D, {}, FREE), UNCHANGED <<fat, data>>,
         NEW d \in D, NEW p \in Vacant(d), NEW c \in FirstFree, NEW n \in Name,
         todo' = FileJobs(p, n, c) \/ todo' = FolderJobs(p, n, c), target' = p
  PROVE  Making(D)'
  <1>1. p \in Places(d) /\ At(p) \in {End, Gone} /\ \A q \in Places(d) : At(q) = End => ~Before(q, p)
    BY DEF Vacant, First
  <1>2. p \in D \X (1 .. Slots) /\ p[1] \in Chain(d) /\ p = <<p[1], p[2]>>
    BY <1>1, ChainSide DEF Places, Full
  <1>3. ASSUME NEW i \in 1 .. p[2] - 1, data[p[1]][i] = End PROVE FALSE
    <2>1. i \in 1 .. Slots /\ i < p[2]
      BY <1>2
    <2>2. <<p[1], i>> \in Places(d)
      BY <1>2, <2>1 DEF Places
    <2>3. At(<<p[1], i>>) = End /\ Before(<<p[1], i>>, p)
      BY <1>3, <2>1 DEF At, Before
    <2> QED BY <1>1, <2>2, <2>3
  <1>4. ~IsEntry(At(p))
    BY <1>1 DEF IsEntry, End, Gone, Entry
  <1>5. Open(p)'
    BY <1>3, <1>4 DEF Open, At
  <1>6. Fresh(D, c)' /\ c \in Cluster
    BY FreshFirst DEF Fresh
  <1>7. Full(D, {}, FREE)'
    BY StillTidy
  <1> QED BY <1>2, <1>5, <1>6, <1>7 DEF Making

(* A full directory is to grow.                                            *)
LEMMA GrowStart ==
  ASSUME TypeOK, NEW D \in SUBSET Cluster, Full(D, {}, FREE), UNCHANGED <<fat, data>>,
         NEW d \in D, Vacant(d) = {}, NEW last \in Ending(d), NEW new \in FirstFree, NEW j \in Jobs,
         todo' = Grow(last, new, j), target' = <<new, 1>>, Later(j, new)'
  PROVE  Growing(D)'
  <1>1. last \in Chain(d) /\ last \in D /\ fat[last] = EOF
    BY ChainSide DEF Ending, Full
  <1>2. ASSUME NEW i \in 1 .. Slots, data[last][i] = End PROVE FALSE
    <2>1. <<last, i>> \in Places(d) /\ At(<<last, i>>) = End
      BY <1>1, <1>2 DEF Places, At
    <2>2. Ranked(D, {})
      BY DEF Full
    <2> QED BY <2>1, <2>2, VacantFound
  <1>3. Fresh(D, new)' /\ new \in Cluster
    BY FreshFirst DEF Fresh
  <1>4. Full(D, {}, FREE)'
    BY StillTidy
  <1> QED BY <1>1, <1>2, <1>3, <1>4 DEF Growing

LEMMA CreateStart ==
  ASSUME TypeOK, NEW D \in SUBSET Cluster, Resting(D), NEW path \in Path, NEW n \in Name,
         Fat32Create(path, n), harm' = "none"
  PROVE  \E C \in SUBSET Cluster : Stage(C)'
  <1> DEFINE d == Resolve(path)
  <1>1. Full(D, {}, FREE) /\ UNCHANGED <<fat, data>> /\ d \in Cluster
    BY DEF Resting, Fat32Create
  <1>2. ~NotFolder(path)
    BY Unhurt DEF Fat32Create
  <1>3. d \in D
    BY <1>1, <1>2, ResolveIn
  <1> HIDE DEF d
  <1>4. ASSUME NEW p \in Vacant(d), NEW c \in FirstFree, Start(FileJobs(p, n, c), p)
        PROVE  Making(D)'
    BY <1>1, <1>3, <1>4, EntryStart DEF Start
  <1>5. ASSUME Vacant(d) = {}, NEW last \in Ending(d), NEW new \in FirstFree,
               Start(Grow(last, new, NewFile(new, n, data[last])), <<new, 1>>)
        PROVE  Growing(D)'
    <2>1. PICK j : j = NewFile(new, n, data[last])
      OBVIOUS
    <2>2. last \in Cluster /\ new \in Cluster
      BY ChainIn DEF Ending, FirstFree
    <2>3. j \in Jobs
      BY <2>1, <2>2, JobTypes DEF TypeOK
    <2>4. j.c = new /\ j.do = "newfile" /\ j.e.kind = "file"
      BY <2>1 DEF NewFile, Job, Entry
    <2>5. todo' = Grow(last, new, j) /\ target' = <<new, 1>> /\ Later(j, new)'
      BY <1>5, <2>1, <2>4 DEF Start, Later
    <2> HIDE <1>5
    <2> QED BY <1>1, <1>3, <1>5, <2>3, <2>5, GrowStart
  <1> QED BY <1>4, <1>5 DEF Fat32Create, Stage, d

LEMMA MkdirStart ==
  ASSUME TypeOK, NEW D \in SUBSET Cluster, Resting(D), NEW path \in Path, NEW n \in Name,
         Fat32Mkdir(path, n), harm' = "none"
  PROVE  \E C \in SUBSET Cluster : Stage(C)'
  <1> DEFINE d == Resolve(path)
  <1>1. Full(D, {}, FREE) /\ UNCHANGED <<fat, data>> /\ d \in Cluster
    BY DEF Resting, Fat32Mkdir
  <1>2. ~NotFolder(path)
    BY Unhurt DEF Fat32Mkdir
  <1>3. d \in D
    BY <1>1, <1>2, ResolveIn
  <1> HIDE DEF d
  <1>4. ASSUME NEW p \in Vacant(d), NEW c \in FirstFree, Start(FolderJobs(p, n, c), p)
        PROVE  Making(D)'
    BY <1>1, <1>3, <1>4, EntryStart DEF Start
  <1>5. ASSUME Vacant(d) = {}, NEW last \in Ending(d), NEW new \in FirstFree,
               Start(Grow(last, new, NewFolder(<<new, 1>>, n)), <<new, 1>>)
        PROVE  Growing(D)'
    <2>1. PICK j : j = NewFolder(<<new, 1>>, n)
      OBVIOUS
    <2>2. <<new, 1>> \in Place
      BY Bounds DEF FirstFree, Place
    <2>3. j \in Jobs
      BY <2>1, <2>2, JobTypes
    <2>4. j.c = new /\ j.do = "newfolder" /\ j.i = 1
      BY <2>1 DEF NewFolder, Job
    <2>5. todo' = Grow(last, new, j) /\ target' = <<new, 1>> /\ Later(j, new)'
      BY <1>5, <2>1, <2>4 DEF Start, Later
    <2> QED BY <1>1, <1>3, <1>5, <2>3, <2>5, GrowStart
  <1> QED BY <1>4, <1>5 DEF Fat32Mkdir, Stage, d

(* What a search finds is an entry of a directory.                         *)
LEMMA FoundEntry ==
  ASSUME TypeOK, NEW D \in SUBSET Cluster, Full(D, {}, FREE), NEW path \in Path, NEW n \in Name,
         ~NotFolder(path), NEW p \in Find(Resolve(path), n)
  PROVE  p \in Ent(D, {}) /\ p \in D \X (1 .. Slots) /\ At(p).first \in Cluster
  <1>1. Resolve(path) \in Cluster
    BY DEF Find, First, Places, Chain
  <1>2. p \in Ent(D, {})
    BY <1>1, ResolveIn, FindIn
  <1> QED BY <1>2, EntType DEF Ent

LEMMA RemoveStart ==
  ASSUME TypeOK, NEW D \in SUBSET Cluster, Resting(D), NEW path \in Path, NEW n \in Name,
         Fat32Remove(path, n), harm' = "none"
  PROVE  \E C \in SUBSET Cluster : Stage(C)'
  <1>1. Full(D, {}, FREE) /\ fat' = fat /\ data' = data
    BY DEF Resting, Fat32Remove
  <1>2. PICK p \in Find(Resolve(path), n) :
          /\ todo' = <<FreeFrom(At(p).first), PutSlot(p, Gone)>> /\ target' = p
          /\ ~NotFolder(path)
          /\ At(p).kind = "dir" => \A q \in Places(At(p).first) : ~IsEntry(At(q))
    BY Unhurt DEF Fat32Remove, Start, IsEntry
  <1>3. p \in Ent(D, {}) /\ p \in D \X (1 .. Slots) /\ At(p).first \in Cluster
    BY <1>1, <1>2, FoundEntry
  <1>4. PICK x \in Cluster : x = At(p).first
    BY <1>3
  <1>5. /\ Apart(D, {}) /\ LinksTaken(FREE) /\ NamesTaken(D, {}, FREE) /\ DirsTaken(D, FREE)
        /\ Held(D, {}, FREE)
    BY <1>1 DEF Full
  <1>6. x # Root /\ fat[x] # FREE /\ ~Linked(x)
    BY <1>3, <1>4, <1>5, Bounds DEF Apart, Named, NamesTaken
  <1>7. Loose(D, p, x)
    <2>1. \A q \in Ent(D, {}) : At(q).first = x => q = p
      BY <1>3, <1>4, <1>5 DEF Apart
    <2>2. ASSUME NEW q \in Ent(D, {}) PROVE q[1] \notin Chain(x)
      <3>1. q[1] \in D /\ q[2] \in 1 .. Slots /\ q = <<q[1], q[2]>> /\ IsEntry(At(q))
        BY EntType
      <3>2. CASE At(p).kind = "dir"
        BY <1>2, <1>4, <3>1, <3>2 DEF Places
      <3>3. CASE At(p).kind # "dir"
        <4>1. x \notin D
          BY <1>3, <1>4, <1>5, <3>3 DEF Apart
        <4> QED BY <1>5, <3>1, <4>1, ChainSide
      <3> QED BY <3>2, <3>3
    <2>3. x \in Chain(x) /\ Chain(x) \in SUBSET Cluster
          /\ \A c \in Chain(x) : fat[c] \in Cluster => fat[c] \in Chain(x)
      BY ChainClosed, ChainIn
    <2> QED BY <1>4, <1>6, <2>1, <2>2, <2>3 DEF Loose
  <1>8. Full(D, {}, FREE)' /\ Ent(D, {})' = Ent(D, {}) /\ \A q : At(q)' = At(q)
    BY <1>1, StillTidy
  <1>9. Freeing(D, p, x)'
    <2>1. NamesTaken(D, {}, At(p).first)'
      <3>1. \A q \in Ent(D, {}) : At(q).first \in Cluster
        BY EntType
      <3> QED BY <1>8, <3>1, Bounds DEF Full, NamesTaken
    <2>2. Held(D, {}, x)'
      BY <1>8, Bounds DEF Full, Held
    <2>3. fat'[Root] # FREE /\ \A q \in Ent(D, {}) : fat'[q[1]] # FREE
      <3>1. \A c \in D : c # FREE /\ fat[c] # FREE
        BY <1>5, Bounds DEF DirsTaken
      <3> QED BY <1>1, <1>5, <3>1, EntType DEF Apart
    <2> QED BY <1>2, <1>3, <1>8, <2>1, <2>2, <2>3 DEF Full, Freeing
  <1>10. Loose(D, p, x)'
    BY <1>1, <1>7, <1>8 DEF Loose, Linked
  <1>11. Removing(D)'
    BY <1>2, <1>3, <1>4, <1>9, <1>10 DEF Removing
  <1> QED BY <1>11 DEF Stage

LEMMA WriteStart ==
  ASSUME TypeOK, NEW D \in SUBSET Cluster, Resting(D), NEW path \in Path, NEW n \in Name,
         NEW size \in Size, Fat32Write(path, n, size), harm' = "none"
  PROVE  \E C \in SUBSET Cluster : Stage(C)'
  <1>1. Full(D, {}, FREE) /\ fat' = fat /\ data' = data
    BY DEF Resting, Fat32Write
  <1>2. PICK p \in Find(Resolve(path), n) :
          todo' = WriteJobs(p, size) /\ target' = p /\ ~NotFolder(path) /\ At(p).kind # "dir"
    BY Unhurt DEF Fat32Write, Start
  <1>3. /\ p \in Ent(D, {}) /\ p \in D \X (1 .. Slots) /\ At(p).first \in Cluster /\ p \in Place
        /\ At(p) \in Slot /\ At(p).kind = "file"
    BY <1>1, <1>2, FoundEntry, EntType DEF IsEntry
  <1>4. PICK x \in Cluster : x = At(p).first
    BY <1>3
  <1>5. Full(D, {}, FREE)' /\ Ent(D, {})' = Ent(D, {}) /\ \A q : At(q)' = At(q)
    BY <1>1, StillTidy
  <1>6. x \in Chain(At(p).first)'
    <2>1. Chain(x)' = Chain(x)
      BY <1>1 DEF Chain
    <2> QED BY <1>4, <1>5, <2>1, ChainClosed
  <1>7. PICK e : e = [At(p) EXCEPT !.size = size]
    OBVIOUS
  <1>8. e \in Slot /\ e.kind = At(p).kind /\ e.first = At(p).first
    <2>1. At(p).kind \in {"file", "dir"}
      BY <1>3
    <2>2. e \in Slot
      BY <1>3, <1>7, <2>1, SlotTypes
    <2>3. e.kind = At(p).kind /\ e.first = At(p).first
      BY <1>3, <1>7 DEF Slot, End, Gone, Dot, Text, Entry
    <2> QED BY <2>2, <2>3
  <1>9. PICK j \in Jobs : j = PutSlot(p, e)
    BY <1>3, <1>8, JobTypes
  <1>10. Sizing(D, j)'
    <2>1. j.do = "slot" /\ j.c = p[1] /\ j.i = p[2] /\ j.e = e /\ p = <<p[1], p[2]>>
      BY <1>3, <1>9 DEF PutSlot, Job
    <2> QED BY <1>2, <1>3, <1>5, <1>8, <2>1 DEF Sizing
  <1>11. todo' = <<WriteText(x, size)>> \/ todo' = <<WriteText(x, size), j>>
    BY <1>2, <1>4, <1>7, <1>9 DEF WriteJobs
  <1>12. Writing(D)'
    <2>1. size \in Nat
      OBVIOUS
    <2>2. target' \in Ent(D, {})' /\ At(target)'.kind = "file" /\ x \in Chain(At(target).first)'
      BY <1>2, <1>3, <1>5, <1>6
    <2> QED BY <1>5, <1>10, <1>11, <2>1, <2>2 DEF Writing
  <1> QED BY <1>12 DEF Stage

LEMMA InitTidy == Init => Tidy
  <1> SUFFICES ASSUME Init PROVE Resting({Root})
    BY Bounds DEF Tidy, Stage
  <1>1. PICK n \in Name :
          data = [c \in Cluster |-> CASE c = Root -> [Fill(End) EXCEPT ![1] = Entry("file", n, 3, 2)]
                                      [] c \in {3, 4} -> Fill(Text) [] OTHER -> Fill(End)]
    BY DEF Init
  <1>2. /\ Root = 2 /\ 2 \in Cluster /\ 3 \in Cluster /\ 4 \in Cluster /\ fat[3] = 4 /\ fat[2] = EOF
        /\ fat[4] = EOF /\ \A c \in Cluster \ {2, 3, 4} : fat[c] = FREE
        /\ \A c \in Cluster : fat[c] \in Cluster <=> c = 3
        /\ FREE \notin Cluster /\ EOF # FREE
    BY DEF Init, Cluster, Root, EOF, FREE
  <1>3. data[Root][1] = Entry("file", n, 3, 2) /\ \A i \in 2 .. Slots : data[Root][i] = End
    BY <1>1, <1>2 DEF Fill
  <1> DEFINE D == {Root}
             p == <<Root, 1>>
  <1>4. Ent(D, {}) = {p} /\ At(p).first = 3 /\ At(p).kind = "file"
    <2>1. At(p) = Entry("file", n, 3, 2) /\ IsEntry(At(p)) /\ At(p).first = 3 /\ At(p).kind = "file"
      BY <1>3 DEF At, Entry, IsEntry
    <2>2. ~IsEntry(End)
      BY DEF IsEntry, End, Entry
    <2>3. ASSUME NEW q \in Ent(D, {}) PROVE q = p
      <3>1. PICK i \in 1 .. Slots : q = <<Root, i>>
        BY DEF Ent
      <3>2. i = 1
        <4>1. i # 1 => i \in 2 .. Slots
          OBVIOUS
        <4> QED BY <1>3, <2>2, <3>1, <4>1 DEF Ent, At
      <3> QED BY <3>1, <3>2
    <2>4. p \in Ent(D, {})
      BY <2>1, Bounds DEF Ent
    <2> QED BY <2>1, <2>3, <2>4
  <1> HIDE DEF D, p
  <1>5. D \in SUBSET Cluster /\ \A c : c \in D <=> c = 2
    BY <1>2 DEF D
  <1>6. \A c : (Linked(c) <=> \E e \in Cluster : fat[e] = c) /\ (Named(D, {}, c) <=> c = 3)
    BY <1>4 DEF Linked, Named
  <1>7. Apart(D, {})
    BY <1>2, <1>4, <1>5, <1>6 DEF Apart
  <1>8. LinksTaken(FREE) /\ NamesTaken(D, {}, FREE) /\ DirsTaken(D, FREE)
    BY <1>2, <1>4, <1>5 DEF LinksTaken, NamesTaken, DirsTaken, EOF, FREE
  <1>9. Held(D, {}, FREE)
    BY <1>2, <1>6 DEF Held
  <1>10. Ranked(D, {})
    <2> DEFINE r == [c \in Cluster |-> c]
    <2>1. r \in [Cluster -> Nat] /\ r[2] = 2 /\ r[3] = 3 /\ r[4] = 4
      BY <1>2, Bounds
    <2>2. \A c \in Cluster : fat[c] \in Cluster => r[c] < r[fat[c]]
      BY <1>2, <2>1
    <2>3. \A q \in Ent(D, {}) : r[q[1]] < r[At(q).first]
      BY <1>2, <1>4, <2>1 DEF p
    <2> HIDE DEF r
    <2> QED BY <2>1, <2>2, <2>3 DEF Ranked
  <1>11. Shown(D, {})
    <2>1. ASSUME NEW i \in 1 .. Slots, NEW k \in i + 1 .. Slots PROVE ~IsEntry(data[Root][k])
      <3>1. k \in 2 .. Slots
        OBVIOUS
      <3> QED BY <1>3, <3>1 DEF IsEntry, End, Entry
    <2> QED BY <1>2, <1>5, <2>1 DEF Shown
  <1>12. todo = <<>>
    BY DEF Init
  <1> QED BY <1>7, <1>8, <1>9, <1>10, <1>11, <1>12 DEF Full, Resting, D

(* A disk that a step leaves in order was in order, and nothing was lost.  *)
LEMMA NoHarm ==
  ASSUME NEW lost \in BOOLEAN, Step(lost), harm' = "none"
  PROVE  Step(FALSE) /\ harm = "none"
  <1>1. CASE lost = FALSE
    BY <1>1, JobStep
  <1>2. CASE lost = TRUE
    <2>1. \A f, d : ~Put(TRUE, f, d)
      BY DEF Put, Hurt
    <2>2. /\ todo # <<>> /\ Head(todo).do = "free" /\ fat[Head(todo).c] = FREE /\ Quit
          /\ UNCHANGED <<fat, data, harm>>
      BY <1>2, <2>1 DEF Step, DoMark, DoSector, DoSlot, DoFree, DoText
    <2> QED BY <2>2 DEF Step, DoFree
  <1> QED BY <1>1, <1>2

LEMMA StageStep ==
  ASSUME TypeOK, NEW D \in SUBSET Cluster, Stage(D), Step(FALSE)
  PROVE  (\E C \in SUBSET Cluster : Stage(C)') /\ Untouched
  <1>1. CASE Resting(D)
    BY <1>1 DEF Resting, Step
  <1>2. CASE Grown(D)
    <2>1. PICK j \in Jobs : todo = <<j>> /\ j.do \in {"newfile", "newfolder"}
      BY <1>2 DEF Grown, Later
    <2>2. Head(todo) = j
      BY <2>1, Seqs
    <2> QED BY <2>1, <2>2, JobStep
  <1> QED
    BY <1>1, <1>2, MakingStep, MarkingStep, AddingStep, ClearingStep, GrowingStep, PlacingStep,
       RemovingStep, DroppingStep, WritingStep, ResizingStep DEF Stage

(* The first job of each stage, but two, is one that writes.               *)
LEMMA StageGo ==
  ASSUME TypeOK, NEW D \in SUBSET Cluster, Stage(D), Go
  PROVE  Grown(D)
  <1>1. todo # <<>> /\ Head(todo).do \in {"newfile", "newfolder"}
    BY DEF Go, DoNewFile, DoNewFolder
  <1>2. \A c, v, b, p, e, n : /\ Mark(c, v).do = "fat" /\ Sector(c, b).do = "sector"
                              /\ PutSlot(p, e).do = "slot" /\ FreeFrom(c).do = "free"
                              /\ WriteText(c, n).do = "text"
    BY DEF Mark, Sector, PutSlot, FreeFrom, WriteText, Job
  <1>3. CASE Making(D)
    BY <1>1, <1>2, <1>3, Seqs DEF Making, FileJobs, FolderJobs
  <1>4. ASSUME NEW c, \/ \E y : todo = <<Mark(c, EOF), y>>
                      \/ \E y, z : todo = <<Mark(c, EOF), y, z>>
                      \/ \E b : todo = <<Sector(c, b)>>
                      \/ \E b, y : todo = <<Sector(c, b), y>>
                      \/ todo = <<Mark(c, EOF)>>
        PROVE  FALSE
    <2>1. \/ Head(todo) = Mark(c, EOF) \/ \E b : Head(todo) = Sector(c, b)
      BY <1>4, Seqs
    <2> QED BY <1>1, <1>2, <2>1
  <1>5. /\ ~Marking(D) /\ ~Adding(D) /\ ~Clearing(D) /\ ~Placing(D)
    <2>1. ~Marking(D)
      BY <1>4 DEF Marking
    <2>2. ~Adding(D)
      BY <1>4 DEF Adding
    <2>3. ~Clearing(D)
      BY <1>4 DEF Clearing
    <2>4. ~Placing(D)
      BY <1>4 DEF Placing
    <2> QED BY <2>1, <2>2, <2>3, <2>4
  <1>6. CASE Growing(D)
    <2>1. \A a, b, c, d : Head(<<a, b, c, d>>) = a
      OBVIOUS
    <2> QED BY <1>1, <1>2, <1>6, <2>1 DEF Growing, Grow
  <1>7. CASE Removing(D) \/ Dropping(D)
    BY <1>1, <1>2, <1>7, Seqs DEF Removing, Dropping
  <1>8. CASE Writing(D) \/ Resizing(D)
    BY <1>1, <1>2, <1>8, Seqs DEF Writing, Resizing, Sizing
  <1>9. CASE Resting(D)
    BY <1>1, <1>9 DEF Resting
  <1> QED BY <1>3, <1>5, <1>6, <1>7, <1>8, <1>9 DEF Stage

(* Nothing that the stages speak of changes.                               *)
LEMMA Stutter ==
  ASSUME NEW D \in SUBSET Cluster, Stage(D), UNCHANGED <<fat, data, todo, target>>
  PROVE  Stage(D)'
  <1>1. fat' = fat /\ data' = data /\ todo' = todo /\ target' = target
    OBVIOUS
  <1>2. /\ \A U : Ent(D, U)' = Ent(D, U)
        /\ \A p : At(p)' = At(p) /\ Open(p)' = Open(p)
        /\ \A c : Linked(c)' = Linked(c) /\ Chain(c)' = Chain(c) /\ Fresh(D, c)' = Fresh(D, c)
        /\ \A j, c : Later(j, c)' = Later(j, c)
    BY <1>1 DEF Ent, At, Open, Linked, Chain, Fresh, Later
  <1>3. \A U, c : Named(D, U, c)' = Named(D, U, c)
    BY <1>2 DEF Named
  <1>4. \A U, x : Full(D, U, x) => Full(D, U, x)'
    BY <1>1, <1>2, <1>3
      DEF Full, Apart, LinksTaken, NamesTaken, DirsTaken, Held, Ranked, Shown
  <1>5. CASE Resting(D) \/ Marking(D)
    <2>1. Resting(D) => Resting(D)'
      BY <1>1, <1>4 DEF Resting
    <2>2. Marking(D) => Marking(D)'
      BY <1>1, <1>2, <1>4 DEF Marking
    <2> QED BY <1>5, <2>1, <2>2 DEF Stage
  <1>6. CASE Making(D)
    <2>1. Making(D)'
      BY <1>1, <1>2, <1>4, <1>6 DEF Making
    <2> QED BY <2>1 DEF Stage
  <1>7. CASE Adding(D)
    <2>1. Adding(D)'
      BY <1>1, <1>2, <1>3, <1>4, <1>7 DEF Adding
    <2> QED BY <2>1 DEF Stage
  <1>8. CASE Clearing(D)
    <2>1. Clearing(D)'
      BY <1>1, <1>2, <1>4, <1>8 DEF Clearing
    <2> QED BY <2>1 DEF Stage
  <1>9. CASE Growing(D) \/ Grown(D)
    <2>1. Growing(D) => Growing(D)'
      BY <1>1, <1>2, <1>4 DEF Growing
    <2>2. Grown(D) => Grown(D)'
      BY <1>1, <1>2, <1>4 DEF Grown
    <2> QED BY <1>9, <2>1, <2>2 DEF Stage
  <1>10. CASE Placing(D)
    <2>1. Placing(D)'
      BY <1>1, <1>2, <1>4, <1>10 DEF Placing
    <2> QED BY <2>1 DEF Stage
  <1>11. CASE Removing(D) \/ Dropping(D)
    <2>1. \A p, x : Freeing(D, p, x) => Freeing(D, p, x)'
      BY <1>1, <1>2, <1>3
        DEF Freeing, Apart, LinksTaken, NamesTaken, Held, Ranked, Shown
    <2>2. \A p, x : Loose(D, p, x) => Loose(D, p, x)'
      BY <1>1, <1>2 DEF Loose
    <2>3. Removing(D) => Removing(D)'
      BY <1>1, <2>1, <2>2 DEF Removing
    <2>4. Dropping(D) => Dropping(D)'
      BY <1>1, <1>2, <2>1 DEF Dropping
    <2> QED BY <1>11, <2>3, <2>4 DEF Stage
  <1>12. CASE Writing(D) \/ Resizing(D)
    <2>1. \A j : Sizing(D, j) => Sizing(D, j)'
      BY <1>1, <1>2 DEF Sizing
    <2>2. Writing(D) => Writing(D)'
      BY <1>1, <1>2, <1>4, <2>1 DEF Writing
    <2>3. Resizing(D) => Resizing(D)'
      BY <1>1, <1>4, <2>1 DEF Resizing
    <2> QED BY <1>12, <2>2, <2>3 DEF Stage
  <1> QED BY <1>5, <1>6, <1>7, <1>8, <1>9, <1>10, <1>11, <1>12 DEF Stage

LEMMA TidyStep ==
  ASSUME TypeOK, Tidy, [Next]_vars
  PROVE  Tidy' /\ (harm' = "none" => Untouched)
  <1>1. TypeOK
    OBVIOUS
  <1>2. CASE UNCHANGED vars
    <2>1. UNCHANGED <<fat, data, todo, target, harm>>
      BY <1>2 DEF vars
    <2>2. Untouched
      BY <2>1, StillUntouched
    <2>3. \A D \in SUBSET Cluster : Stage(D) => Stage(D)'
      BY <2>1, Stutter
    <2> QED BY <2>1, <2>2, <2>3 DEF Tidy
  <1>3. ASSUME harm' = "none", Next
        PROVE  (\E C \in SUBSET Cluster : Stage(C)') /\ Untouched
    <2>1. ASSUME NEW path \in Path, NEW n \in Name,
                 \/ Fat32Create(path, n) \/ Fat32Mkdir(path, n) \/ Fat32Remove(path, n)
                 \/ \E size \in Size : Fat32Write(path, n, size)
          PROVE  (\E C \in SUBSET Cluster : Stage(C)') /\ Untouched
      <3>1. todo = <<>> /\ harm = "none" /\ UNCHANGED <<fat, data>>
        BY <1>3, <2>1, Unhurt DEF Fat32Create, Fat32Mkdir, Fat32Remove, Fat32Write
      <3>2. PICK D \in SUBSET Cluster : Stage(D)
        BY <3>1 DEF Tidy
      <3>3. Resting(D)
        BY <3>1, <3>2
          DEF Stage, Making, Marking, Adding, Clearing, Growing, Grown, Placing, Removing, Dropping,
              Writing, Resizing, FileJobs, FolderJobs, Grow
      <3> QED BY <1>1, <1>3, <2>1, <3>1, <3>3, CreateStart, MkdirStart, RemoveStart, WriteStart,
                 StillUntouched
    <2>2. ASSUME NEW lost \in BOOLEAN, Step(lost)
          PROVE  (\E C \in SUBSET Cluster : Stage(C)') /\ Untouched
      <3>1. Step(FALSE) /\ harm = "none"
        BY <1>3, <2>2, NoHarm
      <3> QED BY <1>1, <3>1, StageStep DEF Tidy
    <2>3. CASE Go
      <3>1. harm = "none" /\ UNCHANGED <<fat, data>>
        BY <1>3, <2>3 DEF Go, DoNewFile, DoNewFolder, HurtIf, Hurt
      <3>2. PICK D \in SUBSET Cluster : Stage(D)
        BY <3>1 DEF Tidy
      <3> QED BY <1>1, <1>3, <2>3, <3>1, <3>2, StageGo, GrownStep, StillUntouched
    <2>4. CASE Crash \/ Garble
      BY <1>3, <2>4 DEF Crash, Garble, Hurt
    <2> QED BY <1>3, <2>1, <2>2, <2>3, <2>4 DEF Next
  <1> QED BY <1>2, <1>3 DEF Tidy

(* At each stage the clusters keep apart; what is not written yet is still *)
(* among the jobs.                                                         *)
LEMMA StageApart ==
  ASSUME NEW D \in SUBSET Cluster, Stage(D)
  PROVE  \E U : Apart(D, U) /\ \A c \in U : Unwritten(c)
  <1>1. \A x : Full(D, {}, x) => \E U : Apart(D, U) /\ \A c \in U : Unwritten(c)
    BY DEF Full
  <1>2. ASSUME NEW c, NEW x, Full(D, {c}, x), Unwritten(c)
        PROVE  \E U : Apart(D, U) /\ \A y \in U : Unwritten(y)
    BY <1>2 DEF Full
  <1>3. \A c, b : Sector(c, b).do = "sector" /\ Sector(c, b).c = c
    BY DEF Sector, Job
  <1>4. CASE Adding(D)
    <2>1. PICK c \in D : /\ \/ todo = <<Mark(c, EOF), Sector(c, Folder)>>
                            \/ \E j \in Jobs : todo = <<Mark(c, EOF), Sector(c, Fill(End)), j>>
                         /\ Full(D, {c}, c)
      BY <1>4 DEF Adding
    <2>2. 2 \in DOMAIN todo /\ \E b : todo[2] = Sector(c, b)
      <3>1. CASE todo = <<Mark(c, EOF), Sector(c, Folder)>>
        BY <3>1
      <3>2. ASSUME NEW j \in Jobs, todo = <<Mark(c, EOF), Sector(c, Fill(End)), j>>
            PROVE  2 \in DOMAIN todo /\ todo[2] = Sector(c, Fill(End))
        BY <3>2
      <3> QED BY <2>1, <3>1, <3>2
    <2>3. Unwritten(c)
      BY <1>3, <2>2 DEF Unwritten
    <2> QED BY <1>2, <2>1, <2>3
  <1>5. CASE Clearing(D)
    <2>1. PICK c \in D : /\ \/ todo = <<Sector(c, Folder)>>
                            \/ \E j \in Jobs : todo = <<Sector(c, Fill(End)), j>>
                         /\ Full(D, {c}, FREE)
      BY <1>5 DEF Clearing
    <2>2. 1 \in DOMAIN todo /\ \E b : todo[1] = Sector(c, b)
      <3>1. CASE todo = <<Sector(c, Folder)>>
        BY <3>1
      <3>2. ASSUME NEW j \in Jobs, todo = <<Sector(c, Fill(End)), j>>
            PROVE  1 \in DOMAIN todo /\ todo[1] = Sector(c, Fill(End))
        BY <3>2
      <3> QED BY <2>1, <3>1, <3>2
    <2>3. Unwritten(c)
      BY <1>3, <2>2 DEF Unwritten
    <2> QED BY <1>2, <2>1, <2>3
  <1>6. CASE Removing(D) \/ Dropping(D)
    <2>1. Apart(D, {})
      BY <1>6 DEF Removing, Dropping, Freeing
    <2> QED BY <2>1
  <1>7. CASE Resting(D) \/ Making(D) \/ Marking(D) \/ Growing(D) \/ Grown(D)
    BY <1>1, <1>7 DEF Resting, Making, Marking, Growing, Grown
  <1>8. CASE Placing(D) \/ Writing(D) \/ Resizing(D)
    BY <1>1, <1>8 DEF Placing, Writing, Resizing
  <1> QED BY <1>4, <1>5, <1>6, <1>7, <1>8 DEF Stage

(* What is taken leads to what is taken, and to an end mark.               *)
LEMMA TakenChain ==
  ASSUME TypeOK, LinksTaken(FREE), NEW c \in Cluster, fat[c] # FREE
  PROVE  /\ \A b \in Chain(c) : fat[b] # FREE
         /\ WalksEnd /\ harm = "none" => Ending(c) # {}
  <1> DEFINE S == {x \in Cluster : fat[x] # FREE}
  <1>1. c \in S /\ \A x \in S : fat[x] \in Cluster => fat[x] \in S
    BY Bounds DEF LinksTaken
  <1>2. Chain(c) \subseteq S
    <2>1. S \in SUBSET Cluster
      OBVIOUS
    <2> HIDE DEF S
    <2> QED BY <1>1, <2>1, ChainLeast
  <1>3. ASSUME NEW b \in Chain(c), fat[b] \notin Cluster PROVE b \in Ending(c)
    BY <1>2, <1>3 DEF Ending, TypeOK
  <1> QED BY <1>2, <1>3 DEF WalksEnd

(* The listing of a directory shows every entry in its clusters.           *)
LEMMA LiveAll ==
  ASSUME TypeOK, NEW D \in SUBSET Cluster, Full(D, {}, FREE), todo = <<>>, NEW d \in D,
         NEW p \in Ent(D, {}), p[1] \in Chain(d)
  PROVE  p \in Live(d)
  <1>1. \A c : ~Unwritten(c)
    BY DEF Unwritten
  <1>2. p[2] \in 1 .. Slots /\ p = <<p[1], p[2]>> /\ IsEntry(At(p))
    BY EntType
  <1>3. p \in Places(d)
    BY <1>2 DEF Places
  <1>4. ASSUME NEW q \in Places(d), At(q) = End, Before(q, p) PROVE FALSE
    <2>1. q[1] \in D /\ q[2] \in 1 .. Slots
      BY ChainSide DEF Places, Full
    <2>2. data[q[1]][q[2]] = End
      BY <1>4 DEF At
    <2>3. fat[q[1]] \notin Cluster /\ \A k \in q[2] + 1 .. Slots : ~IsEntry(data[q[1]][k])
      BY <2>1, <2>2 DEF Full, Shown
    <2>4. CASE p[1] = q[1] /\ q[2] < p[2]
      <3>1. p[2] \in q[2] + 1 .. Slots
        BY <1>2, <2>1, <2>4
      <3> QED BY <1>2, <2>3, <2>4, <3>1 DEF At
    <2>5. CASE p[1] # q[1] /\ p[1] \in Chain(q[1])
      <3>1. Chain(q[1]) \subseteq {q[1]}
        <4>1. {q[1]} \in SUBSET Cluster /\ \A x \in {q[1]} : fat[x] \in Cluster => fat[x] \in {q[1]}
          BY <2>1, <2>3
        <4> QED BY <4>1, ChainLeast
      <3> QED BY <2>5, <3>1
    <2> QED BY <1>4, <2>4, <2>5 DEF Before
  <1> QED BY <1>1, <1>2, <1>3, <1>4 DEF Live, IsEntry

(* The directories: the root, and what they show as a directory.           *)
LEMMA FolderTree ==
  ASSUME TypeOK, NEW D \in SUBSET Cluster, Full(D, {}, FREE), todo = <<>>
  PROVE  /\ Root \in Folders
         /\ \A d \in Folders : \A p \in Live(d) : At(p).kind = "dir" => At(p).first \in Folders
  <1> DEFINE in == [d \in Cluster |-> {At(p).first : p \in {q \in Live(d) : At(q).kind = "dir"}}]
             Closed(S) == Root \in S /\ \A x \in S : in[x] \subseteq S
  <1>1. Folders = {d \in Cluster : \A S \in SUBSET Cluster : Closed(S) => d \in S}
    BY DEF Folders
  <1>2. ASSUME NEW d \in Folders, NEW p \in Live(d), At(p).kind = "dir"
        PROVE  At(p).first \in Cluster /\ At(p).first \in in[d] /\ d \in Cluster
    <2>1. d \in Cluster
      BY <1>1
    <2>2. p \in Place /\ At(p) \in Slot /\ IsEntry(At(p))
      BY <1>2, PlaceTypes DEF Live, IsEntry
    <2>3. At(p).first \in Cluster
      BY <2>2, SlotTypes DEF IsEntry
    <2> QED BY <1>2, <2>1, <2>3
  <1> HIDE DEF in
  <1>3. ASSUME NEW d \in Folders, NEW p \in Live(d), At(p).kind = "dir"
        PROVE  At(p).first \in Folders
    <2>1. \A S \in SUBSET Cluster : Closed(S) => At(p).first \in S
      BY <1>1, <1>2, <1>3
    <2> QED BY <1>1, <1>2, <1>3, <2>1
  <1>4. Root \in Folders
    BY <1>1, Bounds
  <1> QED BY <1>3, <1>4

(* When no operation is under way, what is taken is owned: the cluster of  *)
(* least rank that is not would be linked or named by one that is.         *)
LEMMA TakenOwned ==
  ASSUME TypeOK, NEW D \in SUBSET Cluster, Full(D, {}, FREE), todo = <<>>,
         NEW c \in Cluster, fat[c] # FREE
  PROVE  c \in Chain(Root) \/ \E p \in Listed : c \in Chain(At(p).first)
  <1> DEFINE Owned(x) == x \in Chain(Root) \/ \E p \in Listed : x \in Chain(At(p).first)
             X == {x \in Cluster : fat[x] # FREE /\ ~Owned(x)}
  <1> SUFFICES ASSUME c \in X PROVE FALSE
    OBVIOUS
  <1>1. PICK r \in [Cluster -> Nat] :
          /\ \A x \in Cluster : fat[x] \in Cluster => r[x] < r[fat[x]]
          /\ \A p \in Ent(D, {}) : r[p[1]] < r[At(p).first]
    BY DEF Full, Ranked
  <1>2. PICK x \in X : \A y \in X : r[x] <= r[y]
    <2> DEFINE R == {r[y] : y \in X}
    <2>1. R \in SUBSET Nat /\ R # {}
      BY <1>1
    <2>2. PICK m \in R : \A k \in R : m <= k
      <3> HIDE DEF R
      <3> QED BY <2>1, LeastOf
    <2> QED BY <2>2
  <1>3. \A y \in Cluster : fat[y] # FREE /\ r[y] < r[x] => Owned(y)
    BY <1>1, <1>2
  <1>4. x \in Cluster /\ fat[x] # FREE /\ ~Owned(x) /\ FREE \notin Cluster
    BY <1>2, Bounds
  <1> HIDE DEF X
  <1>5. \A p \in Listed : p \in Ent(D, {}) /\ At(p).first \in Cluster
    <2>1. \A p \in Listed : p \in Ent(D, {})
      BY ListedIn DEF Full
    <2> QED BY <2>1, EntType
  <1>6. CASE x = Root
    BY <1>4, <1>6, ChainClosed
  <1>7. CASE Linked(x)
    <2>1. PICK e \in Cluster : fat[e] = x
      BY <1>7 DEF Linked
    <2>2. Owned(e)
      BY <1>1, <1>3, <1>4, <2>1
    <2>3. CASE e \in Chain(Root)
      BY <1>4, <2>1, <2>3, ChainClosed, Bounds
    <2>4. ASSUME NEW p \in Listed, e \in Chain(At(p).first) PROVE Owned(x)
      BY <1>4, <1>5, <2>1, <2>4, ChainClosed
    <2> QED BY <1>4, <2>2, <2>3, <2>4
  <1>8. CASE Named(D, {}, x)
    <2>1. PICK p \in Ent(D, {}) : At(p).first = x
      BY <1>8 DEF Named
    <2>2. p[1] \in D /\ p[1] \in Cluster
      BY EntType
    <2>3. Owned(p[1])
      BY <1>1, <1>3, <2>1, <2>2, Bounds DEF Full, DirsTaken
    <2>4. ASSUME NEW d \in Folders, p[1] \in Chain(d) PROVE FALSE
      <3>1. d \in D
        BY ListedIn DEF Full
      <3>2. p \in Listed
        BY <2>4, <3>1, LiveAll DEF Listed
      <3> QED BY <1>4, <2>1, <3>2, ChainClosed
    <2>5. CASE p[1] \in Chain(Root)
      BY <2>4, <2>5, FolderTree
    <2>6. ASSUME NEW q \in Listed, p[1] \in Chain(At(q).first) PROVE FALSE
      <3>1. PICK d \in Folders : q \in Live(d)
        BY DEF Listed
      <3>2. At(q).first \in D
        BY <1>5, <2>2, <2>6, ChainSide DEF Full
      <3>3. At(q).first \in Folders
        BY <1>5, <3>1, <3>2, FolderTree DEF Full, Apart
      <3> QED BY <2>4, <2>6, <3>3
    <2> QED BY <2>3, <2>5, <2>6
  <1> QED BY <1>4, <1>6, <1>7, <1>8, Bounds DEF Full, Held

LEMMA TidyLeaks == TypeOK /\ Tidy /\ WalksEnd => NothingLeaks
  <1> SUFFICES ASSUME TypeOK, Tidy, WalksEnd, harm = "none", todo = <<>>
               PROVE  /\ Ending(Root) # {} /\ \A p \in Listed : Ending(At(p).first) # {}
                      /\ Chain(Root) \cup UNION {Chain(At(p).first) : p \in Listed}
                           = {c \in Cluster : fat[c] # FREE}
    BY DEF NothingLeaks, Owners
  <1>1. TypeOK
    OBVIOUS
  <1>2. PICK D \in SUBSET Cluster : Full(D, {}, FREE)
    BY DEF Tidy, Stage, Resting, Making, Marking, Adding, Clearing, Growing, Grown, Placing,
           Removing, Dropping, Writing, Resizing, FileJobs, FolderJobs, Grow
  <1>3. Root \in Cluster /\ fat[Root] # FREE /\ LinksTaken(FREE)
    BY <1>2, Bounds DEF Full, Apart, DirsTaken
  <1>4. ASSUME NEW p \in Listed PROVE At(p).first \in Cluster /\ fat[At(p).first] # FREE
    <2>1. p \in Ent(D, {})
      BY <1>1, <1>2, ListedIn DEF Full
    <2>2. At(p).first \in Cluster
      BY <1>1, <2>1, EntType
    <2> QED BY <1>2, <2>1, <2>2, Bounds DEF Full, NamesTaken
  <1>5. Ending(Root) # {} /\ \A p \in Listed : Ending(At(p).first) # {}
    BY <1>1, <1>3, <1>4, TakenChain
  <1>6. /\ \A b \in Chain(Root) : b \in Cluster /\ fat[b] # FREE
        /\ \A p \in Listed : \A b \in Chain(At(p).first) : b \in Cluster /\ fat[b] # FREE
    <2>1. \A b \in Chain(Root) : b \in Cluster /\ fat[b] # FREE
      BY <1>1, <1>3, TakenChain, ChainIn
    <2>2. ASSUME NEW p \in Listed PROVE \A b \in Chain(At(p).first) : b \in Cluster /\ fat[b] # FREE
      BY <1>1, <1>3, <1>4, TakenChain, ChainIn
    <2> QED BY <2>1, <2>2
  <1>7. \A c \in Cluster : fat[c] # FREE =>
          c \in Chain(Root) \/ \E p \in Listed : c \in Chain(At(p).first)
    BY <1>1, <1>2, TakenOwned
  <1> QED BY <1>5, <1>6, <1>7

LEMMA Always == Spec => [](TypeOK /\ Tidy)
  <1>1. Init => Tidy
    BY InitTidy
  <1>2. TypeOK /\ Tidy /\ [Next]_vars => Tidy'
    BY TidyStep
  <1> QED BY <1>1, <1>2, TypeCorrect, PTL DEF Spec

(* While nothing is lost and nobody stops, no cluster belongs to two       *)
(* entries, or to an entry and the root, also between the writes of        *)
(* fat32_create, fat32_mkdir, fat32_remove and fat32_write.                *)
THEOREM OneOwnerHolds == Spec => []OneOwner
  <1>1. TypeOK /\ Tidy => OneOwner
    <2>1. CASE harm = "none"
      BY <2>1, StageApart, ApartOwner DEF Tidy
    <2>2. CASE harm # "none"
      BY <2>2 DEF OneOwner
    <2> QED BY <2>1, <2>2
  <1> QED BY <1>1, Always, PTL

(* When an operation is over every chain has its end mark, and the         *)
(* clusters the FAT has as taken are those an entry or the root owns:      *)
(* find_free_fat_entry loses none and the loop of fat32_remove gives back  *)
(* all of them.                                                            *)
THEOREM NothingLeaksHolds == Spec => []NothingLeaks
  BY TidyLeaks, Always, WalksEndHolds, PTL

(* No step of an operation on one file changes the entry, the links or the *)
(* text of another that is listed.                                         *)
THEOREM OthersUntouchedHolds == Spec => OthersUntouched
  <1>1. TypeOK /\ Tidy /\ [Next]_vars =>
          [harm' = "none" =>
             LET own == Owners IN
             \A p \in DOMAIN own \ {target, target'} :
               At(p).kind = "file" =>
                 /\ At(p)' = At(p)
                 /\ \A c \in own[p] : data'[c] = data[c] /\ fat'[c] = fat[c]]_vars
    <2> SUFFICES ASSUME TypeOK, Tidy, [Next]_vars, harm' = "none"
                 PROVE  LET own == Owners IN
                        \A p \in DOMAIN own \ {target, target'} :
                          At(p).kind = "file" =>
                            /\ At(p)' = At(p)
                            /\ \A c \in own[p] : data'[c] = data[c] /\ fat'[c] = fat[c]
      OBVIOUS
    <2>1. Untouched
      BY TidyStep
    <2> QED BY <2>1 DEF Untouched, Owners
  <1> QED BY <1>1, Always, PTL DEF Spec, OthersUntouched
=============================================================================
