-------------------------------- MODULE Fat32 --------------------------------
(***************************************************************************)
(* The FAT32 file system (kernel/fs/fat32.c): what is on the disk and the  *)
(* sector writes each operation makes, one step each, in their order.      *)
(* Only the shell changes files and only one shell runs, so one operation  *)
(* is under way at a time; it may stop between two writes (the power goes, *)
(* the kernel halts), and a write may be lost, as the disk drivers report  *)
(* nothing.  Nothing is repaired when the disk is mounted again.  A read   *)
(* that fails hands over what was read before, which may be written back,  *)
(* and a write given up may come late with other bytes: Garble is all that *)
(* may come of these, and nothing is followed after it.                    *)
(*                                                                         *)
(* A cluster is one sector, what mkfs.fat gives the 64 MB disk of "fx      *)
(* disk", and a sector holds Slots directory entries.  The copies of the   *)
(* FAT are never read and are left out.  write_path_filename writes        *)
(* through an uninitialized pointer: if that is a fault it is a crash, and *)
(* otherwise the operation goes on; memory it may overwrite is not here.   *)
(***************************************************************************)
EXTENDS Integers, Sequences

CONSTANTS
  MaxCluster, \* the last cluster, total_clusters + 1; the first is Root = 2
  Slots,      \* ENTRIES_PER_SECTOR
  Name,       \* names, as their 8.3 form
  Size,       \* how many sectors may be written at once
  Stray,      \* what a disk may hold that other bytes were written to
  MaxAfter    \* bound: operations begun once the disk is in disorder

ASSUME Fat32Assumption ==
  /\ MaxCluster \in Nat /\ MaxCluster > 3 /\ Slots \in Nat /\ Slots > 1 /\ "none" \notin Name
  /\ 2 \in Size /\ Size \subseteq Nat \ {0} /\ MaxAfter \in Nat

VARIABLES
  fat,     \* the allocation table
  data,    \* the sector of each cluster, as directory entries
  todo,    \* what the operation under way has still to do
  target,  \* the entry it makes, rewrites or deletes, or NoPlace
  harm,    \* what first left the disk in disorder, or "none"
  after    \* operations begun since

vars == <<fat, data, todo, target, harm, after>>

Root    == 2
Cluster == Root .. MaxCluster
FREE    == 0              \* also FAT32_ERROR_CODE
EOF     == MaxCluster + 1       \* 0x0FFFFFFF

(* A slot of a sector: the end of the directory (0x00), a deleted entry    *)
(* (0xE5), a file, a directory, one of "." and "..", or part of a file's   *)
(* text, which no name of a file matches.                                  *)
NoName == "none"
Entry(k, n, c, s) == [kind |-> k, name |-> n, first |-> c, size |-> s]
End    == Entry("end", NoName, 0, 0)
Gone   == Entry("gone", NoName, 0, 0)
Dot    == Entry("dot", NoName, 0, 0)
Text   == Entry("text", NoName, 0, 0)
Slot   == {End, Gone, Dot, Text} \cup
          [kind : {"file", "dir"}, name : Name, first : Cluster, size : {0} \cup Size]

Fill(e) == [i \in 1 .. Slots |-> e]
Folder  == [i \in 1 .. Slots |-> IF i <= 2 THEN Dot ELSE End]
Place   == Cluster \X (1 .. Slots)
NoPlace == <<0, 0>>
At(p)   == data[p[1]][p[2]]

-----------------------------------------------------------------------------
(* Reading the disk.  The clusters the links lead to from c: the least set *)
(* that holds c and is closed under fat.                                   *)
Chain(c) ==
  LET closed == {S \in SUBSET Cluster : c \in S /\ \A x \in S : fat[x] \in Cluster => fat[x] \in S}
  IN {b \in Cluster : c \in Cluster /\ \A S \in closed : b \in S}

(* The one with the end mark; none if get_next_cluster reports an error.   *)
Ending(c) == {b \in Chain(c) : fat[b] = EOF}

(* The slots of the directory at c, and the order they are searched in.    *)
Places(c)    == Chain(c) \X (1 .. Slots)
Before(p, q) == IF p[1] = q[1] THEN p[2] < q[2] ELSE q[1] \in Chain(p[1])

(* The first of some slots of one directory, if any.                       *)
First(hits) == {p \in hits : \A q \in hits : ~Before(q, p)}

(* The entry with name n: the search ends at 0x00.                         *)
Find(c, n)   == {p \in First({q \in Places(c) : At(q) = End \/ At(q).name = n}) : At(p) # End}
Vacant(c)    == First({q \in Places(c) : At(q) \in {End, Gone}})
Enter(c, n)  == IF Find(c, n) = {} THEN 0 ELSE At(CHOOSE p \in Find(c, n) : TRUE).first

(* find_cluster_for_path, of a path through no directory or through one,   *)
(* and whether what it takes for that directory is none.                   *)
Resolve(path)   == IF path = <<>> THEN Root ELSE Enter(Root, path[1])
NotFolder(path) == path # <<>> /\ \E q \in Find(Root, path[1]) : At(q).kind # "dir"

(* find_free_fat_entry.                                                    *)
FirstFreeBeyond == {c \in Root .. MaxCluster + 1 :    \* mutation: no check of the end
  (c = MaxCluster + 1 \/ fat[c] = FREE) /\ \A e \in Root .. c - 1 : fat[e] # FREE}
FirstFreeTaken == {c \in Cluster :               \* mutation: EOF taken for free
  fat[c] \in {FREE, EOF} /\ \A e \in Root .. c - 1 : fat[e] \notin {FREE, EOF}}
FirstFree == {c \in Cluster : fat[c] = FREE /\ \A e \in Root .. c - 1 : fat[e] # FREE}

-----------------------------------------------------------------------------
(* What an operation has still to do: write an entry of the FAT, a sector  *)
(* or a slot (the rest of the sector as it was read), free a chain, make   *)
(* an entry in a new sector, write the text of a file.                     *)
Job(d, c, i, v, e, b) == [do |-> d, c |-> c, i |-> i, v |-> v, e |-> e, b |-> b]
Mark(c, v)         == Job("fat", c, 0, v, End, <<>>)
Sector(c, b)       == Job("sector", c, 0, 0, End, b)
PutSlot(p, e)      == Job("slot", p[1], p[2], 0, e, <<>>)
FreeFrom(c)        == Job("free", c, 0, 0, End, <<>>)
NewFile(c, n, b)   == Job("newfile", c, 1, 0, Entry("file", n, 0, 0), b)
NewFolder(p, n)    == Job("newfolder", p[1], p[2], 0, Entry("dir", n, 0, 0), <<>>)
WriteText(c, n)    == Job("text", c, 0, n, End, <<>>)

Start(jobs, p)  == /\ harm # "garbled" /\ todo' = jobs /\ target' = p
                   /\ IF harm = "none" THEN UNCHANGED after
                      ELSE after < MaxAfter /\ after' = after + 1
Hurt(why)       == harm' = IF harm = "none" THEN why ELSE harm
HurtIf(b, why)  == IF b THEN Hurt(why) ELSE UNCHANGED harm

(* Linking another cluster to the last of a directory: the FAT twice, then *)
(* zeros; and the job that is left.                                        *)
Grow(last, new, job) ==
  <<Mark(last, new), Mark(new, EOF), Sector(new, Fill(End)), job>>

(* The entry and its cluster: the entry is written first.                  *)
FileJobsUnmarked(p, n, c) == <<PutSlot(p, Entry("file", n, c, 0))>>   \* mutation: cluster not marked
FileJobs(p, n, c) == <<PutSlot(p, Entry("file", n, c, 0)), Mark(c, EOF)>>
FolderJobsBare(p, n, c) == <<PutSlot(p, Entry("dir", n, c, 0)), Sector(c, Folder)>>   \* mutation: cluster not taken
FolderJobs(p, n, c) == <<PutSlot(p, Entry("dir", n, c, 0)), Mark(c, EOF), Sector(c, Folder)>>

(* fat32_create.  In a full directory the buffer the entry is put in still *)
(* holds the directory's last sector.                                      *)
Fat32Create(path, n) ==
  /\ todo = <<>>
  /\ LET d == Resolve(path) IN
     /\ d \in Cluster
     /\ \/ \E p \in Vacant(d), c \in FirstFree :
             /\ Start(FileJobs(p, n, c), p)
             /\ HurtIf(NotFolder(path), "nofolder")
        \/ /\ Vacant(d) = {}
           /\ \E last \in Ending(d), new \in FirstFree :
                /\ Start(Grow(last, new, NewFile(new, n, data[last])), <<new, 1>>)
                /\ HurtIf(NotFolder(path), "nofolder")
  /\ UNCHANGED <<fat, data>>

(* fat32_mkdir. *)
Fat32Mkdir(path, n) ==
  /\ todo = <<>>
  /\ LET d == Resolve(path) IN
     /\ d \in Cluster
     /\ \/ \E p \in Vacant(d) : \E c \in FirstFree : Start(FolderJobs(p, n, c), p)
        \/ /\ Vacant(d) = {}
           /\ \E last \in Ending(d), new \in FirstFree :
                Start(Grow(last, new, NewFolder(<<new, 1>>, n)), <<new, 1>>)
  /\ HurtIf(NotFolder(path), "nofolder")
  /\ UNCHANGED <<fat, data>>

(* fat32_remove: a directory is removed with what is in it.                *)
Fat32Remove(path, n) ==
  /\ todo = <<>>
  /\ \E p \in Find(Resolve(path), n) :
       /\ Start(<<FreeFrom(At(p).first), PutSlot(p, Gone)>>, p)
       /\ HurtIf(\/ NotFolder(path)
                 \/ At(p).kind = "dir" /\ \E q \in Places(At(p).first) :
                      At(q).kind \in {"file", "dir"}, "orphans")
  /\ UNCHANGED <<fat, data>>

(* fat32_write from offset 0, the only offset the shell uses.  No cluster  *)
(* is added; the size becomes size all the same.                           *)
WriteJobs(p, size) ==
  LET text == WriteText(At(p).first, size) IN
  IF size > At(p).size THEN <<text, PutSlot(p, [At(p) EXCEPT !.size = size])>> ELSE <<text>>

Fat32Write(path, n, size) ==
  /\ todo = <<>>
  /\ \E p \in Find(Resolve(path), n) :
       /\ Start(WriteJobs(p, size), p)
       /\ HurtIf(NotFolder(path) \/ At(p).kind = "dir", "nofile")
  /\ UNCHANGED <<fat, data>>

-----------------------------------------------------------------------------
(* The next job, and what is left after it.  If lost, what it writes does  *)
(* not reach the disk.                                                     *)
Put(lost, f, d) == /\ fat'  = IF lost THEN fat ELSE f
                   /\ data' = IF lost THEN data ELSE d
                   /\ IF lost THEN Hurt("lost") ELSE UNCHANGED harm

Quit == todo' = <<>> /\ target' = NoPlace
Rest == IF Tail(todo) = <<>> THEN Quit ELSE todo' = Tail(todo) /\ UNCHANGED target

DoMark(j, lost) ==
  j.do = "fat" /\ Put(lost, [fat EXCEPT ![j.c] = j.v], data) /\ Rest
DoSector(j, lost) ==
  j.do = "sector" /\ Put(lost, fat, [data EXCEPT ![j.c] = j.b]) /\ Rest
DoSlot(j, lost) ==
  j.do = "slot" /\ Put(lost, fat, [data EXCEPT ![j.c][j.i] = j.e]) /\ Rest

(* One turn of the loop in fat32_remove: the link is read, then freed.     *)
DoFree(j, lost) ==
  /\ j.do = "free"
  /\ \/ fat[j.c] = FREE /\ Quit /\ UNCHANGED <<fat, data, harm>>
     \/ /\ fat[j.c] # FREE
        /\ Put(lost, [fat EXCEPT ![j.c] = FREE], data)
        /\ IF fat[j.c] \in Cluster
           THEN todo' = [todo EXCEPT ![1] = FreeFrom(fat[j.c])] /\ UNCHANGED target
           ELSE Rest

DoTextNeighbour(j, lost) ==     \* mutation: the next cluster instead of the link
  /\ j.do = "text"
  /\ Put(lost, fat, [data EXCEPT ![j.c] = Fill(Text)])
  /\ \/ j.v > 1 /\ j.c < MaxCluster
        /\ todo' = [todo EXCEPT ![1] = WriteText(j.c + 1, j.v - 1)] /\ UNCHANGED target
     \/ (j.v = 1 \/ j.c = MaxCluster) /\ Rest

(* One turn of the loop in fat32_write: a sector, then the link.           *)
DoText(j, lost) ==
  /\ j.do = "text"
  /\ Put(lost, fat, [data EXCEPT ![j.c] = Fill(Text)])
  /\ \/ j.v > 1 /\ fat[j.c] \in Cluster
        /\ todo' = [todo EXCEPT ![1] = WriteText(fat[j.c], j.v - 1)] /\ UNCHANGED target
     \/ j.v > 1 /\ fat[j.c] = FREE /\ Quit
     \/ (j.v = 1 \/ fat[j.c] = EOF) /\ Rest

(* The entry in a directory that has grown: the free cluster for it is     *)
(* looked for only now; with none left the directory stays grown.          *)
DoNewFile(j) ==
  /\ j.do = "newfile"
  /\ \/ FirstFree = {} /\ Quit /\ UNCHANGED harm
     \/ \E c \in FirstFree :
          /\ todo' = <<Sector(j.c, [j.b EXCEPT ![1] = [j.e EXCEPT !.first = c]]), Mark(c, EOF)>>
          /\ UNCHANGED target
          /\ HurtIf(\E i \in 2 .. Slots : j.b[i].kind \in {"file", "dir"}, "stale")
  /\ UNCHANGED <<fat, data>>

DoNewFolder(j) ==
  /\ j.do = "newfolder"
  /\ \/ FirstFree = {} /\ Quit
     \/ \E c \in FirstFree : todo' = FolderJobs(<<j.c, j.i>>, j.e.name, c) /\ UNCHANGED target
  /\ UNCHANGED <<fat, data, harm>>

Step(lost) ==
  /\ todo # <<>>
  /\ LET j == Head(todo) IN
     \/ DoMark(j, lost) \/ DoSector(j, lost) \/ DoSlot(j, lost)
     \/ DoFree(j, lost) \/ DoText(j, lost)

Go == todo # <<>> /\ (DoNewFile(Head(todo)) \/ DoNewFolder(Head(todo)))

(* The machine stops between two writes and starts again.                  *)
Crash == todo # <<>> /\ Quit /\ Hurt("crash") /\ UNCHANGED <<fat, data>>

(* A read runs into its time limit or an error: bdl_read hands over what   *)
(* the buffer held before, the driver walks along it, or changes a part of *)
(* it and writes it back; or a write given up comes when the buffer holds  *)
(* another sector.  The disk then holds something else.                    *)
Garble ==
  /\ harm # "garbled" /\ harm' = "garbled"
  /\ \E d \in Stray : fat' = d.fat /\ data' = d.data
  /\ Quit

(* What mkfs.fat and mcopy leave: a file of two clusters.      *)
Init ==
  /\ fat = [c \in Cluster |-> CASE c = 3 -> 4 [] c \in {2, 4} -> EOF [] OTHER -> FREE]
  /\ \E n \in Name :
       data = [c \in Cluster |-> CASE c = Root -> [Fill(End) EXCEPT ![1] = Entry("file", n, 3, 2)]
                                   [] c \in {3, 4} -> Fill(Text) [] OTHER -> Fill(End)]
  /\ todo = <<>>
  /\ target = NoPlace
  /\ harm = "none"
  /\ after = 0

Path == {<<>>} \cup {<<n>> : n \in Name}

Next ==
  \/ \E path \in Path, n \in Name :
       \/ Fat32Create(path, n) \/ Fat32Mkdir(path, n) \/ Fat32Remove(path, n)
       \/ \E size \in Size : Fat32Write(path, n, size)
  \/ \E lost \in BOOLEAN : Step(lost) /\ UNCHANGED after
  \/ Go /\ UNCHANGED after
  \/ (Crash \/ Garble) /\ UNCHANGED after

Spec == Init /\ [][Next]_vars

-----------------------------------------------------------------------------
(* A sector of directory entries, and what a job of each kind holds.       *)
Block == [1 .. Slots -> Slot]
Jobs  == {j \in [do : {"fat", "sector", "slot", "free", "newfile", "newfolder", "text"},
                 c : Cluster, i : 0 .. Slots, v : Nat,
                 e : Slot \cup [kind : {"file", "dir"}, name : Name, first : {0}, size : {0}],
                 b : Block \cup {<<>>}] :
            /\ j.do = "fat" => j.v \in Cluster \cup {EOF}
            /\ j.do \in {"sector", "newfile"} => j.b \in Block
            /\ j.do \in {"slot", "newfolder"} => j.i > 0
            /\ j.do = "slot" => j.e \in Slot
            /\ j.do \in {"newfile", "newfolder"} => j.e.kind \in {"file", "dir"} /\ j.e.first = 0
            /\ j.do = "text" => j.v > 0}

ASSUME StrayAssumption ==
  Stray \subseteq [fat : [Cluster -> {FREE, EOF} \cup Cluster], data : [Cluster -> Block]]

TypeOK ==
  /\ fat \in [Cluster -> {FREE, EOF} \cup Cluster]
  /\ data \in [Cluster -> Block]
  /\ todo \in Seq(Jobs)
  /\ target \in Place \cup {NoPlace}
  /\ harm \in {"none", "lost", "crash", "stale", "nofolder", "nofile", "orphans", "garbled"}
  /\ after \in 0 .. MaxAfter

(* Entries a listing of directory c shows (fat32_getall), by place.  A    *)
(* sector the operation under way has linked but not written yet counts as *)
(* the end of the directory.                                               *)
Unwritten(c) == \E k \in DOMAIN todo : todo[k].do = "sector" /\ todo[k].c = c
Live(c) ==
  {p \in Places(c) : /\ At(p).kind \in {"file", "dir"} /\ ~Unwritten(p[1])
                     /\ \A q \in Places(c) : At(q) = End \/ Unwritten(q[1]) => ~Before(q, p)}

(* Directories from the root on, and everything that is in them.           *)
Folders ==
  LET in == [d \in Cluster |-> {At(p).first : p \in {q \in Live(d) : At(q).kind = "dir"}}]
  IN {d \in Cluster : \A S \in SUBSET Cluster :
                        (Root \in S /\ \A x \in S : in[x] \subseteq S) => d \in S}
Listed == UNION {Live(d) : d \in Folders}
Owners == [p \in Listed |-> Chain(At(p).first)]

(* From no cluster do the links run in a circle, whatever writes were lost *)
(* and wherever the machine stopped, until other bytes than those meant    *)
(* are written: the loops of the driver, which count nothing, all end.     *)
WalksEnd ==
  harm # "garbled" => \A c \in Cluster : \E b \in Chain(c) : fat[b] \notin Cluster

(* Also in the middle of an operation, no cluster belongs to two entries   *)
(* or to an entry and the root directory.                                  *)
OneOwner ==
  harm = "none" =>
    LET own == Owners IN
    \A p \in DOMAIN own :
      /\ own[p] \cap Chain(Root) = {}
      /\ \A q \in DOMAIN own \ {p} : own[p] \cap own[q] = {}

(* Between operations every chain runs to its end mark and a cluster is    *)
(* taken exactly if an entry or the root directory owns it: nothing an     *)
(* operation took, or a removal should have given back, is left over.      *)
NothingLeaks ==
  harm = "none" /\ todo = <<>> =>
    LET own == Owners IN
    /\ Ending(Root) # {} /\ \A p \in DOMAIN own : Ending(At(p).first) # {}
    /\ Chain(Root) \cup UNION {own[p] : p \in DOMAIN own} = {c \in Cluster : fat[c] # FREE}

(* An operation leaves every file but its own as it is: the entry, its     *)
(* clusters and what is in them.                                           *)
OthersUntouched ==
  [][harm' = "none" =>
       LET own == Owners IN
       \A p \in DOMAIN own \ {target, target'} :
         At(p).kind = "file" =>
           /\ At(p)' = At(p)
           /\ \A c \in own[p] : data'[c] = data[c] /\ fat'[c] = fat[c]]_vars

(* What a comment of fat32_create says of a directory that grows: the new  *)
(* entry goes to the first slot of a zeroed cluster.  So as long as only   *)
(* that happens no two entries of the disk share their first cluster.      *)
GrownZeroed ==
  harm \in {"none", "stale"} =>
    \A p, q \in Listed : At(p).first = At(q).first => p = q
=============================================================================
