------------------------------- MODULE Ramdisk -------------------------------
(***************************************************************************)
(* The RAM disk, kernel/fs/ramdisk.c: a table of lists of files by the     *)
(* hash of their names.  Only the shell's task changes it; a program lists *)
(* a directory through SYS_DIRSCAN, with interrupts off, between any two   *)
(* of its steps.                                                           *)
(*                                                                         *)
(* Page 0 can be read by the kernel, and what a walk that dereferences     *)
(* NULL does depends on what lies there: it is a fault, and the behaviour  *)
(* is not followed any further.                                            *)
(***************************************************************************)
EXTENDS Naturals, Sequences

CONSTANTS
  Node,     \* the addresses of RamdiskFile structs
  NULL,
  Name,     \* absolute names of files
  Bucket,   \* the indices of files_table
  hash,     \* the index of each name
  Char,
  Texts,    \* what is written to files
  Path,     \* directories that are listed
  Trap      \* for each of them, the names that are it and a slash

File == [name : Name \cup {NULL}, dir : BOOLEAN, text : Seq(Char)]

ASSUME RamdiskAssumption ==
  /\ NULL \notin Node /\ NULL \notin Name /\ NULL \notin File
  /\ Bucket \subseteq Nat
  /\ hash \in [Name -> Bucket]
  /\ Trap \in [Path -> SUBSET Name]
  /\ Texts \subseteq Seq(Char)

VARIABLES
  files_table,   \* the first struct of each list
  next, file,    \* fields of the structs; a file by value
  live,          \* the structs that are allocated
  hand,          \* where the shell is in create_new_ramdisk_file, and its locals
  failed,        \* history: an allocation failed half way
  fault          \* "none", or how a walk went wrong

lists   == <<files_table, next, live>>
ramVars == <<lists, file, hand, failed, fault>>

Made(n, d) == [name |-> n, dir |-> d, text |-> <<>>]
Zeroed     == Made(NULL, FALSE)
Resting    == [at |-> "idle", node |-> NULL, name |-> NULL, dir |-> FALSE]

(* init_ramdisk. *)
RamInit ==
  /\ files_table = [b \in Bucket |-> NULL]
  /\ next = [e \in Node |-> NULL] /\ file = [e \in Node |-> NULL] /\ live = {}
  /\ hand = Resting /\ failed = FALSE /\ fault = "none"

Down(kind) == fault' = kind /\ UNCHANGED <<lists, file, hand, failed>>

-----------------------------------------------------------------------------
(* What a walk along next meets from e on: the least set closed under it.  *)
From(e) ==
  LET closed == {S \in SUBSET Node : e \in S /\ \A x \in S : next[x] # NULL => next[x] \in S}
  IN  {x \in Node : e \in Node /\ \A S \in closed : x \in S}
Chain(b) == From(files_table[b])
Ends(b)  == {l \in Chain(b) : next[l] = NULL}

(* An entry has a file, and the file a name; or it is half made.           *)
Whole(e) == file[e] # NULL /\ file[e].name # NULL

(* Mutation: the walk does not look at what it passes.                     *)
MetUntested(e, ns) == From(e) \cap {e}

(* The first entry from e on that is half made, or whose file is called    *)
(* one of ns.                                                              *)
Stops(ns)  == {x \in live : Whole(x) => file[x].name \in ns}
Met(e, ns) == {x \in From(e) \cap Stops(ns) : From(e) \cap Stops(ns) \subseteq From(x)}

(* get_ramfile: the walk for a name ends there; at a half made entry it    *)
(* dereferences NULL, ...                                                  *)
Hit(e, n) == {x \in Met(e, {n}) : Whole(x)}

(* ... as it does beyond the last one.                                     *)
Miss(e, n) ==
  \/ Met(e, {n}) = {} /\ Down("end")
  \/ Met(e, {n}) # {} /\ Hit(e, n) = {} /\ Down("half")

Ready(n) == fault = "none" /\ hand.at = "idle" /\ files_table[hash[n]] # NULL

(* ramdisk_get, also for a read; what it finds changes nothing.            *)
ramdisk_get(n) == Ready(n) /\ Miss(files_table[hash[n]], n)

-----------------------------------------------------------------------------
(* create_new_ramdisk_file for ramdisk_create and ramdisk_mkdir: the entry *)
(* is in its list, at the end, ...                                         *)
Link(e, b) ==
  \/ /\ files_table[b] = NULL
     /\ files_table' = [files_table EXCEPT ![b] = e]
     /\ UNCHANGED next
  \/ /\ files_table[b] # NULL
     /\ \E l \in Ends(b) : next' = [next EXCEPT ![l] = e]
     /\ UNCHANGED files_table

Create(n, d) ==
  /\ fault = "none" /\ hand.at = "idle"
  /\ \E e \in Node \ live :
       /\ Link(e, hash[n])
       /\ live' = live \cup {e}
       /\ hand' = [at |-> "file", node |-> e, name |-> n, dir |-> d]
  /\ UNCHANGED <<file, failed, fault>>

(* Mutation: the file is left without a name.                              *)
CreateFileOnly ==
  /\ fault = "none" /\ hand.at = "file"
  /\ file' = [file EXCEPT ![hand.node] = Zeroed]
  /\ hand' = Resting
  /\ UNCHANGED <<lists, failed, fault>>

(* ... before it has a file, ...                                           *)
CreateFile ==
  /\ fault = "none" /\ hand.at = "file"
  /\ \/ /\ file' = [file EXCEPT ![hand.node] = Zeroed]
        /\ hand' = [hand EXCEPT !.at = "name"]
        /\ UNCHANGED failed
     \/ failed' = TRUE /\ hand' = Resting /\ UNCHANGED file
  /\ UNCHANGED <<lists, fault>>

(* ... and the file before it has a name.                                  *)
CreateName ==
  /\ fault = "none" /\ hand.at = "name"
  /\ \E n \in {hand.name, NULL} :
       /\ file' = [file EXCEPT ![hand.node] = Made(n, hand.dir)]
       /\ failed' = (failed \/ n = NULL)
  /\ hand' = Resting
  /\ UNCHANGED <<lists, fault>>

(* ramdisk_write at offset 0, as the shell does: what is longer gets a     *)
(* buffer of its own, what is not is copied over the beginning.            *)
Over(old, t) == t \o SubSeq(old, Len(t) + 1, Len(old))

ramdisk_write(n, t) ==
  /\ Ready(n)
  /\ \E e \in Hit(files_table[hash[n]], n) :
       ~file[e].dir /\ file' = [file EXCEPT ![e].text = Over(@, t)]
  /\ UNCHANGED <<lists, hand, failed, fault>>

(* ramdisk_remove: the only entry of a list, whatever it is called, or one *)
(* behind the first.  What is left in a freed struct is not read again.    *)
Release(e) ==
  live' = live \ {e} /\ file' = [file EXCEPT ![e] = NULL] /\ UNCHANGED <<hand, failed, fault>>

RemoveOnly(b) ==
  /\ file[files_table[b]] # NULL
  /\ files_table' = [files_table EXCEPT ![b] = NULL]
  /\ Release(files_table[b])
  /\ UNCHANGED next

(* Mutation: what is behind the removed entry is not linked again.         *)
RemoveTail(b, n) ==
  \E p \in Chain(b), e \in Hit(next[files_table[b]], n) :
    /\ next[p] = e
    /\ next' = [next EXCEPT ![p] = NULL, ![e] = NULL]
    /\ Release(e)
    /\ UNCHANGED files_table

RemoveBehind(b, n) ==
  \E p \in Chain(b), e \in Hit(next[files_table[b]], n) :
    /\ next[p] = e
    /\ next' = [next EXCEPT ![p] = next[e], ![e] = NULL]
    /\ Release(e)
    /\ UNCHANGED files_table

ramdisk_remove(n) ==
  LET b == hash[n] IN
  /\ Ready(n)
  /\ \/ next[files_table[b]] = NULL /\ RemoveOnly(b)
     \/ next[files_table[b]] = NULL /\ file[files_table[b]] = NULL /\ Down("half")
     \/ next[files_table[b]] # NULL /\ RemoveBehind(b, n)
     \/ next[files_table[b]] # NULL /\ Miss(next[files_table[b]], n)

(* ramdisk_getall, for the shell or, at any moment, for a program: a name  *)
(* that leaves nothing behind the path is passed to continue, which does   *)
(* not go on to the next.                                                  *)
ramdisk_getall(p) ==
  /\ fault = "none"
  /\ \E b \in Bucket : \E e \in Met(files_table[b], Trap[p]) :
       /\ \A c \in Bucket : c < b => Met(files_table[c], Trap[p]) = {}
       /\ \/ ~Whole(e) /\ Down("half")
          \/ Whole(e) /\ Down("loop")

RamNext ==
  \/ \E n \in Name : \/ ramdisk_get(n) \/ ramdisk_remove(n)
                     \/ \E d \in BOOLEAN : Create(n, d)
                     \/ \E t \in Texts : ramdisk_write(n, t)
  \/ CreateFile \/ CreateName
  \/ \E p \in Path : ramdisk_getall(p)

RamSpec == RamInit /\ [][RamNext]_ramVars

-----------------------------------------------------------------------------
RamTypeOK ==
  /\ files_table \in [Bucket -> Node \cup {NULL}]
  /\ next \in [Node -> Node \cup {NULL}] /\ live \subseteq Node
  /\ file \in [Node -> File \cup {NULL}]
  /\ \/ hand = Resting
     \/ hand \in [at : {"file", "name"}, node : live, name : Name, dir : BOOLEAN]
  /\ failed \in BOOLEAN
  /\ fault \in {"none", "end", "half", "loop"}

(* Every list comes to an end, no struct is in two lists, the lists hold   *)
(* just the structs that are allocated, and a file is in the list its name *)
(* is looked for in: whatever is created and removed, and in the middle;   *)
(* and every variable has its type.                                        *)
ChainsIntact ==
  /\ RamTypeOK
  /\ \A b \in Bucket : files_table[b] # NULL => Ends(b) # {}
  /\ \A b, c \in Bucket : b # c => Chain(b) \cap Chain(c) = {}
  /\ live = UNION {Chain(b) : b \in Bucket}
  /\ \A e \in live : Whole(e) => e \in Chain(hash[file[e].name])

(* As long as no allocation failed, what is half made is the one entry the *)
(* shell is making: only a program's listing in the middle of a creation   *)
(* can run into it, no lookup of the shell's.                              *)
OnlyMidway ==
  ~failed =>
    /\ \A e \in live : ~Whole(e) => hand.at # "idle" /\ e = hand.node
    /\ fault = "half" => hand.at # "idle"

(* No write to a name touches a file of another (182-209), and neither     *)
(* does a removal from a list of two files or more; from a list of one a   *)
(* removal takes that one unread, whatever it is called (251).             *)
OthersKept ==
  [][\A n \in Name, e \in live :
       e \notin live' \/ file'[e] # file[e] =>
         /\ (\E t \in Texts : ramdisk_write(n, t)) => file[e].name = n
         /\ ramdisk_remove(n) => file[e].name = n \/ Chain(hash[n]) = {e}]_ramVars
=============================================================================
