-------------------------- MODULE TaskListsProofs ---------------------------
(***************************************************************************)
(* The task lists, for any number of creators, tasks and lists: the search *)
(* stays in allocated memory however create_task, kill_task and            *)
(* clean_task_lists interleave, and finds every task as long as creations  *)
(* do not overlap and the current list is not cleaned away.                *)
(***************************************************************************)
EXTENDS TaskLists, WellFoundedInduction, TLAPS

(* Creators that have yet to store their task, and those that have yet to  *)
(* append their new list.                                                  *)
Storing(c) == pc[c] \in {"pid", "test", "grow", "old", "link", "pick", "slot"}
Pending(c) == pc[c] = "old" \/ (pc[c] = "link" /\ "next" \in loc[c].todo)
Sweeping   == pc[shell] \in {"clean", "unlink", "free"}
Cutting    == pc[shell] \in {"unlink", "free"}

Locals(c) ==
  /\ pc[c] \notin {"idle", "clean", "unlink", "free"} => loc[c].new \in Task
  /\ pc[c] \in {"old", "link", "slot", "mask"} => loc[c].list \in List
  /\ pc[c] = "link" => loc[c].old \in List /\ loc[c].todo # {}
  /\ pc[c] \in {"pid", "test"} => loc[c].list = NULL /\ loc[c].old = NULL
  /\ pc[c] \in {"clean", "unlink", "free"} => c = shell

(* Every entry is a live task, in one place only; what a creator has yet   *)
(* to store is in none.  A list that is not allocated is blank.            *)
Entries ==
  /\ \A l \in List, s \in Slot : tasks[l][s] \in live \cup {NULL}
  /\ \A l, m \in List, s, r \in Slot :
       tasks[l][s] = tasks[m][r] /\ tasks[l][s] # NULL => l = m /\ s = r
  /\ \A c \in Creator : Storing(c) =>
       /\ loc[c].new \in live
       /\ \A l \in List, s \in Slot : tasks[l][s] # loc[c].new
       /\ \A d \in Creator : Storing(d) /\ loc[d].new = loc[c].new => c = d

Unused ==
  \A l \in List \ lists : /\ nextOf[l] = NULL /\ mask[l] = {}
                          /\ \A s \in Slot : tasks[l][s] = NULL

(* next leads to allocated lists, never back to the first; two lists have  *)
(* the same next only where cltlist has just taken one of them out.  What  *)
(* is to be appended has no predecessor yet.                               *)
Links ==
  /\ first \in lists
  /\ \A l \in List : nextOf[l] \in (lists \ {first}) \cup {NULL}
  /\ \A l, m \in List : nextOf[l] = nextOf[m] /\ nextOf[l] # NULL =>
       l = m \/ (pc[shell] = "free" /\ loc[shell].old \in {l, m})
  /\ \A c \in Creator : Pending(c) =>
       /\ loc[c].list \in lists \ {first}
       /\ \A l \in List : nextOf[l] # loc[c].list
       /\ \A d \in Creator : Pending(d) /\ loc[d].list = loc[c].list => c = d

(* cltlist stands at a list from which next never leads back to it, now or *)
(* once the pending lists are appended; the one it takes out has no other  *)
(* predecessor.                                                            *)
Ahead(S) ==
  /\ \A l \in S : nextOf[l] \in S \cup {NULL}
  /\ \A c \in Creator : Pending(c) => loc[c].list \in S
  /\ nextOf[loc[shell].list] \in S \cup {NULL}
  /\ loc[shell].list \notin S
  /\ Cutting => loc[shell].old \in S

Sweep ==
  /\ Sweeping => loc[shell].list \in lists /\ \E S \in SUBSET lists : Ahead(S)
  /\ pc[shell] = "unlink" => nextOf[loc[shell].list] # NULL
  /\ Cutting =>
       /\ loc[shell].old # first
       /\ \A c \in Creator : Pending(c) => loc[c].list # loc[shell].old
       /\ \A l \in List : nextOf[l] = loc[shell].old =>
                            pc[shell] = "unlink" /\ l = loc[shell].list

(* While no two creations have overlapped, one creator at a time is busy,  *)
(* and the mask it loaded is still the list's.                             *)
Loaded(c) ==
  /\ pc[c] \in {"old", "link"} => mask[loc[c].list] = {}
  /\ pc[c] = "link" /\ "cur" \notin loc[c].todo => cur = loc[c].list
  /\ pc[c] = "pick" => mask[cur] # Full
  /\ pc[c] \in {"slot", "mask"} => /\ mask[loc[c].list] \subseteq loc[c].used
                                   /\ loc[c].slot \notin loc[c].used
  /\ pc[c] \in {"slot", "mask"} /\ loc[c].list \in lists =>
       mask[loc[c].list] = loc[c].used
  /\ pc[c] = "mask" =>
       /\ loc[c].list \in lists => tasks[loc[c].list][loc[c].slot] = loc[c].new
       /\ \A l \in List, s \in Slot :
            tasks[l][s] = loc[c].new => l = loc[c].list /\ s = loc[c].slot

OneAtATime ==
  /\ \A c, d \in Creator : Busy(c) /\ Busy(d) => c = d
  /\ \A l \in List : \A s \in mask[l] : tasks[l][s] # NULL
  /\ \A c \in Creator : Loaded(c)
  /\ fault \notin {"NULL entry", "no slot"}

(* No two tasks have the same id, but for those that have none yet.        *)
Ids ==
  /\ nextPid > 0
  /\ \A t \in live : id[t] < nextPid
  /\ \A t, u \in live : id[t] = id[u] /\ id[t] # 0 => t = u
  /\ \A c \in Creator :
       /\ pc[c] = "pid" => loc[c].pid > 0 /\ loc[c].pid <= nextPid
       /\ pc[c] \in {"test", "grow", "old", "link", "pick", "slot", "mask"} =>
            id[loc[c].new] # 0 /\ loc[c].new \in live
  /\ \A t \in listed : t \in live /\ id[t] # 0

(* While nothing that creations use has been cleaned away either, the      *)
(* current list ends the chain, or is about to be appended to its end, and *)
(* every listed task has its place in the chain.                           *)
LastOfChain(l) == l \in Chain /\ nextOf[l] = NULL

AtEnd(c) ==
  /\ pc[c] \in {"old", "link"} => nextOf[loc[c].list] = NULL
  /\ pc[c] = "link" =>
       /\ "cur" \in loc[c].todo => cur = loc[c].old
       /\ "next" \in loc[c].todo => LastOfChain(loc[c].old)
       /\ "next" \notin loc[c].todo => LastOfChain(loc[c].list) /\ loc[c].old \in Chain
  /\ pc[c] \in {"slot", "mask"} => loc[c].list = cur

Spare(l) == /\ mask[l] = {} /\ l # cur
            /\ \A c \in Creator : Busy(c) => l \notin {loc[c].list, loc[c].old}

Settled ==
  /\ fault # "freed list"
  /\ (\A c \in Creator : pc[c] # "link") => LastOfChain(cur)
  /\ \A c \in Creator : AtEnd(c)
  /\ pc[shell] = "unlink" => nextOf[loc[shell].list] = loc[shell].old
  /\ pc[shell] = "free" => Spare(loc[shell].old)
  /\ \A t \in listed : \E l \in Chain : \E s \in mask[l] : tasks[l][s] = t

IInv == /\ TypeOK
        /\ \A c \in Creator : Locals(c)
        /\ Entries /\ Unused /\ Links /\ Sweep
        /\ ~overlap => OneAtATime /\ Ids
        /\ ~overlap /\ ~dangling => Settled
-----------------------------------------------------------------------------
USE ListAssumption

(* The other creators stay where they are.                                 *)
Alone(c) == \A d \in Creator \ {c} : pc'[d] = pc[d] /\ loc'[d] = loc[d]

LEMMA LowestFreeIs ==
  ASSUME NEW used \in SUBSET Slot
  PROVE  /\ LowestFree(used) \subseteq Slot \ used
         /\ used # Full => LowestFree(used) # {}
  <1>1. LowestFree(used) \subseteq Slot \ used
    BY DEF LowestFree
  <1>2. ASSUME used # Full PROVE LowestFree(used) # {}
    <2> DEFINE free == Slot \ used
               below == {ss \in Nat \X Nat : ss[1] < ss[2]}
    <2>1. free # {}
      BY <1>2 DEF Full
    <2>2. free \subseteq Nat
      BY DEF Slot
    <2>3. IsWellFoundedOn(below, Nat)
      BY NatLessThanWellFounded DEF OpToRel
    <2> HIDE DEF free
    <2>4. PICK s \in free : \A r \in free : <<r, s>> \notin below
      <3> HIDE DEF below
      <3> QED BY <2>1, <2>2, <2>3, WFMin
    <2>5. ASSUME NEW r \in free PROVE s <= r
      <3>1. r \in Nat /\ s \in Nat /\ <<r, s>> \notin below
        BY <2>2, <2>4
      <3>2. r < s => <<r, s>> \in below
        BY <3>1
      <3> HIDE DEF below
      <3> QED BY <3>1, <3>2
    <2> USE DEF free
    <2> QED BY <2>5 DEF LowestFree
  <1> QED BY <1>1, <1>2

-----------------------------------------------------------------------------
(* The chain under changes of next.                                        *)
LEMMA AlongIs ==
  ASSUME NEW f
  PROVE  /\ first \in Along(f) /\ Along(f) \subseteq List
         /\ \A l \in Along(f) : f[l] \in List \cup {NULL} => f[l] \in Along(f) \cup {NULL}
         /\ \A S \in SUBSET List :
              first \in S /\ (\A m \in S : f[m] \in S \cup {NULL}) => Along(f) \subseteq S
  BY DEF Along

LEMMA AlongKept ==
  ASSUME NEW f, NEW g, \A l \in Along(f) : g[l] = f[l] /\ f[l] \in List \cup {NULL}
  PROVE  Along(f) \subseteq Along(g)
  <1> SUFFICES ASSUME NEW S \in SUBSET List, first \in S, \A m \in S : g[m] \in S \cup {NULL}
               PROVE  Along(f) \subseteq S
    BY DEF Along
  <1> DEFINE T == S \cap Along(f)
  <1>1. T \in SUBSET List /\ first \in T
    BY AlongIs
  <1>2. \A m \in T : f[m] \in T \cup {NULL}
    BY AlongIs
  <1> HIDE DEF T
  <1>3. Along(f) \subseteq T
    BY <1>1, <1>2, AlongIs
  <1> QED BY <1>3 DEF T

(* A list appended to the last one is in the chain, and all others stay.   *)
LEMMA Appended ==
  ASSUME NEW f \in [List -> List \cup {NULL}], NEW last \in Along(f), f[last] = NULL,
         NEW l \in List
  PROVE  Along(f) \cup {l} \subseteq Along([f EXCEPT ![last] = l])
  <1> DEFINE g == [f EXCEPT ![last] = l]
  <1> SUFFICES ASSUME NEW S \in SUBSET List, first \in S, \A m \in S : g[m] \in S \cup {NULL}
               PROVE  Along(f) \cup {l} \subseteq S
    BY DEF Along
  <1>1. last \in List /\ g[last] = l /\ \A m \in List \ {last} : g[m] = f[m]
    BY AlongIs
  <1>2. \A m \in S : f[m] \in S \cup {NULL}
    BY <1>1
  <1>3. Along(f) \subseteq S
    BY <1>2, AlongIs
  <1> QED BY <1>1, <1>3

(* One that is skipped is the only one to leave.                           *)
LEMMA Skipped ==
  ASSUME NEW f \in [List -> List \cup {NULL}], NEW l \in List, NEW x \in List,
         f[l] = x
  PROVE  Along(f) \ {x} \subseteq Along([f EXCEPT ![l] = f[x]])
  <1> DEFINE g == [f EXCEPT ![l] = f[x]]
  <1> SUFFICES ASSUME NEW S \in SUBSET List, first \in S, \A m \in S : g[m] \in S \cup {NULL}
               PROVE  Along(f) \subseteq S \cup {x}
    BY DEF Along
  <1>1. g[l] = f[x] /\ \A m \in List \ {l} : g[m] = f[m]
    OBVIOUS
  <1>2. CASE l \in S
    <2>1. ASSUME NEW m \in S \cup {x} PROVE f[m] \in S \cup {x, NULL}
      <3>1. CASE m = x
        BY <1>1, <1>2, <3>1
      <3>2. CASE m = l
        BY <3>2
      <3>3. CASE m # x /\ m # l
        BY <1>1, <3>3
      <3> QED BY <3>1, <3>2, <3>3
    <2> DEFINE T == S \cup {x}
    <2>2. T \in SUBSET List /\ first \in T /\ \A m \in T : f[m] \in T \cup {NULL}
      BY <2>1
    <2> HIDE DEF T
    <2>3. Along(f) \subseteq T
      BY <2>2, AlongIs
    <2> QED BY <2>3 DEF T
  <1>3. CASE l \notin S
    <2>1. \A m \in S : f[m] \in S \cup {NULL}
      BY <1>1, <1>3
    <2>2. Along(f) \subseteq S
      BY <2>1, AlongIs
    <2> QED BY <2>2
  <1> QED BY <1>2, <1>3

LEMMA ChainListed ==
  ASSUME TypeOK, Links
  PROVE  /\ Chain \subseteq lists /\ first \in Chain /\ Chain \subseteq List
         /\ \A l \in Chain : nextOf[l] \in Chain \cup {NULL}
         /\ \A x \in List : x # first /\ (\A l \in List : nextOf[l] # x) => x \notin Chain
  <1>1. nextOf \in [List -> List \cup {NULL}] /\ lists \in SUBSET List /\ first \in lists
    BY DEF TypeOK, Links
  <1>2. Chain \subseteq lists
    BY <1>1, AlongIs DEF Links, Chain
  <1>3. first \in Chain /\ Chain \subseteq List /\ \A l \in Chain : nextOf[l] \in Chain \cup {NULL}
    BY <1>1, AlongIs DEF Chain
  <1>4. ASSUME NEW x \in List, x # first, \A l \in List : nextOf[l] # x PROVE x \notin Chain
    <2> DEFINE T == List \ {x}
    <2>1. T \in SUBSET List /\ first \in T /\ \A m \in T : nextOf[m] \in T \cup {NULL}
      BY <1>1, <1>4
    <2> HIDE DEF T
    <2>2. Chain \subseteq T
      BY <2>1, AlongIs DEF Chain
    <2> QED BY <2>2 DEF T
  <1> QED BY <1>2, <1>3, <1>4

LEMMA BlankAlready ==
  ASSUME TypeOK, Unused, NEW l \in List \ lists, Blank(l)
  PROVE  tasks' = tasks /\ mask' = mask /\ nextOf' = nextOf
  BY DEF TypeOK, Unused, Blank

-----------------------------------------------------------------------------
LEMMA Stepped ==
  ASSUME TypeOK, NEW c \in Creator, NEW p \in Labels, NEW r \in Local,
         pc' = [pc EXCEPT ![c] = p], loc' = [loc EXCEPT ![c] = r]
  PROVE  /\ pc' \in [Creator -> Labels] /\ loc' \in [Creator -> Local]
         /\ pc'[c] = p /\ loc'[c] = r /\ Alone(c)
  BY DEF TypeOK, Alone

LEMMA LocalIs ==
  ASSUME IInv, NEW c \in Creator
  PROVE  /\ loc[c] \in Local /\ pc[c] \in Labels /\ Locals(c)
         /\ loc[c].new \in Task \cup {NULL} /\ loc[c].pid \in Nat
         /\ loc[c].list \in List \cup {NULL} /\ loc[c].old \in List \cup {NULL}
         /\ loc[c].todo \in SUBSET {"next", "cur"}
         /\ loc[c].used \in SUBSET Slot /\ loc[c].slot \in Slot
  <1>1. loc[c] \in Local /\ pc[c] \in Labels /\ Locals(c)
    BY DEF IInv, TypeOK
  <1> QED BY <1>1 DEF Local

LEMMA FullIs == Full # {} /\ 0 \in Slot
  BY DEF Full, Slot

LEMMA NoLocalIs ==
  /\ NoLocal \in Local
  /\ NoLocal.new = NULL /\ NoLocal.list = NULL /\ NoLocal.old = NULL
  /\ NoLocal.todo = {} /\ NoLocal.used = {}
  BY DEF NoLocal, Local, Slot

LEMMA EntryStored ==
  ASSUME TypeOK, NEW l \in List, NEW s \in Slot, NEW n \in Task \cup {NULL},
         NEW f, f = [tasks EXCEPT ![l][s] = n]
  PROVE  /\ f \in [List -> [Slot -> Task \cup {NULL}]]
         /\ \A m \in List, q \in Slot : f[m][q] = IF m = l /\ q = s THEN n ELSE tasks[m][q]
  <1> DEFINE g == [tasks[l] EXCEPT ![s] = n]
  <1>1. tasks \in [List -> [Slot -> Task \cup {NULL}]]
    BY DEF TypeOK
  <1>2. g \in [Slot -> Task \cup {NULL}] /\ \A q \in Slot : g[q] = IF q = s THEN n ELSE tasks[l][q]
    BY <1>1
  <1>3. f = [tasks EXCEPT ![l] = g]
    OBVIOUS
  <1> HIDE DEF g
  <1> QED BY <1>1, <1>2, <1>3

(* Nothing but the fault changes.                                          *)
LEMMA OnlyFault ==
  ASSUME IInv, UNCHANGED <<heap, arrays, cur, nextPid, pc, loc, hist>>, fault' \in Faults
  PROVE  /\ TypeOK' /\ (\A c \in Creator : Locals(c)')
         /\ Entries' /\ Unused' /\ Links' /\ Sweep'
         /\ ~overlap' => /\ Ids'
                         /\ fault' \notin {"NULL entry", "no slot"} => OneAtATime'
         /\ ~overlap' /\ ~dangling' /\ fault' # "freed list" => Settled'
  <1>1. /\ live' = live /\ id' = id /\ lists' = lists /\ tasks' = tasks /\ mask' = mask
        /\ nextOf' = nextOf /\ cur' = cur /\ nextPid' = nextPid /\ pc' = pc /\ loc' = loc
        /\ listed' = listed /\ overlap' = overlap /\ dangling' = dangling
    BY DEF heap, arrays, hist
  <1>2. TypeOK'
    BY <1>1 DEF IInv, TypeOK
  <1>3. \A c \in Creator : Locals(c)'
    BY <1>1 DEF IInv, Locals
  <1>4. Entries'
    BY <1>1 DEF IInv, Entries, Storing
  <1>5. Unused'
    BY <1>1 DEF IInv, Unused
  <1>6. Links'
    BY <1>1 DEF IInv, Links, Pending
  <1>7. Sweep'
    BY <1>1 DEF IInv, Sweep, Sweeping, Cutting, Ahead, Pending
  <1>8. ~overlap' => Ids'
    BY <1>1 DEF IInv, Ids
  <1>9. ASSUME ~overlap', fault' \notin {"NULL entry", "no slot"} PROVE OneAtATime'
    <2>1. OneAtATime
      BY <1>1, <1>9 DEF IInv
    <2>2. ASSUME NEW c \in Creator PROVE Loaded(c)'
      <3>1. Loaded(c)
        BY <2>1 DEF OneAtATime
      <3> QED BY <1>1, <3>1 DEF Loaded
    <2> QED BY <1>1, <1>9, <2>1, <2>2 DEF OneAtATime, Busy
  <1>10. ASSUME ~overlap', ~dangling', fault' # "freed list" PROVE Settled'
    <2>1. Settled
      BY <1>1, <1>10 DEF IInv
    <2>2. Chain' = Chain
      BY <1>1 DEF Chain
    <2>3. \A c \in Creator : AtEnd(c)'
      BY <1>1, <2>1, <2>2 DEF Settled, AtEnd, LastOfChain
    <2>4. Spare(loc[shell].old) => Spare(loc[shell].old)'
      BY <1>1 DEF Spare, Busy
    <2>5. LastOfChain(cur) => LastOfChain(cur)'
      BY <1>1, <2>2 DEF LastOfChain
    <2>6. (\A t \in listed : \E l \in Chain : \E s \in mask[l] : tasks[l][s] = t)'
      BY <1>1, <2>1, <2>2, ZenonT(40) DEF Settled
    <2>7. pc' = pc /\ loc' = loc /\ nextOf' = nextOf
      BY <1>1
    <2> QED BY <1>10, <2>1, <2>3, <2>4, <2>5, <2>6, <2>7 DEF Settled
  <1> QED BY <1>2, <1>3, <1>4, <1>5, <1>6, <1>7, <1>8, <1>9, <1>10

LEMMA ReadPidStep ==
  ASSUME IInv, NEW c \in Creator, NEW t \in Task, ReadPid(c, t)
  PROVE  IInv'
  <1> DEFINE r == [NoLocal EXCEPT !.new = t, !.pid = nextPid]
  <1>1. /\ pc[c] = "idle" /\ fault = "none" /\ t \notin live /\ t # NULL
        /\ pc' = [pc EXCEPT ![c] = "pid"] /\ loc' = [loc EXCEPT ![c] = r]
    BY DEF ReadPid, At, Goto
  <1>2. /\ r \in Local /\ r.new = t /\ r.pid = nextPid /\ r.list = NULL /\ r.old = NULL
        /\ r.todo = {}
    BY NoLocalIs DEF NoLocal, Local, IInv, TypeOK, Slot
  <1> HIDE DEF r
  <1>3. /\ pc' \in [Creator -> Labels] /\ loc' \in [Creator -> Local]
        /\ pc'[c] = "pid" /\ loc'[c] = r /\ Alone(c)
    BY <1>1, <1>2, Stepped DEF IInv, Labels
  <1>4. id' \in [Task -> Nat] /\ id'[t] = 0 /\ \A u \in Task \ {t} : id'[u] = id[u]
    BY DEF ReadPid, IInv, TypeOK
  <1>5. live' = live \cup {t}
    BY DEF ReadPid
  <1>6. TypeOK'
    BY <1>3, <1>4 DEF ReadPid, IInv, TypeOK, Faults, heap, arrays, hist
  <1>7. \A d \in Creator : Locals(d)'
    BY <1>2, <1>3 DEF IInv, Locals, Alone
  <1>8. Entries'
    BY <1>1, <1>2, <1>3, <1>5 DEF ReadPid, IInv, TypeOK, Entries, Storing, Alone, arrays
  <1>9. Unused'
    BY DEF ReadPid, IInv, Unused, arrays
  <1>10. Links'
    BY <1>1, <1>3 DEF ReadPid, IInv, Links, Pending, Alone, arrays
  <1>11. Sweep'
    BY <1>1, <1>3 DEF ReadPid, IInv, Sweep, Sweeping, Cutting, Ahead, Pending, Alone, Locals, arrays
  <1>12. ~overlap' => OneAtATime'
    <2> SUFFICES ASSUME ~overlap' PROVE OneAtATime'
      OBVIOUS
    <2>1. OneAtATime
      BY DEF ReadPid, IInv, hist
    <2> QED BY <1>1, <1>3, <2>1 DEF ReadPid, OneAtATime, Loaded, Busy, Alone, arrays
  <1>13. ~overlap' => Ids'
    <2> SUFFICES ASSUME ~overlap' PROVE Ids'
      OBVIOUS
    <2>1. Ids
      BY DEF ReadPid, IInv, hist
    <2> QED BY <1>1, <1>2, <1>3, <1>4, <1>5, <2>1 DEF ReadPid, Ids, Alone, IInv, TypeOK, hist
  <1>14. ~overlap' /\ ~dangling' => Settled'
    BY <1>1, <1>3 DEF ReadPid, IInv, Settled, AtEnd, Spare, LastOfChain, Chain, Busy, Alone, arrays, hist
  <1> QED BY <1>6, <1>7, <1>8, <1>9, <1>10, <1>11, <1>12, <1>13, <1>14 DEF IInv

LEMMA StorePidStep ==
  ASSUME IInv, NEW c \in Creator, StorePid(c)
  PROVE  IInv'
  <1> DEFINE r == [loc[c] EXCEPT !.pid = 0]
  <1>1. /\ pc[c] = "pid" /\ fault = "none" /\ loc[c].new \in Task /\ loc[c].pid \in Nat
        /\ loc[c].list = NULL /\ loc[c].old = NULL
        /\ pc' = [pc EXCEPT ![c] = "test"] /\ loc' = [loc EXCEPT ![c] = r]
    BY LocalIs DEF StorePid, At, Goto, Locals
  <1>2. r \in Local /\ r.new = loc[c].new /\ r.list = NULL /\ r.old = NULL /\ r.pid = 0
    BY <1>1, LocalIs DEF Local
  <1> HIDE DEF r
  <1>3. /\ pc' \in [Creator -> Labels] /\ loc' \in [Creator -> Local]
        /\ pc'[c] = "test" /\ loc'[c] = r /\ Alone(c)
    BY <1>1, <1>2, Stepped DEF IInv, Labels
  <1>4. /\ id' \in [Task -> Nat] /\ id'[loc[c].new] = loc[c].pid
        /\ \A u \in Task \ {loc[c].new} : id'[u] = id[u]
        /\ nextPid' = loc[c].pid + 1 /\ nextPid' \in Nat
    BY <1>1 DEF StorePid, IInv, TypeOK
  <1>5. /\ overlap' \in BOOLEAN /\ dangling' = dangling
        /\ ~overlap' => ~overlap /\ nextPid = loc[c].pid
    BY DEF StorePid, IInv, TypeOK
  <1>6. TypeOK'
    BY <1>3, <1>4, <1>5 DEF StorePid, IInv, TypeOK, Faults, arrays
  <1>7. \A d \in Creator : Locals(d)'
    BY <1>1, <1>2, <1>3 DEF IInv, Locals, Alone
  <1>8. Entries'
    BY <1>1, <1>2, <1>3 DEF StorePid, IInv, TypeOK, Entries, Storing, Alone, arrays
  <1>9. Unused'
    BY DEF StorePid, IInv, Unused, arrays
  <1>10. Links'
    BY <1>1, <1>3 DEF StorePid, IInv, Links, Pending, Alone, arrays
  <1>11. Sweep'
    BY <1>1, <1>3 DEF StorePid, IInv, Sweep, Sweeping, Cutting, Ahead, Pending, Alone, Locals, arrays
  <1>12. ~overlap' => OneAtATime'
    <2> SUFFICES ASSUME ~overlap' PROVE OneAtATime'
      OBVIOUS
    <2>1. OneAtATime
      BY <1>5 DEF IInv
    <2> QED BY <1>1, <1>3, <2>1 DEF StorePid, OneAtATime, Loaded, Busy, Alone, arrays
  <1>13. ~overlap' => Ids'
    <2> SUFFICES ASSUME ~overlap' PROVE Ids'
      OBVIOUS
    <2>1. Ids /\ Entries /\ nextPid = loc[c].pid
      BY <1>5 DEF IInv
    <2>2. /\ live' = live /\ listed' = listed /\ live \subseteq Task /\ nextPid \in Nat
          /\ id \in [Task -> Nat] /\ loc[c].new \in live /\ nextPid > 0
      BY <1>1, <2>1 DEF StorePid, Entries, Storing, IInv, TypeOK, Ids
    <2>3. ASSUME NEW d \in Creator
          PROVE  /\ pc'[d] = "pid" => loc'[d].pid > 0 /\ loc'[d].pid <= nextPid'
                 /\ pc'[d] \in {"test", "grow", "old", "link", "pick", "slot", "mask"} =>
                      id'[loc'[d].new] # 0 /\ loc'[d].new \in live'
      <3>1. CASE d = c
        BY <1>2, <1>3, <1>4, <2>1, <2>2, <3>1
      <3>2. CASE d # c
        BY <1>3, <1>4, <2>1, <2>2, <3>2, LocalIs DEF Alone, Ids
      <3> QED BY <3>1, <3>2
    <2> QED BY <1>4, <2>1, <2>2, <2>3 DEF Ids
  <1>14. ~overlap' /\ ~dangling' => Settled'
    <2> SUFFICES ASSUME ~overlap', ~dangling' PROVE Settled'
      OBVIOUS
    <2>1. Settled
      BY <1>5 DEF IInv
    <2> QED BY <1>1, <1>3, <2>1 DEF StorePid, Settled, AtEnd, Spare, LastOfChain, Chain, Busy, Alone, arrays
  <1> QED BY <1>6, <1>7, <1>8, <1>9, <1>10, <1>11, <1>12, <1>13, <1>14 DEF IInv

LEMMA TestFullStep ==
  ASSUME IInv, NEW c \in Creator, TestFull(c)
  PROVE  IInv'
  <1> DEFINE p == IF cur \in lists THEN IF mask[cur] = Full THEN "grow" ELSE "pick" ELSE "test"
  <1>0. /\ live' = live /\ id' = id /\ lists' = lists /\ tasks' = tasks /\ mask' = mask
        /\ nextOf' = nextOf /\ cur' = cur /\ nextPid' = nextPid /\ listed' = listed
    BY DEF TestFull, heap, arrays
  <1>1. /\ pc[c] = "test" /\ fault = "none" /\ loc[c].new \in Task
        /\ loc[c].list = NULL /\ loc[c].old = NULL
    BY LocalIs DEF TestFull, At, Locals
  <1>2. p \in Labels /\ pc' = [pc EXCEPT ![c] = p]
    BY <1>1 DEF TestFull, Goto, Labels, IInv, TypeOK
  <1>3. p \in {"grow", "pick", "test"} /\ (p = "pick" => mask[cur] # Full)
    OBVIOUS
  <1>4. fault' = IF cur \in lists THEN "none" ELSE "freed list"
    BY <1>1 DEF TestFull
  <1> HIDE DEF p
  <1>5. /\ pc' \in [Creator -> Labels] /\ pc'[c] = p /\ loc' = loc
        /\ \A d \in Creator \ {c} : pc'[d] = pc[d]
    BY <1>2 DEF TestFull, IInv, TypeOK
  <1>6. /\ overlap' \in BOOLEAN /\ dangling' = dangling
        /\ ~overlap' => ~overlap /\ \A d \in Creator \ {c} : ~Busy(d)
    BY DEF TestFull, IInv, TypeOK
  <1>7. TypeOK'
    BY <1>0, <1>4, <1>5, <1>6 DEF IInv, TypeOK, Faults
  <1>8. \A d \in Creator : Locals(d)'
    BY <1>1, <1>3, <1>5 DEF IInv, Locals
  <1>9. Entries'
    BY <1>0, <1>1, <1>3, <1>5 DEF IInv, Entries, Storing
  <1>10. Unused'
    BY <1>0 DEF IInv, Unused
  <1>11. Links'
    BY <1>0, <1>1, <1>3, <1>5 DEF IInv, Links, Pending
  <1>12. Sweep'
    BY <1>0, <1>1, <1>3, <1>5 DEF IInv, Sweep, Sweeping, Cutting, Ahead, Pending, Locals
  <1>13. ~overlap' => OneAtATime' /\ Ids'
    <2> SUFFICES ASSUME ~overlap' PROVE OneAtATime' /\ Ids'
      OBVIOUS
    <2>1. OneAtATime /\ Ids
      BY <1>6 DEF IInv
    <2>2. OneAtATime'
      <3>1. ASSUME NEW d \in Creator PROVE Loaded(d)'
        BY <1>0, <1>1, <1>3, <1>5, <2>1 DEF OneAtATime, Loaded
      <3>2. \A d, e \in Creator : Busy(d)' /\ Busy(e)' => d = e
        BY <1>1, <1>3, <1>5, <1>6 DEF Busy
      <3> QED BY <1>0, <1>4, <2>1, <3>1, <3>2 DEF OneAtATime
    <2>3. Ids'
      BY <1>0, <1>1, <1>3, <1>5, <2>1 DEF Ids
    <2> QED BY <2>2, <2>3
  <1>14. ~overlap' /\ ~dangling' => Settled'
    <2> SUFFICES ASSUME ~overlap', ~dangling' PROVE Settled'
      OBVIOUS
    <2>1. Settled
      BY <1>6 DEF IInv
    <2>2. LastOfChain(cur) /\ \A d \in Creator : pc[d] # "link"
      BY <1>1, <1>6, <2>1 DEF Settled, AtEnd, Spare, Busy
    <2>3. cur \in lists /\ fault' = "none"
      BY <1>4, <2>2, ChainListed DEF LastOfChain, IInv
    <2>4. pc[shell] = "free" => loc[shell].old \in lists /\ loc[shell].old # NULL
      BY DEF IInv, Sweep, Sweeping, Cutting, Ahead, TypeOK
    <2> QED BY <1>0, <1>1, <1>3, <1>5, <2>1, <2>2, <2>3, <2>4 DEF Settled, AtEnd, Spare, LastOfChain, Chain, Busy
  <1> QED BY <1>7, <1>8, <1>9, <1>10, <1>11, <1>12, <1>13, <1>14 DEF IInv

LEMMA NewListStep ==
  ASSUME IInv, NEW c \in Creator, NEW l \in List, NewList(c, l)
  PROVE  IInv'
  <1> DEFINE r == [loc[c] EXCEPT !.list = l]
  <1>1. /\ pc[c] = "grow" /\ fault = "none" /\ loc[c].new \in Task /\ l \notin lists
        /\ pc' = [pc EXCEPT ![c] = "old"] /\ loc' = [loc EXCEPT ![c] = r]
    BY LocalIs DEF NewList, At, Goto, Locals
  <1>2. r \in Local /\ r.new = loc[c].new /\ r.list = l /\ r.old = loc[c].old
    BY LocalIs DEF Local
  <1> HIDE DEF r
  <1>3. /\ pc' \in [Creator -> Labels] /\ loc' \in [Creator -> Local]
        /\ pc'[c] = "old" /\ loc'[c] = r /\ Alone(c)
    BY <1>1, <1>2, Stepped DEF IInv, Labels
  <1>4. tasks' = tasks /\ mask' = mask /\ nextOf' = nextOf
    BY <1>1, BlankAlready DEF NewList, IInv
  <1>5. /\ live' = live /\ id' = id /\ lists' = lists \cup {l} /\ cur' = cur
        /\ nextPid' = nextPid /\ fault' = fault
        /\ listed' = listed /\ overlap' = overlap /\ dangling' = dangling
    BY DEF NewList, hist
  <1>6. TypeOK'
    BY <1>3, <1>4, <1>5 DEF IInv, TypeOK
  <1>7. \A d \in Creator : Locals(d)'
    BY <1>1, <1>2, <1>3 DEF IInv, Locals, Alone
  <1>8. Entries'
    BY <1>1, <1>2, <1>3, <1>4, <1>5 DEF IInv, Entries, Storing, Alone
  <1>9. Unused'
    BY <1>4, <1>5 DEF IInv, Unused
  <1>10. nextOf[l] = NULL /\ l # first /\ l \notin lists /\ mask[l] = {}
         /\ \A m \in List : nextOf[m] # l
    BY <1>1 DEF IInv, Unused, Links
  <1>11. Links'
    BY <1>1, <1>2, <1>3, <1>4, <1>5, <1>10 DEF IInv, Links, Pending, Alone
  <1>12. Sweep'
    <2>1. ASSUME Sweeping'
          PROVE  loc'[shell].list \in lists' /\ \E S \in SUBSET lists' : Ahead(S)'
      <3>1. Sweeping /\ shell # c /\ loc'[shell] = loc[shell] /\ pc'[shell] = pc[shell]
        BY <1>1, <1>3, <2>1 DEF Sweeping, Alone
      <3>2. PICK S \in SUBSET lists : Ahead(S)
        BY <3>1 DEF IInv, Sweep
      <3>3. loc[shell].list \in lists
        BY <3>1 DEF IInv, Sweep
      <3>4. Ahead(S \cup {l})'
        BY <1>1, <1>2, <1>3, <1>4, <1>10, <3>1, <3>2, <3>3 DEF Ahead, Pending, Alone, Cutting
      <3> QED BY <1>5, <3>1, <3>3, <3>4
    <2>2. Cutting' => Cutting /\ shell # c /\ loc'[shell] = loc[shell] /\ pc'[shell] = pc[shell]
                      /\ loc[shell].old \in lists
      BY <1>1, <1>3 DEF Cutting, Alone, IInv, Sweep, Sweeping, Ahead
    <2>3. pc'[shell] = "unlink" => Cutting'
      BY DEF Cutting
    <2> QED BY <1>1, <1>2, <1>3, <1>4, <2>1, <2>2, <2>3 DEF IInv, Sweep, Pending, Alone
  <1>13. ~overlap' => OneAtATime' /\ Ids'
    <2> SUFFICES ASSUME ~overlap PROVE OneAtATime' /\ Ids'
      BY <1>5
    <2>1. OneAtATime /\ Ids
      BY DEF IInv
    <2>2. ASSUME NEW d \in Creator PROVE Loaded(d)'
      <3>1. d # c => ~Busy(d)
        BY <1>1, <2>1 DEF OneAtATime, Busy
      <3> QED BY <1>2, <1>3, <1>4, <1>5, <1>10, <2>1, <3>1 DEF OneAtATime, Loaded, Busy, Alone
    <2>3. \A d, e \in Creator : Busy(d)' /\ Busy(e)' => d = e
      BY <1>1, <1>3, <2>1 DEF Busy, Alone, OneAtATime
    <2>4. OneAtATime'
      BY <1>4, <1>5, <2>1, <2>2, <2>3 DEF OneAtATime
    <2>5. Ids'
      BY <1>1, <1>2, <1>3, <1>5, <2>1 DEF Ids, Alone
    <2> QED BY <2>4, <2>5
  <1>14. ~overlap' /\ ~dangling' => Settled'
    <2> SUFFICES ASSUME ~overlap, ~dangling PROVE Settled'
      BY <1>5
    <2>1. Settled
      BY DEF IInv
    <2>2. Chain' = Chain
      BY <1>4 DEF Chain
    <2>3. pc[shell] = "free" => loc[shell].old \in lists /\ shell # c
      BY <1>1 DEF IInv, Sweep, Sweeping, Cutting, Ahead
    <2> QED BY <1>1, <1>2, <1>3, <1>4, <1>5, <1>10, <2>1, <2>2, <2>3 DEF Settled, AtEnd, Spare, LastOfChain, Busy, Alone
  <1> QED BY <1>6, <1>7, <1>8, <1>9, <1>11, <1>12, <1>13, <1>14 DEF IInv

LEMMA ReadOldStep ==
  ASSUME IInv, NEW c \in Creator, ReadOld(c)
  PROVE  IInv'
  <1> DEFINE r == [loc[c] EXCEPT !.old = cur, !.todo = {"next", "cur"}]
  <1>1. /\ pc[c] = "old" /\ fault = "none" /\ loc[c].new \in Task /\ loc[c].list \in List
        /\ pc' = [pc EXCEPT ![c] = "link"] /\ loc' = [loc EXCEPT ![c] = r]
    BY LocalIs DEF ReadOld, At, Goto, Locals
  <1>2. /\ r \in Local /\ r.new = loc[c].new /\ r.list = loc[c].list /\ r.old = cur
        /\ r.todo = {"next", "cur"} /\ cur \in List
    BY LocalIs DEF Local, IInv, TypeOK
  <1> HIDE DEF r
  <1>3. /\ pc' \in [Creator -> Labels] /\ loc' \in [Creator -> Local]
        /\ pc'[c] = "link" /\ loc'[c] = r /\ Alone(c)
    BY <1>1, <1>2, Stepped DEF IInv, Labels
  <1>4. /\ tasks' = tasks /\ mask' = mask /\ nextOf' = nextOf
        /\ live' = live /\ id' = id /\ lists' = lists /\ cur' = cur
        /\ nextPid' = nextPid /\ fault' = fault
        /\ listed' = listed /\ overlap' = overlap /\ dangling' = dangling
    BY DEF ReadOld, hist, heap, arrays
  <1>5. \A d \in Creator : Pending(d)' <=> Pending(d)
    BY <1>1, <1>2, <1>3 DEF Pending, Alone
  <1>6. TypeOK'
    BY <1>3, <1>4 DEF IInv, TypeOK
  <1>7. \A d \in Creator : Locals(d)'
    BY <1>1, <1>2, <1>3 DEF IInv, Locals, Alone
  <1>8. Entries'
    BY <1>1, <1>2, <1>3, <1>4 DEF IInv, Entries, Storing, Alone
  <1>9. Unused'
    BY <1>4 DEF IInv, Unused
  <1>10. \A d \in Creator : loc'[d].list = loc[d].list /\ loc'[d].new = loc[d].new
    BY <1>2, <1>3 DEF Alone
  <1>11. Links'
    BY <1>1, <1>3, <1>4, <1>5, <1>10 DEF IInv, Links, Alone
  <1>12. Sweep'
    BY <1>1, <1>3, <1>4, <1>5, <1>10 DEF IInv, Sweep, Sweeping, Cutting, Ahead, Alone
  <1>13. ~overlap' => OneAtATime' /\ Ids'
    <2> SUFFICES ASSUME ~overlap PROVE OneAtATime' /\ Ids'
      BY <1>4
    <2>1. OneAtATime /\ Ids
      BY DEF IInv
    <2>2. ASSUME NEW d \in Creator PROVE Loaded(d)'
      BY <1>1, <1>2, <1>3, <1>4, <2>1, SMTT(30) DEF OneAtATime, Loaded, Alone
    <2>3. \A d, e \in Creator : Busy(d)' /\ Busy(e)' => d = e
      BY <1>1, <1>3, <2>1 DEF Busy, Alone, OneAtATime
    <2>4. OneAtATime'
      BY <1>4, <2>1, <2>2, <2>3 DEF OneAtATime
    <2>5. Ids'
      BY <1>1, <1>2, <1>3, <1>4, <2>1 DEF Ids, Alone
    <2> QED BY <2>4, <2>5
  <1>14. ~overlap' /\ ~dangling' => Settled'
    <2> SUFFICES ASSUME ~overlap, ~dangling PROVE Settled'
      BY <1>4
    <2>1. Settled
      BY DEF IInv
    <2>2. Chain' = Chain
      BY <1>4 DEF Chain
    <2>3. \A d \in Creator : Busy(d) => d = c
      BY <1>1 DEF IInv, OneAtATime, Busy
    <2>4. \A d \in Creator : Busy(d)' => d = c
      BY <1>3, <2>3 DEF Busy, Alone
    <2>5. LastOfChain(cur)
      BY <1>1, <2>1, <2>3 DEF Settled, AtEnd, Spare, Busy
    <2>6. pc[c] # "free" /\ (pc'[shell] = "free" => shell # c)
      BY <1>1, <1>3
    <2>7. nextOf[loc[c].list] = NULL /\ (pc[shell] = "free" => loc[shell].old \notin {loc[c].list, cur})
      BY <1>1, <2>1 DEF Settled, AtEnd, Spare, Busy
    <2> QED BY <1>1, <1>2, <1>3, <1>4, <2>1, <2>2, <2>3, <2>4, <2>5, <2>6, <2>7 DEF Settled, AtEnd, Spare, LastOfChain, Busy, Alone
  <1> QED BY <1>6, <1>7, <1>8, <1>9, <1>11, <1>12, <1>13, <1>14 DEF IInv

LEMMA LinkNextStep ==
  ASSUME IInv, NEW c \in Creator, LinkNext(c)
  PROVE  IInv'
  <1> DEFINE r == [loc[c] EXCEPT !.todo = loc[c].todo \ {"next"}]
             p == IF loc[c].todo = {"next"} THEN "pick" ELSE "link"
             l == loc[c].list
             o == loc[c].old
  <1>1. /\ pc[c] = "link" /\ "next" \in loc[c].todo /\ fault = "none"
        /\ loc[c].new \in Task /\ l \in List /\ o \in List
        /\ pc' = [pc EXCEPT ![c] = p] /\ loc' = [loc EXCEPT ![c] = r]
    BY LocalIs DEF LinkNext, Linked, At, Goto, Locals
  <1>2. r \in Local /\ r.new = loc[c].new /\ r.list = l /\ r.old = o /\ r.todo = loc[c].todo \ {"next"}
    BY LocalIs DEF Local
  <1>3. p \in {"pick", "link"} /\ (p = "link" <=> "cur" \in loc[c].todo)
    BY <1>1, LocalIs
  <1> HIDE DEF r, p
  <1>4. /\ pc' \in [Creator -> Labels] /\ loc' \in [Creator -> Local]
        /\ pc'[c] = p /\ loc'[c] = r /\ Alone(c)
    BY <1>1, <1>2, <1>3, Stepped DEF IInv, Labels
  <1>5. /\ tasks' = tasks /\ mask' = mask
        /\ live' = live /\ id' = id /\ lists' = lists /\ cur' = cur
        /\ nextPid' = nextPid
        /\ listed' = listed /\ overlap' = overlap /\ dangling' = dangling
    BY DEF LinkNext, hist, heap
  <1>6. /\ o \in lists => nextOf' = [nextOf EXCEPT ![o] = l] /\ fault' = fault
        /\ o \notin lists => nextOf' = nextOf /\ fault' = "freed list"
    BY DEF LinkNext
  <1>7. \A m \in List : nextOf'[m] = nextOf[m] \/ (m = o /\ o \in lists /\ nextOf'[m] = l)
    BY <1>1, <1>6 DEF IInv, TypeOK
  <1>8. l \in lists \ {first} /\ (\A m \in List : nextOf[m] # l)
        /\ \A d \in Creator : Pending(d) /\ loc[d].list = l => c = d
    BY <1>1 DEF IInv, Links, Pending
  <1>9. \A d \in Creator : Pending(d)' => Pending(d) /\ d # c /\ loc'[d] = loc[d]
    BY <1>2, <1>3, <1>4 DEF Pending, Alone
  <1>10. TypeOK'
    <2>1. fault' \in Faults /\ nextOf' \in [List -> List \cup {NULL}]
      BY <1>1, <1>6 DEF IInv, TypeOK, Faults
    <2> QED BY <1>4, <1>5, <2>1 DEF IInv, TypeOK
  <1>11. \A d \in Creator : Locals(d)'
    BY <1>1, <1>2, <1>3, <1>4 DEF IInv, Locals, Alone
  <1>12. Entries'
    BY <1>1, <1>2, <1>3, <1>4, <1>5 DEF IInv, Entries, Storing, Alone
  <1>13. Unused'
    BY <1>5, <1>7 DEF IInv, Unused
  <1>14. pc'[shell] \in {"clean", "unlink", "free"} \/ pc[shell] \in {"clean", "unlink", "free"} =>
           /\ shell # c /\ loc'[shell] = loc[shell] /\ pc'[shell] = pc[shell]
    BY <1>1, <1>3, <1>4 DEF Alone
  <1>15. Links'
    <2>1. \A m \in List : nextOf'[m] \in (lists' \ {first}) \cup {NULL}
      BY <1>5, <1>7, <1>8 DEF IInv, Links
    <2>2. \A m, n \in List : nextOf'[m] = nextOf'[n] /\ nextOf'[m] # NULL =>
            m = n \/ (pc'[shell] = "free" /\ loc'[shell].old \in {m, n})
      BY <1>7, <1>8, <1>14 DEF IInv, Links
    <2>3. ASSUME NEW d \in Creator, Pending(d)'
          PROVE  /\ loc'[d].list \in lists' \ {first}
                 /\ \A m \in List : nextOf'[m] # loc'[d].list
                 /\ \A e \in Creator : Pending(e)' /\ loc'[e].list = loc'[d].list => d = e
      BY <1>5, <1>7, <1>8, <1>9, <2>3 DEF IInv, Links
    <2> QED BY <1>5, <2>1, <2>2, <2>3 DEF Links, IInv
  <1>16. Sweep'
    <2>1. ASSUME Sweeping'
          PROVE  loc'[shell].list \in lists' /\ \E S \in SUBSET lists' : Ahead(S)'
      <3>1. Sweeping /\ shell # c /\ loc'[shell] = loc[shell] /\ pc'[shell] = pc[shell]
        BY <1>14, <2>1 DEF Sweeping
      <3>2. PICK S \in SUBSET lists : Ahead(S)
        BY <3>1 DEF IInv, Sweep
      <3>3. loc[shell].list \in lists
        BY <3>1 DEF IInv, Sweep
      <3>4. l \in S
        BY <1>1, <3>2 DEF Ahead, Pending
      <3>5. Ahead(S)'
        BY <1>5, <1>7, <1>9, <3>1, <3>2, <3>3, <3>4 DEF Ahead, Cutting, IInv, TypeOK
      <3> QED BY <1>5, <3>1, <3>3, <3>5
    <2>2. Cutting' => /\ Cutting /\ loc'[shell] = loc[shell] /\ pc'[shell] = pc[shell]
                      /\ loc[shell].list \in List /\ l # loc[shell].old /\ l # NULL
      BY <1>1, <1>14 DEF Cutting, IInv, Sweep, Sweeping, Ahead, TypeOK, Pending
    <2>3. pc'[shell] = "unlink" => Cutting'
      BY DEF Cutting
    <2> QED BY <1>7, <1>9, <2>1, <2>2, <2>3 DEF IInv, Sweep
  <1>17. ~overlap' => OneAtATime' /\ Ids'
    <2> SUFFICES ASSUME ~overlap PROVE OneAtATime' /\ Ids'
      BY <1>5
    <2>1. OneAtATime /\ Ids
      BY DEF IInv
    <2>2. ASSUME NEW d \in Creator PROVE Loaded(d)'
      <3>1. p = "pick" => mask[cur] # Full
        <4>1. p = "pick" => cur = l /\ mask[l] = {}
          BY <1>1, <1>3, <2>1 DEF OneAtATime, Loaded
        <4> QED BY <4>1, FullIs
      <3> QED BY <1>1, <1>2, <1>3, <1>4, <1>5, <2>1, <3>1, SMTT(30) DEF OneAtATime, Loaded, Alone
    <2>3. \A d, e \in Creator : Busy(d)' /\ Busy(e)' => d = e
      BY <1>1, <1>3, <1>4, <2>1 DEF Busy, Alone, OneAtATime
    <2>4. OneAtATime'
      BY <1>5, <1>6, <2>1, <2>2, <2>3 DEF OneAtATime
    <2>5. Ids'
      BY <1>1, <1>2, <1>3, <1>4, <1>5, <2>1 DEF Ids, Alone
    <2> QED BY <2>4, <2>5
  <1>18. ~overlap' /\ ~dangling' => Settled'
    <2> SUFFICES ASSUME ~overlap, ~dangling PROVE Settled'
      BY <1>5
    <2>1. Settled
      BY DEF IInv
    <2>2. \A d \in Creator : Busy(d) \/ Busy(d)' => d = c
      BY <1>1, <1>4 DEF IInv, OneAtATime, Busy, Alone
    <2>3. LastOfChain(o) /\ o \in lists /\ l \notin Chain /\ nextOf[l] = NULL
      BY <1>1, <1>8, <2>1, ChainListed DEF Settled, AtEnd, LastOfChain, IInv
    <2>4. nextOf' = [nextOf EXCEPT ![o] = l] /\ fault' = fault /\ nextOf'[l] = NULL /\ nextOf'[o] = l
      BY <1>1, <1>6, <2>3 DEF LastOfChain, IInv, TypeOK
    <2>5. Chain \cup {l} \subseteq Chain'
      <3>1. nextOf \in [List -> List \cup {NULL}]
        BY DEF IInv, TypeOK
      <3> HIDE DEF l, o
      <3> QED BY <1>1, <2>3, <2>4, <3>1, Appended DEF Chain, LastOfChain
    <2>6. l \in Chain' /\ nextOf'[l] = NULL /\ o \in Chain'
      BY <2>3, <2>4, <2>5 DEF LastOfChain
    <2>7. (\A d \in Creator : pc'[d] # "link") => LastOfChain(cur)'
      <3>1. ASSUME \A d \in Creator : pc'[d] # "link" PROVE cur = l
        BY <1>1, <1>3, <1>4, <3>1 DEF IInv, OneAtATime, Loaded
      <3> QED BY <1>5, <2>6, <3>1 DEF LastOfChain
    <2>8. ASSUME NEW d \in Creator PROVE AtEnd(d)'
      <3>1. CASE d = c
        BY <1>1, <1>2, <1>3, <1>4, <1>5, <2>1, <2>4, <2>6, <3>1 DEF Settled, AtEnd, LastOfChain
      <3>2. CASE d # c
        BY <2>2, <3>2 DEF Busy, AtEnd
      <3> QED BY <3>1, <3>2
    <2>9. pc'[shell] = "unlink" => nextOf'[loc'[shell].list] = loc'[shell].old
      <3>1. pc'[shell] = "unlink" => /\ pc[shell] = "unlink" /\ loc'[shell] = loc[shell]
                                     /\ loc[shell].list \in List /\ nextOf[loc[shell].list] # NULL
        BY <1>14 DEF IInv, Sweep, Sweeping, TypeOK
      <3>2. nextOf[o] = NULL
        BY <2>3 DEF LastOfChain
      <3> QED BY <1>7, <2>1, <3>1, <3>2 DEF Settled
    <2>10. pc'[shell] = "free" => Spare(loc[shell].old)'
      <3>1. Busy(c)
        BY <1>1 DEF Busy
      <3> QED BY <1>2, <1>4, <1>5, <1>14, <2>1, <2>2, <3>1 DEF Settled, Spare
    <2>11. \A t \in listed' : \E m \in Chain' : \E s \in mask'[m] : tasks'[m][s] = t
      <3>1. \A t \in listed : \E m \in Chain : \E s \in mask[m] : tasks[m][s] = t
        BY <2>1 DEF Settled
      <3> QED BY <1>5, <2>5, <3>1
    <2>12. fault' # "freed list"
      BY <2>1, <2>4 DEF Settled
    <2> QED BY <2>7, <2>8, <2>9, <2>10, <2>11, <2>12 DEF Settled
  <1> QED BY <1>10, <1>11, <1>12, <1>13, <1>15, <1>16, <1>17, <1>18 DEF IInv

LEMMA LinkCurStep ==
  ASSUME IInv, NEW c \in Creator, LinkCur(c)
  PROVE  IInv'
  <1> DEFINE r == [loc[c] EXCEPT !.todo = loc[c].todo \ {"cur"}]
             p == IF loc[c].todo = {"cur"} THEN "pick" ELSE "link"
             l == loc[c].list
  <1>1. /\ pc[c] = "link" /\ "cur" \in loc[c].todo /\ fault = "none"
        /\ loc[c].new \in Task /\ l \in List /\ loc[c].old \in List
        /\ pc' = [pc EXCEPT ![c] = p] /\ loc' = [loc EXCEPT ![c] = r]
    BY LocalIs DEF LinkCur, Linked, At, Goto, Locals
  <1>2. /\ r \in Local /\ r.new = loc[c].new /\ r.list = l /\ r.old = loc[c].old
        /\ r.todo = loc[c].todo \ {"cur"}
    BY LocalIs DEF Local
  <1>3. p \in {"pick", "link"} /\ (p = "link" <=> "next" \in loc[c].todo)
    BY <1>1, LocalIs
  <1> HIDE DEF r, p
  <1>4. /\ pc' \in [Creator -> Labels] /\ loc' \in [Creator -> Local]
        /\ pc'[c] = p /\ loc'[c] = r /\ Alone(c)
    BY <1>1, <1>2, <1>3, Stepped DEF IInv, Labels
  <1>5. /\ tasks' = tasks /\ mask' = mask /\ nextOf' = nextOf
        /\ live' = live /\ id' = id /\ lists' = lists /\ cur' = l
        /\ nextPid' = nextPid /\ fault' = fault
        /\ listed' = listed /\ overlap' = overlap /\ dangling' = dangling
    BY DEF LinkCur, hist, heap, arrays
  <1>6. \A d \in Creator : /\ loc'[d].list = loc[d].list /\ loc'[d].new = loc[d].new
                            /\ loc'[d].old = loc[d].old
    BY <1>2, <1>4 DEF Alone
  <1>16. \A d \in Creator : Pending(d)' <=> Pending(d)
    BY <1>1, <1>2, <1>3, <1>4 DEF Pending, Alone
  <1>7. pc'[shell] \in {"clean", "unlink", "free"} \/ pc[shell] \in {"clean", "unlink", "free"} =>
           /\ shell # c /\ pc'[shell] = pc[shell]
    BY <1>1, <1>3, <1>4 DEF Alone
  <1>8. TypeOK'
    BY <1>1, <1>4, <1>5 DEF IInv, TypeOK
  <1>9. \A d \in Creator : Locals(d)'
    BY <1>1, <1>2, <1>3, <1>4 DEF IInv, Locals, Alone
  <1>10. Entries'
    BY <1>1, <1>2, <1>3, <1>4, <1>5 DEF IInv, Entries, Storing, Alone
  <1>11. Unused'
    BY <1>5 DEF IInv, Unused
  <1>12. Links'
    BY <1>5, <1>6, <1>7, <1>16 DEF IInv, Links
  <1>13. Sweep'
    BY <1>5, <1>6, <1>7, <1>16 DEF IInv, Sweep, Sweeping, Cutting, Ahead
  <1>14. ~overlap' => OneAtATime' /\ Ids'
    <2> SUFFICES ASSUME ~overlap PROVE OneAtATime' /\ Ids'
      BY <1>5
    <2>1. OneAtATime /\ Ids
      BY DEF IInv
    <2>2. \A d \in Creator : Busy(d) \/ Busy(d)' => d = c
      BY <1>1, <1>4, <2>1 DEF OneAtATime, Busy, Alone
    <2>3. ASSUME NEW d \in Creator PROVE Loaded(d)'
      <3>1. mask[l] = {} /\ mask[l] # Full
        BY <1>1, <2>1 DEF OneAtATime, Loaded, Full, Slot
      <3>2. CASE d = c
        BY <1>2, <1>3, <1>4, <1>5, <3>1, <3>2 DEF Loaded
      <3>3. CASE d # c
        BY <2>2, <3>3 DEF Loaded, Busy
      <3> QED BY <3>2, <3>3
    <2>4. OneAtATime'
      BY <1>5, <2>1, <2>2, <2>3 DEF OneAtATime
    <2>5. Ids'
      BY <1>1, <1>2, <1>3, <1>4, <1>5, <2>1 DEF Ids, Alone
    <2> QED BY <2>4, <2>5
  <1>15. ~overlap' /\ ~dangling' => Settled'
    <2> SUFFICES ASSUME ~overlap, ~dangling PROVE Settled'
      BY <1>5
    <2>1. Settled /\ Busy(c)
      BY <1>1 DEF IInv, Busy
    <2>2. \A d \in Creator : Busy(d) \/ Busy(d)' => d = c
      BY <1>1, <1>4 DEF IInv, OneAtATime, Busy, Alone
    <2>3. Chain' = Chain
      BY <1>5 DEF Chain
    <2>4. (\A d \in Creator : pc'[d] # "link") => LastOfChain(cur)'
      BY <1>1, <1>3, <1>4, <1>5, <2>1, <2>3 DEF Settled, AtEnd, LastOfChain
    <2>5. ASSUME NEW d \in Creator PROVE AtEnd(d)'
      <3>1. CASE d = c
        BY <1>1, <1>2, <1>3, <1>4, <1>5, <2>1, <2>3, <3>1 DEF Settled, AtEnd, LastOfChain
      <3>2. CASE d # c
        BY <2>2, <3>2 DEF Busy, AtEnd
      <3> QED BY <3>1, <3>2
    <2>6. pc'[shell] = "unlink" => nextOf'[loc'[shell].list] = loc'[shell].old
      BY <1>5, <1>6, <1>7, <2>1 DEF Settled
    <2>7. pc'[shell] = "free" => Spare(loc[shell].old)'
      BY <1>5, <1>6, <1>7, <2>1, <2>2 DEF Settled, Spare
    <2> QED BY <1>5, <2>1, <2>3, <2>4, <2>5, <2>6, <2>7, ZenonT(40) DEF Settled
  <1> QED BY <1>8, <1>9, <1>10, <1>11, <1>12, <1>13, <1>14, <1>15 DEF IInv

LEMMA PickSlotStep ==
  ASSUME IInv, NEW c \in Creator, PickSlot(c)
  PROVE  IInv'
  <1>0. /\ live' = live /\ id' = id /\ lists' = lists /\ tasks' = tasks /\ mask' = mask
        /\ nextOf' = nextOf /\ cur' = cur /\ nextPid' = nextPid
        /\ listed' = listed /\ overlap' = overlap /\ dangling' = dangling
    BY DEF PickSlot, heap, arrays, hist
  <1>1. pc[c] = "pick" /\ fault = "none" /\ loc[c].new \in Task
    BY LocalIs DEF PickSlot, At, Locals
  <1>2. Chain' = Chain
    BY <1>0 DEF Chain
  <1>3. ~overlap => /\ \A d \in Creator : Busy(d) => d = c
                    /\ mask[cur] # Full
    BY <1>1 DEF IInv, OneAtATime, Loaded, Busy
  <1>4. ~overlap /\ ~dangling => LastOfChain(cur) /\ cur \in lists
    <2> SUFFICES ASSUME ~overlap, ~dangling PROVE LastOfChain(cur) /\ cur \in lists
      OBVIOUS
    <2>1. LastOfChain(cur)
      BY <1>1, <1>3 DEF IInv, Settled, Busy
    <2> QED BY <2>1, ChainListed DEF LastOfChain, IInv
  <1>5. CASE pc' = pc /\ loc' = loc /\ fault' = "no slot" /\ cur \in lists /\ LowestFree(mask[cur]) = {}
    <2>1. mask[cur] = Full
      BY <1>5, LowestFreeIs, ZenonT(40) DEF IInv, TypeOK
    <2>2. overlap'
      BY <1>0, <1>3, <2>1
    <2>3. UNCHANGED <<heap, arrays, cur, nextPid, pc, loc, hist>> /\ fault' \in Faults
      BY <1>0, <1>5 DEF Faults, heap, arrays, hist
    <2> QED BY <2>2, <2>3, OnlyFault DEF IInv
  <1>6. CASE pc' = pc /\ loc' = loc /\ fault' = "freed list" /\ cur \notin lists
    <2>1. UNCHANGED <<heap, arrays, cur, nextPid, pc, loc, hist>> /\ fault' \in Faults
      BY <1>0, <1>6 DEF Faults, heap, arrays, hist
    <2>2. overlap' \/ dangling'
      BY <1>0, <1>4, <1>6
    <2> QED BY <1>6, <2>1, <2>2, OnlyFault DEF IInv
  <1>7. ASSUME cur \in lists, NEW s \in LowestFree(mask[cur]), fault' = fault,
               loc' = [loc EXCEPT ![c] = [NoLocal EXCEPT
                         !.new = loc[c].new, !.list = cur, !.used = mask[cur], !.slot = s]],
               pc' = [pc EXCEPT ![c] = "slot"]
        PROVE  IInv'
    <2> DEFINE r == [NoLocal EXCEPT
                       !.new = loc[c].new, !.list = cur, !.used = mask[cur], !.slot = s]
    <2>1. s \in Slot \ mask[cur] /\ mask[cur] \in SUBSET Slot /\ cur \in List
      BY LowestFreeIs DEF IInv, TypeOK
    <2>2. /\ r \in Local /\ r.new = loc[c].new /\ r.list = cur /\ r.used = mask[cur] /\ r.slot = s
          /\ r.old = NULL
      BY <1>1, <2>1 DEF NoLocal, Local
    <2> HIDE DEF r
    <2>3. /\ pc' \in [Creator -> Labels] /\ loc' \in [Creator -> Local]
          /\ pc'[c] = "slot" /\ loc'[c] = r /\ Alone(c)
      BY <1>7, <2>2, Stepped DEF IInv, Labels, r
    <2>4. pc'[shell] \in {"clean", "unlink", "free"} \/ pc[shell] \in {"clean", "unlink", "free"} =>
             /\ shell # c /\ pc'[shell] = pc[shell] /\ loc'[shell] = loc[shell]
      BY <1>1, <2>3 DEF Alone
    <2>5. \A d \in Creator : Pending(d) \/ Pending(d)' => d # c
      BY <1>1, <2>3 DEF Pending
    <2>6. \A d \in Creator : d # c => loc'[d] = loc[d] /\ (Pending(d)' <=> Pending(d))
      BY <2>3 DEF Pending, Alone
    <2>7. TypeOK'
      BY <1>0, <1>7, <2>3 DEF IInv, TypeOK
    <2>8. \A d \in Creator : Locals(d)'
      BY <1>1, <2>1, <2>2, <2>3 DEF IInv, Locals, Alone
    <2>9. Entries'
      BY <1>0, <1>1, <2>2, <2>3 DEF IInv, Entries, Storing, Alone
    <2>10. Unused'
      BY <1>0 DEF IInv, Unused
    <2>11. Links'
      BY <1>0, <2>4, <2>5, <2>6 DEF IInv, Links
    <2>12. Sweep'
      BY <1>0, <2>4, <2>5, <2>6 DEF IInv, Sweep, Sweeping, Cutting, Ahead
    <2>13. ~overlap' => OneAtATime' /\ Ids'
      <3> SUFFICES ASSUME ~overlap PROVE OneAtATime' /\ Ids'
        BY <1>0
      <3>1. OneAtATime /\ Ids
        BY DEF IInv
      <3>2. \A d \in Creator : Busy(d)' => d = c
        BY <1>3, <2>3 DEF Busy, Alone
      <3>3. ASSUME NEW d \in Creator PROVE Loaded(d)'
        <4>1. CASE d = c
          BY <1>0, <2>1, <2>2, <2>3, <4>1 DEF Loaded
        <4>2. CASE d # c
          BY <3>2, <4>2 DEF Loaded, Busy
        <4> QED BY <4>1, <4>2
      <3>4. OneAtATime'
        BY <1>0, <1>7, <3>1, <3>2, <3>3 DEF OneAtATime
      <3>5. Ids'
        BY <1>0, <1>1, <2>2, <2>3, <3>1 DEF Ids, Alone
      <3> QED BY <3>4, <3>5
    <2>14. ~overlap' /\ ~dangling' => Settled'
      <3> SUFFICES ASSUME ~overlap, ~dangling PROVE Settled'
        BY <1>0
      <3>1. Settled /\ Busy(c)
        BY <1>1 DEF IInv, Busy
      <3>2. \A d \in Creator : Busy(d)' => d = c
        BY <1>3, <2>3 DEF Busy, Alone
      <3>3. LastOfChain(cur)'
        BY <1>0, <1>2, <1>4 DEF LastOfChain
      <3>4. ASSUME NEW d \in Creator PROVE AtEnd(d)'
        <4>1. CASE d = c
          BY <1>0, <2>2, <2>3, <4>1 DEF AtEnd
        <4>2. CASE d # c
          BY <3>2, <4>2 DEF AtEnd, Busy
        <4> QED BY <4>1, <4>2
      <3>5. pc'[shell] = "free" => Spare(loc[shell].old)'
        <4>1. pc'[shell] = "free" => /\ pc[shell] = "free" /\ loc'[shell] = loc[shell]
                                     /\ loc[shell].old # NULL
          BY <2>4 DEF IInv, Sweep, Sweeping, Cutting, Ahead, TypeOK
        <4> QED BY <1>0, <2>2, <2>3, <3>1, <3>2, <4>1 DEF Settled, Spare
      <3>6. pc'[shell] = "unlink" => nextOf'[loc'[shell].list] = loc'[shell].old
        BY <1>0, <2>4, <3>1 DEF Settled
      <3> QED BY <1>0, <1>2, <1>7, <3>1, <3>3, <3>4, <3>5, <3>6, ZenonT(40) DEF Settled
    <2> QED BY <2>7, <2>8, <2>9, <2>10, <2>11, <2>12, <2>13, <2>14 DEF IInv
  <1>8. \/ pc' = pc /\ loc' = loc /\ fault' = "no slot" /\ cur \in lists /\ LowestFree(mask[cur]) = {}
        \/ pc' = pc /\ loc' = loc /\ fault' = "freed list" /\ cur \notin lists
        \/ /\ cur \in lists /\ fault' = fault /\ pc' = [pc EXCEPT ![c] = "slot"]
           /\ \E s \in LowestFree(mask[cur]) :
                loc' = [loc EXCEPT ![c] = [NoLocal EXCEPT
                         !.new = loc[c].new, !.list = cur, !.used = mask[cur], !.slot = s]]
    BY DEF PickSlot, Goto
  <1> QED BY <1>5, <1>6, <1>7, <1>8

LEMMA StoreTaskStep ==
  ASSUME IInv, NEW c \in Creator, StoreTask(c)
  PROVE  IInv'
  <1> DEFINE l == loc[c].list
             s == loc[c].slot
             n == loc[c].new
  <1>0. /\ live' = live /\ id' = id /\ lists' = lists /\ mask' = mask /\ loc' = loc
        /\ nextOf' = nextOf /\ cur' = cur /\ nextPid' = nextPid
        /\ listed' = listed /\ overlap' = overlap /\ dangling' = dangling
    BY DEF StoreTask, heap, hist
  <1>1. /\ pc[c] = "slot" /\ fault = "none" /\ n \in Task /\ l \in List /\ s \in Slot
        /\ pc' = [pc EXCEPT ![c] = "mask"] /\ n # NULL
    BY LocalIs DEF StoreTask, At, Locals, Goto
  <1>2. pc' \in [Creator -> Labels] /\ pc'[c] = "mask" /\ \A d \in Creator \ {c} : pc'[d] = pc[d]
    BY <1>1 DEF IInv, TypeOK, Labels
  <1>3. /\ l \in lists => tasks' = [tasks EXCEPT ![l][s] = n] /\ fault' = fault
        /\ l \notin lists => tasks' = tasks /\ fault' = "freed list"
    BY DEF StoreTask
  <1>4. \A m \in List, q \in Slot :
          tasks'[m][q] = IF l \in lists /\ m = l /\ q = s THEN n ELSE tasks[m][q]
    <2> HIDE DEF l, s, n
    <2>1. CASE l \in lists
      <3>1. tasks' = [tasks EXCEPT ![l][s] = n] /\ TypeOK /\ n \in Task \cup {NULL}
        BY <1>1, <1>3, <2>1 DEF IInv
      <3> QED BY <1>1, <2>1, <3>1, EntryStored
    <2> QED BY <1>3, <2>1
  <1>5. tasks' \in [List -> [Slot -> Task \cup {NULL}]] /\ fault' \in Faults
    <2>1. tasks \in [List -> [Slot -> Task \cup {NULL}]]
      BY DEF IInv, TypeOK
    <2> HIDE DEF l, s, n
    <2>2. CASE l \in lists
      <3>1. tasks' = [tasks EXCEPT ![l][s] = n] /\ TypeOK /\ n \in Task \cup {NULL}
        BY <1>1, <1>3, <2>2 DEF IInv
      <3>2. tasks' \in [List -> [Slot -> Task \cup {NULL}]]
        BY <1>1, <3>1, EntryStored
      <3> QED BY <1>1, <1>3, <2>2, <3>2 DEF Faults
    <2> QED BY <1>3, <2>1, <2>2 DEF Faults
  <1>6. n \in live /\ \A m \in List, q \in Slot : tasks[m][q] # n
    BY <1>1 DEF IInv, Entries, Storing
  <1>7. TypeOK'
    BY <1>0, <1>2, <1>5 DEF IInv, TypeOK
  <1>8. \A d \in Creator : Locals(d)'
    BY <1>0, <1>1, <1>2 DEF IInv, Locals
  <1>9. Entries'
    <2>1. \A m \in List, q \in Slot : tasks'[m][q] \in live' \cup {NULL}
      BY <1>0, <1>4, <1>6 DEF IInv, Entries
    <2>2. \A m, o \in List, q, r \in Slot :
            tasks'[m][q] = tasks'[o][r] /\ tasks'[m][q] # NULL => m = o /\ q = r
      BY <1>4, <1>6 DEF IInv, Entries
    <2>3. ASSUME NEW d \in Creator, Storing(d)'
          PROVE  /\ Storing(d) /\ d # c /\ loc[d].new # n
      BY <1>1, <1>2, <2>3 DEF IInv, Entries, Storing
    <2>4. ASSUME NEW d \in Creator, Storing(d)'
          PROVE  /\ loc'[d].new \in live'
                 /\ \A m \in List, q \in Slot : tasks'[m][q] # loc'[d].new
                 /\ \A e \in Creator : Storing(e)' /\ loc'[e].new = loc'[d].new => d = e
      BY <1>0, <1>4, <2>3, <2>4 DEF IInv, Entries
    <2> QED BY <2>1, <2>2, <2>4 DEF Entries
  <1>10. Unused'
    BY <1>0, <1>4 DEF IInv, Unused
  <1>11. pc'[shell] \in {"clean", "unlink", "free"} \/ pc[shell] \in {"clean", "unlink", "free"} =>
           shell # c /\ pc'[shell] = pc[shell]
    BY <1>1, <1>2
  <1>12. \A d \in Creator : Pending(d)' <=> Pending(d)
    BY <1>0, <1>1, <1>2 DEF Pending
  <1>13. Links'
    BY <1>0, <1>11, <1>12 DEF IInv, Links
  <1>14. Sweep'
    BY <1>0, <1>11, <1>12 DEF IInv, Sweep, Sweeping, Cutting, Ahead
  <1>15. ~overlap' => OneAtATime' /\ Ids'
    <2> SUFFICES ASSUME ~overlap PROVE OneAtATime' /\ Ids'
      BY <1>0
    <2>1. OneAtATime /\ Ids
      BY DEF IInv
    <2>2. \A d \in Creator : Busy(d) \/ Busy(d)' => d = c
      BY <1>1, <1>2, <2>1 DEF OneAtATime, Busy
    <2>3. ASSUME NEW d \in Creator PROVE Loaded(d)'
      <3>1. CASE d = c
        BY <1>0, <1>1, <1>2, <1>4, <1>6, <2>1, <3>1 DEF OneAtATime, Loaded
      <3>2. CASE d # c
        BY <2>2, <3>2 DEF Loaded, Busy
      <3> QED BY <3>1, <3>2
    <2>4. \A m \in List : \A q \in mask[m] : tasks'[m][q] # NULL
      BY <1>1, <1>4, <2>1 DEF OneAtATime, IInv, TypeOK
    <2>5. fault' \notin {"NULL entry", "no slot"}
      BY <1>3, <2>1 DEF OneAtATime
    <2>6. OneAtATime'
      BY <1>0, <2>2, <2>3, <2>4, <2>5 DEF OneAtATime
    <2>7. Ids'
      BY <1>0, <1>1, <1>2, <2>1 DEF Ids
    <2> QED BY <2>6, <2>7
  <1>16. ~overlap' /\ ~dangling' => Settled'
    <2> SUFFICES ASSUME ~overlap, ~dangling PROVE Settled'
      BY <1>0
    <2>1. Settled /\ Busy(c)
      BY <1>1 DEF IInv, Busy
    <2>2. \A d \in Creator : Busy(d) \/ Busy(d)' => d = c
      BY <1>1, <1>2 DEF IInv, OneAtATime, Busy
    <2>3. Chain' = Chain
      BY <1>0 DEF Chain
    <2>4. LastOfChain(cur) /\ l = cur
      BY <1>1, <2>1, <2>2 DEF Settled, AtEnd, Busy
    <2>5. l \in lists /\ fault' = fault
      BY <1>3, <2>4, ChainListed DEF LastOfChain, IInv
    <2>6. ASSUME NEW d \in Creator PROVE AtEnd(d)'
      BY <1>0, <1>1, <1>2, <2>1, <2>3 DEF Settled, AtEnd, LastOfChain
    <2>7. pc'[shell] = "free" => Spare(loc[shell].old)'
      BY <1>0, <1>11, <2>1, <2>2 DEF Settled, Spare
    <2>8. \A t \in listed : \E m \in Chain : \E q \in mask[m] : tasks'[m][q] = t
      <3>1. s \notin mask[l]
        BY <1>1 DEF IInv, OneAtATime, Loaded
      <3>2. \A m \in Chain : \A q \in mask[m] : m \in List /\ q \in Slot /\ tasks'[m][q] = tasks[m][q]
        BY <1>4, <3>1, ChainListed DEF IInv, TypeOK
      <3>3. \A t \in listed : \E m \in Chain : \E q \in mask[m] : tasks[m][q] = t
        BY <2>1 DEF Settled
      <3> QED BY <3>2, <3>3
    <2>9. LastOfChain(cur)'
      BY <1>0, <2>3, <2>4 DEF LastOfChain
    <2>10. pc'[shell] = "unlink" => nextOf'[loc'[shell].list] = loc'[shell].old
      BY <1>0, <1>11, <2>1 DEF Settled
    <2> QED BY <1>0, <2>1, <2>3, <2>5, <2>6, <2>7, <2>8, <2>9, <2>10 DEF Settled
  <1> QED BY <1>7, <1>8, <1>9, <1>10, <1>13, <1>14, <1>15, <1>16 DEF IInv

LEMMA StoreMaskStep ==
  ASSUME IInv, NEW c \in Creator, StoreMask(c)
  PROVE  IInv'
  <1> DEFINE l == loc[c].list
             s == loc[c].slot
             n == loc[c].new
  <1>0. /\ live' = live /\ id' = id /\ lists' = lists /\ tasks' = tasks
        /\ nextOf' = nextOf /\ cur' = cur /\ nextPid' = nextPid
        /\ overlap' = overlap /\ dangling' = dangling
    BY DEF StoreMask, heap
  <1>1. /\ pc[c] = "mask" /\ fault = "none" /\ n \in Task /\ l \in List /\ s \in Slot
        /\ pc' = [pc EXCEPT ![c] = "idle"] /\ loc' = [loc EXCEPT ![c] = NoLocal]
        /\ loc[c].used \in SUBSET Slot
    BY LocalIs DEF StoreMask, At, Locals, Goto
  <1>2. /\ pc' \in [Creator -> Labels] /\ loc' \in [Creator -> Local]
        /\ pc'[c] = "idle" /\ loc'[c] = NoLocal /\ Alone(c)
    BY <1>1, NoLocalIs, Stepped DEF IInv, Labels
  <1>3. (\A d \in Creator : Locals(d)') /\ Entries' /\ Links' /\ Sweep'
    <2>1. \A d \in Creator : Locals(d)'
      BY <1>2 DEF IInv, Locals, Alone
    <2>2. Entries'
      BY <1>0, <1>1, <1>2 DEF IInv, Entries, Storing, Alone
    <2>3. Links'
      BY <1>0, <1>1, <1>2 DEF IInv, Links, Pending, Alone
    <2>4. Sweep'
      BY <1>0, <1>1, <1>2 DEF IInv, Sweep, Sweeping, Cutting, Ahead, Pending, Alone
    <2> QED BY <2>1, <2>2, <2>3, <2>4
  <1>4. CASE l \in lists
    <2>1. PICK m \in {loc[c].used, mask[l]} : mask' = [mask EXCEPT ![l] = m \cup {s}]
      BY <1>4 DEF StoreMask
    <2>2. listed' = (IF n \in live THEN listed \cup {n} ELSE listed) /\ fault' = fault
      BY <1>4 DEF StoreMask
    <2>3. /\ mask' \in [List -> SUBSET Slot] /\ mask'[l] = m \cup {s}
          /\ \A k \in List \ {l} : mask'[k] = mask[k]
      BY <1>1, <2>1 DEF IInv, TypeOK
    <2>4. TypeOK'
      <3>1. listed' \in SUBSET Task
        BY <1>1, <2>2 DEF IInv, TypeOK
      <3> QED BY <1>0, <1>2, <2>2, <2>3, <3>1 DEF IInv, TypeOK
    <2>5. ~overlap' => OneAtATime' /\ Ids'
      <3> SUFFICES ASSUME ~overlap PROVE OneAtATime' /\ Ids'
        BY <1>0
      <3>1. OneAtATime /\ Ids /\ Loaded(c)
        BY DEF IInv, OneAtATime
      <3>2. \A d \in Creator : Busy(d) \/ Busy(d)' => d = c
        BY <1>1, <1>2, <3>1 DEF OneAtATime, Busy, Alone
      <3>3. ~Busy(c)'
        BY <1>2 DEF Busy
      <3>4. \A d \in Creator : Loaded(d)'
        BY <3>2, <3>3 DEF Loaded, Busy
      <3>5. m = mask[l] /\ tasks[l][s] = n /\ n # NULL
        BY <1>1, <1>4, <2>1, <3>1 DEF Loaded
      <3>6. \A k \in List : \A q \in mask'[k] : tasks[k][q] # NULL
        BY <1>1, <2>3, <3>1, <3>5 DEF OneAtATime
      <3>7. OneAtATime'
        BY <1>0, <2>2, <3>1, <3>2, <3>4, <3>6 DEF OneAtATime
      <3>8. Ids'
        BY <1>0, <1>1, <1>2, <2>2, <3>1 DEF Ids, Alone
      <3> QED BY <3>7, <3>8
    <2>6. ~overlap' /\ ~dangling' => Settled'
      <3> SUFFICES ASSUME ~overlap, ~dangling PROVE Settled'
        BY <1>0
      <3>1. Settled /\ AtEnd(c) /\ Loaded(c) /\ Ids
        BY DEF IInv, Settled, OneAtATime
      <3>2. (\A d \in Creator : Busy(d) \/ Busy(d)' => d = c) /\ ~Busy(c)'
        BY <1>1, <1>2 DEF IInv, OneAtATime, Busy, Alone
      <3>3. Chain' = Chain
        BY <1>0 DEF Chain
      <3>4. LastOfChain(cur) /\ l = cur /\ l \in Chain
        BY <1>1, <3>1, <3>2 DEF Settled, AtEnd, Busy, LastOfChain
      <3>5. LastOfChain(cur)'
        BY <1>0, <3>3, <3>4 DEF LastOfChain
      <3>6. \A d \in Creator : AtEnd(d)'
        BY <3>2 DEF AtEnd, Busy
      <3>7. pc'[shell] \in {"unlink", "free"} => /\ pc'[shell] = pc[shell] /\ loc'[shell] = loc[shell]
                                                  /\ loc[shell].old \in List
        BY <1>1, <1>2 DEF Alone, IInv, Sweep, Sweeping, Cutting, Ahead, TypeOK
      <3>8. pc'[shell] = "free" => Spare(loc[shell].old)'
        BY <1>0, <2>3, <3>1, <3>2, <3>4, <3>7 DEF Settled, Spare
      <3>9. m = mask[l] /\ tasks[l][s] = n
        BY <1>1, <1>4, <2>1, <3>1 DEF Loaded
      <3>10. ASSUME NEW t \in listed' PROVE \E k \in Chain : \E q \in mask'[k] : tasks[k][q] = t
        <4>1. CASE t \in listed
          <5>1. PICK k \in Chain : \E q \in mask[k] : tasks[k][q] = t
            BY <3>1, <4>1 DEF Settled
          <5>2. mask[k] \subseteq mask'[k]
            BY <2>3, <3>9, <5>1, ChainListed DEF IInv
          <5> QED BY <5>1, <5>2
        <4>2. CASE t = n
          BY <2>3, <3>4, <3>9, <4>2
        <4> QED BY <2>2, <4>1, <4>2
      <3>11. pc'[shell] = "unlink" => nextOf'[loc'[shell].list] = loc'[shell].old
        BY <1>0, <3>1, <3>7 DEF Settled
      <3>12. fault' # "freed list" /\ tasks' = tasks /\ Chain' = Chain
        BY <1>0, <2>2, <3>1, <3>3 DEF Settled
      <3>13. \A t \in listed' : \E k \in Chain' : \E q \in mask'[k] : tasks'[k][q] = t
        BY <3>10, <3>12
      <3> QED BY <3>5, <3>6, <3>8, <3>11, <3>12, <3>13 DEF Settled
    <2>7. Unused'
      BY <1>0, <1>4, <2>3 DEF IInv, Unused
    <2> QED BY <1>3, <2>4, <2>5, <2>6, <2>7 DEF IInv
  <1>5. CASE l \notin lists
    <2>1. mask' = mask /\ listed' = listed /\ fault' = "freed list"
      BY <1>5 DEF StoreMask
    <2>2. TypeOK'
      BY <1>0, <1>2, <2>1 DEF IInv, TypeOK, Faults
    <2>3. Unused'
      BY <1>0, <2>1 DEF IInv, Unused
    <2>4. ~overlap' => OneAtATime' /\ Ids'
      <3> SUFFICES ASSUME ~overlap PROVE OneAtATime' /\ Ids'
        BY <1>0
      <3>1. OneAtATime /\ Ids
        BY DEF IInv
      <3>2. (\A d \in Creator : Busy(d) \/ Busy(d)' => d = c) /\ ~Busy(c)'
        BY <1>1, <1>2, <3>1 DEF OneAtATime, Busy, Alone
      <3>3. \A d \in Creator : Loaded(d)'
        BY <3>2 DEF Loaded, Busy
      <3>4. OneAtATime'
        BY <1>0, <2>1, <3>1, <3>2, <3>3 DEF OneAtATime
      <3>5. Ids'
        BY <1>0, <1>1, <1>2, <2>1, <3>1, ZenonT(40) DEF Ids, Alone
      <3> QED BY <3>4, <3>5
    <2>5. overlap \/ dangling
      <3> SUFFICES ASSUME ~overlap, ~dangling PROVE FALSE
        OBVIOUS
      <3>1. Settled /\ AtEnd(c)
        BY DEF IInv, Settled
      <3>2. \A d \in Creator : pc[d] # "link"
        BY <1>1 DEF IInv, OneAtATime, Busy
      <3>3. LastOfChain(l)
        BY <1>1, <3>1, <3>2 DEF Settled, AtEnd
      <3> QED BY <1>5, <3>3, ChainListed DEF IInv, LastOfChain
    <2> QED BY <1>0, <1>3, <2>2, <2>3, <2>4, <2>5 DEF IInv
  <1> QED BY <1>4, <1>5

(* Without NULL entries, the search stops at tasks with the id it looks    *)
(* for.                                                                    *)
LEMMA FindIs ==
  ASSUME IInv, NEW i, NEW l \in Find(i), NEW s \in FindSlot(l, i)
  PROVE  /\ l \in Chain /\ l \in lists /\ l \in List /\ s \in Slot /\ s \in mask[l]
         /\ tasks[l][s] \in live \cup {NULL}
  <1>1. l \in Chain /\ l \in lists /\ l \in List
    BY ChainListed DEF Find, IInv
  <1>2. s \in Slot /\ s \in mask[l]
    BY DEF FindSlot, StopsAt
  <1> QED BY <1>1, <1>2 DEF IInv, Entries

LEMMA KillStep ==
  ASSUME IInv, NEW i \in 1 .. MaxPid, Kill(i)
  PROVE  IInv'
  <1>1. PICK l \in Find(i) : \E s \in FindSlot(l, i) :
          LET t == tasks[l][s] IN
          /\ t # NULL
          /\ mask' = [mask EXCEPT ![l] = @ \ {s}]
          /\ tasks' = [tasks EXCEPT ![l][s] = NULL]
          /\ live' = live \ {t}
          /\ id' = [id EXCEPT ![t] = 0]
          /\ listed' = listed \ {t}
          /\ overlap' = (overlap \/ \E c \in Creator :
                           pc[c] \in {"slot", "mask"} /\ loc[c].list = l)
    BY DEF Kill
  <1>2. PICK s \in FindSlot(l, i) :
          /\ tasks[l][s] # NULL
          /\ mask' = [mask EXCEPT ![l] = mask[l] \ {s}]
          /\ tasks' = [tasks EXCEPT ![l][s] = NULL]
          /\ live' = live \ {tasks[l][s]}
          /\ id' = [id EXCEPT ![tasks[l][s]] = 0]
          /\ listed' = listed \ {tasks[l][s]}
          /\ overlap' = (overlap \/ \E c \in Creator :
                           pc[c] \in {"slot", "mask"} /\ loc[c].list = l)
    BY <1>1
  <1> DEFINE t == tasks[l][s]
  <1>3. /\ l \in Chain /\ l \in lists /\ l \in List /\ s \in Slot /\ s \in mask[l]
        /\ t \in live /\ t \in Task /\ t # NULL
    BY <1>2, FindIs DEF IInv, TypeOK
  <1>4. /\ lists' = lists /\ nextOf' = nextOf /\ cur' = cur /\ nextPid' = nextPid
        /\ pc' = pc /\ loc' = loc /\ dangling' = dangling /\ fault' = fault
    BY DEF Kill
  <1>5. /\ mask' \in [List -> SUBSET Slot] /\ mask'[l] = mask[l] \ {s}
        /\ \A k \in List \ {l} : mask'[k] = mask[k]
    BY <1>2, <1>3 DEF IInv, TypeOK
  <1>6. /\ tasks' \in [List -> [Slot -> Task \cup {NULL}]]
        /\ \A k \in List, q \in Slot : tasks'[k][q] = IF k = l /\ q = s THEN NULL ELSE tasks[k][q]
    <2>1. TypeOK /\ NULL \in Task \cup {NULL} /\ tasks' = [tasks EXCEPT ![l][s] = NULL]
      BY <1>2 DEF IInv
    <2>2. tasks' \in [List -> [Slot -> Task \cup {NULL}]]
      BY <1>3, <2>1, EntryStored
    <2>3. tasks \in [List -> [Slot -> Task \cup {NULL}]]
      BY <2>1 DEF TypeOK
    <2>4. /\ tasks'[l] = [tasks[l] EXCEPT ![s] = NULL]
          /\ \A k \in List \ {l} : tasks'[k] = tasks[k]
      BY <1>3, <2>1, <2>3
    <2>5. \A k \in List, q \in Slot : tasks'[k][q] = IF k = l /\ q = s THEN NULL ELSE tasks[k][q]
      BY <1>3, <2>3, <2>4
    <2> QED BY <2>2, <2>5
  <1>7. /\ id' \in [Task -> Nat] /\ live' = live \ {t} /\ listed' = listed \ {t}
        /\ \A u \in Task \ {t} : id'[u] = id[u]
    BY <1>2, <1>3 DEF IInv, TypeOK
  <1>8. overlap' \in BOOLEAN
    BY <1>2 DEF IInv, TypeOK
  <1>9. ~overlap' => ~overlap /\ \A c \in Creator : pc[c] \in {"slot", "mask"} => loc[c].list # l
    BY <1>2
  <1>10. \A k \in List, q \in Slot : tasks[k][q] = t => k = l /\ q = s
    BY <1>3 DEF IInv, Entries
  <1> HIDE DEF t
  <1>11. TypeOK'
    BY <1>3, <1>4, <1>5, <1>6, <1>7, <1>8 DEF IInv, TypeOK
  <1>12. \A d \in Creator : Locals(d)'
    BY <1>4 DEF IInv, Locals
  <1>13. \A d \in Creator : Storing(d) => loc[d].new # t
    BY <1>3 DEF IInv, Entries, t
  <1>14. Entries'
    <2>1. \A k \in List, q \in Slot : tasks'[k][q] \in live' \cup {NULL}
      BY <1>6, <1>7, <1>10 DEF IInv, Entries
    <2>2. \A k, o \in List, q, r \in Slot :
            tasks'[k][q] = tasks'[o][r] /\ tasks'[k][q] # NULL => k = o /\ q = r
      BY <1>6 DEF IInv, Entries
    <2>3. ASSUME NEW d \in Creator, Storing(d)'
          PROVE  /\ loc'[d].new \in live'
                 /\ \A k \in List, q \in Slot : tasks'[k][q] # loc'[d].new
                 /\ \A e \in Creator : Storing(e)' /\ loc'[e].new = loc'[d].new => d = e
      <3>1. Storing(d) /\ loc' = loc /\ (\A e \in Creator : Storing(e)' => Storing(e))
        BY <1>4, <2>3 DEF Storing
      <3>2. loc[d].new \in live /\ loc[d].new # t /\ loc[d].new # NULL
        BY <1>13, <3>1 DEF IInv, Entries, TypeOK
      <3> QED BY <1>6, <1>7, <3>1, <3>2 DEF IInv, Entries
    <2> QED BY <2>1, <2>2, <2>3 DEF Entries
  <1>15. Unused'
    BY <1>3, <1>4, <1>5, <1>6 DEF IInv, Unused
  <1>16. Links'
    BY <1>4 DEF IInv, Links, Pending
  <1>17. Sweep'
    BY <1>4 DEF IInv, Sweep, Sweeping, Cutting, Ahead, Pending
  <1>18. ~overlap' => OneAtATime' /\ Ids'
    <2> SUFFICES ASSUME ~overlap' PROVE OneAtATime' /\ Ids'
      OBVIOUS
    <2>1. OneAtATime /\ Ids
      BY <1>9 DEF IInv
    <2>2. ASSUME NEW d \in Creator PROVE Loaded(d)'
      <3>1. Loaded(d) /\ cur \in List /\ Locals(d)
        BY <2>1 DEF OneAtATime, IInv, TypeOK
      <3>2. pc[d] = "pick" => mask'[cur] # Full
        <4>1. CASE cur = l
          BY <1>3, <1>5, <4>1 DEF Full
        <4>2. CASE cur # l
          BY <1>5, <3>1, <4>2 DEF Loaded
        <4> QED BY <4>1, <4>2
      <3>3. pc[d] \in {"slot", "mask"} => mask'[loc[d].list] = mask[loc[d].list] /\ loc[d].list # l
        BY <1>5, <1>9, <3>1 DEF Locals
      <3>4. pc[d] \in {"old", "link"} => mask'[loc[d].list] = {}
        BY <1>5, <3>1 DEF Loaded, Locals
      <3>5. pc[d] = "mask" => loc[d].new # NULL
        BY <3>1 DEF Locals
      <3>6. pc[d] = "mask" /\ loc[d].list \in lists => tasks'[loc[d].list][loc[d].slot] = loc[d].new
        BY <1>6, <3>1, <3>3, LocalIs DEF Loaded, Locals
      <3>7. pc[d] = "mask" => \A k \in List, q \in Slot :
              tasks'[k][q] = loc[d].new => k = loc[d].list /\ q = loc[d].slot
        BY <1>6, <3>1, <3>5 DEF Loaded
      <3> QED BY <1>4, <3>1, <3>2, <3>3, <3>4, <3>6, <3>7 DEF Loaded
    <2>3. \A k \in List : \A q \in mask'[k] : tasks'[k][q] # NULL
      BY <1>3, <1>5, <1>6, <2>1 DEF OneAtATime, IInv, TypeOK
    <2>4. OneAtATime'
      BY <1>4, <2>1, <2>2, <2>3 DEF OneAtATime, Busy
    <2>5. ASSUME NEW d \in Creator, pc[d] \in {"test", "grow", "old", "link", "pick", "slot", "mask"}
          PROVE  loc[d].new # t
      <3>1. CASE pc[d] # "mask"
        BY <1>13, <2>5, <3>1 DEF Storing
      <3>2. CASE pc[d] = "mask"
        <4>1. Loaded(d) /\ loc[d].list # l
          BY <1>9, <2>1, <3>2 DEF OneAtATime
        <4> QED BY <1>3, <3>2, <4>1 DEF Loaded, t
      <3> QED BY <3>1, <3>2
    <2>6. Ids'
      BY <1>4, <1>7, <2>1, <2>5 DEF Ids, IInv, TypeOK
    <2> QED BY <2>4, <2>6
  <1>19. ~overlap' /\ ~dangling' => Settled'
    <2> SUFFICES ASSUME ~overlap', ~dangling' PROVE Settled'
      OBVIOUS
    <2>1. Settled
      BY <1>4, <1>9 DEF IInv
    <2>2. Chain' = Chain
      BY <1>4 DEF Chain
    <2>3. \A d \in Creator : AtEnd(d)'
      BY <1>4, <2>1, <2>2 DEF Settled, AtEnd, LastOfChain
    <2>4. pc[shell] = "free" => Spare(loc[shell].old)'
      <3>1. pc[shell] = "free" => loc[shell].old \in List
        BY DEF IInv, Sweep, Sweeping, Cutting, Ahead, TypeOK
      <3> QED BY <1>4, <1>5, <2>1, <3>1 DEF Settled, Spare, Busy
    <2>5. ASSUME NEW u \in listed' PROVE \E k \in Chain : \E q \in mask'[k] : tasks'[k][q] = u
      <3>1. PICK k \in Chain : \E q \in mask[k] : tasks[k][q] = u
        BY <1>7, <2>1 DEF Settled
      <3>2. PICK q \in mask[k] : tasks[k][q] = u
        BY <3>1
      <3>3. k \in List /\ q \in Slot /\ u # t
        BY <1>7, <3>1, <3>2, ChainListed DEF IInv, TypeOK
      <3>4. ~(k = l /\ q = s)
        BY <3>2, <3>3 DEF t
      <3> QED BY <1>5, <1>6, <3>2, <3>3, <3>4
    <2>6. LastOfChain(cur) => LastOfChain(cur)'
      BY <1>4, <2>2 DEF LastOfChain
    <2> QED BY <1>4, <2>1, <2>2, <2>3, <2>4, <2>5, <2>6 DEF Settled
  <1> QED BY <1>11, <1>12, <1>14, <1>15, <1>16, <1>17, <1>18, <1>19 DEF IInv

LEMMA KillMissingStep ==
  ASSUME IInv, NEW i \in 1 .. MaxPid, KillMissing(i)
  PROVE  IInv'
  <1>1. /\ UNCHANGED <<heap, arrays, cur, nextPid, pc, loc, hist>>
        /\ fault' \in {"no such task", "NULL entry"}
        /\ fault' = "NULL entry" => NULL \in Lookup(i)
    BY DEF KillMissing
  <1>2. ~overlap' => fault' # "NULL entry"
    <2> SUFFICES ASSUME ~overlap', NULL \in Lookup(i) PROVE FALSE
      BY <1>1
    <2>1. PICK l \in Find(i) : \E s \in FindSlot(l, i) : tasks[l][s] = NULL
      BY DEF Lookup
    <2>2. PICK s \in FindSlot(l, i) : tasks[l][s] = NULL
      BY <2>1
    <2>3. OneAtATime
      BY <1>1 DEF IInv, hist
    <2> QED BY <2>2, <2>3, FindIs DEF OneAtATime
  <1>3. fault' \in Faults /\ fault' # "freed list" /\ fault' # "no slot"
    BY <1>1 DEF Faults
  <1> QED BY <1>1, <1>2, <1>3, OnlyFault DEF IInv

LEMMA CleanStartStep ==
  ASSUME IInv, NEW c \in Creator, CleanStart(c)
  PROVE  IInv'
  <1> DEFINE r == [NoLocal EXCEPT !.list = first]
  <1>0. /\ live' = live /\ id' = id /\ lists' = lists /\ tasks' = tasks /\ mask' = mask
        /\ nextOf' = nextOf /\ cur' = cur /\ nextPid' = nextPid /\ fault' = fault
        /\ listed' = listed /\ overlap' = overlap /\ dangling' = dangling
    BY DEF CleanStart, heap, arrays, hist
  <1>1. /\ c = shell /\ pc[c] = "idle" /\ fault = "none"
        /\ pc' = [pc EXCEPT ![c] = "clean"] /\ loc' = [loc EXCEPT ![c] = r]
    BY DEF CleanStart, At, Goto
  <1>2. r \in Local /\ r.list = first
    BY DEF NoLocal, Local, Slot
  <1> HIDE DEF r
  <1>3. /\ pc' \in [Creator -> Labels] /\ loc' \in [Creator -> Local]
        /\ pc'[c] = "clean" /\ loc'[c] = r /\ Alone(c)
    BY <1>1, <1>2, Stepped DEF IInv, Labels
  <1>4. \A d \in Creator : Pending(d) \/ Pending(d)' => d # c
    BY <1>1, <1>3 DEF Pending
  <1>5. \A d \in Creator : d # c => loc'[d] = loc[d] /\ pc'[d] = pc[d] /\ (Pending(d)' <=> Pending(d))
    BY <1>3 DEF Pending, Alone
  <1>6. TypeOK'
    BY <1>0, <1>3 DEF IInv, TypeOK
  <1>7. \A d \in Creator : Locals(d)'
    BY <1>1, <1>3 DEF IInv, Locals, Alone
  <1>8. Entries'
    BY <1>0, <1>1, <1>3 DEF IInv, Entries, Storing, Alone
  <1>9. Unused'
    BY <1>0 DEF IInv, Unused
  <1>10. Links'
    BY <1>0, <1>1, <1>3, <1>4, <1>5 DEF IInv, Links
  <1>11. Sweep'
    <2>1. Ahead(lists \ {first})'
      <3>1. ~Cutting'
        BY <1>1, <1>3 DEF Cutting
      <3>2. \A l \in lists \ {first} : nextOf[l] \in (lists \ {first}) \cup {NULL}
        BY DEF IInv, Links, TypeOK
      <3>3. nextOf[first] \in (lists \ {first}) \cup {NULL}
        BY DEF IInv, Links
      <3>4. \A d \in Creator : Pending(d)' => loc'[d].list \in lists \ {first}
        BY <1>4, <1>5 DEF IInv, Links
      <3> QED BY <1>0, <1>1, <1>2, <1>3, <3>1, <3>2, <3>3, <3>4 DEF Ahead
    <2>2. loc'[shell].list \in lists' /\ lists \ {first} \in SUBSET lists'
      BY <1>0, <1>1, <1>2, <1>3 DEF IInv, Links
    <2>3. ~Cutting' /\ pc'[shell] # "unlink"
      BY <1>1, <1>3 DEF Cutting
    <2> QED BY <2>1, <2>2, <2>3 DEF Sweep
  <1>12. ~overlap' => OneAtATime' /\ Ids'
    <2> SUFFICES ASSUME ~overlap PROVE OneAtATime' /\ Ids'
      BY <1>0
    <2>1. OneAtATime /\ Ids
      BY DEF IInv
    <2>2. ASSUME NEW d \in Creator PROVE Loaded(d)'
      <3>1. Loaded(d)
        BY <2>1 DEF OneAtATime
      <3> QED BY <1>0, <1>3, <1>5, <3>1 DEF Loaded
    <2>3. OneAtATime'
      BY <1>0, <1>1, <1>3, <1>5, <2>1, <2>2 DEF OneAtATime, Busy
    <2>4. Ids'
      BY <1>0, <1>3, <1>5, <2>1 DEF Ids
    <2> QED BY <2>3, <2>4
  <1>13. ~overlap' /\ ~dangling' => Settled'
    <2> SUFFICES ASSUME ~overlap, ~dangling PROVE Settled'
      BY <1>0
    <2>1. Settled
      BY DEF IInv
    <2>2. Chain' = Chain
      BY <1>0 DEF Chain
    <2>3. ASSUME NEW d \in Creator PROVE AtEnd(d)'
      <3>1. AtEnd(d)
        BY <2>1 DEF Settled
      <3> QED BY <1>0, <1>3, <1>5, <2>2, <3>1 DEF AtEnd, LastOfChain
    <2>4. pc'[shell] \notin {"unlink", "free"}
      BY <1>1, <1>3
    <2>5. (\A d \in Creator : pc'[d] # "link") => LastOfChain(cur)'
      BY <1>0, <1>1, <1>5, <2>1, <2>2 DEF Settled, LastOfChain
    <2>6. (\A t \in listed : \E l \in Chain : \E s \in mask[l] : tasks[l][s] = t)'
      BY <1>0, <2>1, <2>2, ZenonT(40) DEF Settled
    <2>7. fault' # "freed list"
      BY <1>0, <2>1 DEF Settled
    <2> QED BY <2>3, <2>4, <2>5, <2>6, <2>7 DEF Settled
  <1> QED BY <1>6, <1>7, <1>8, <1>9, <1>10, <1>11, <1>12, <1>13 DEF IInv

(* A step of clean_task_lists that writes to no shared memory.             *)
LEMMA CleanMoves ==
  ASSUME IInv, NEW p \in {"idle", "clean", "unlink"}, NEW r \in Local,
         pc[shell] = "clean",
         UNCHANGED <<heap, arrays, cur, nextPid, hist, fault>>,
         pc' = [pc EXCEPT ![shell] = p], loc' = [loc EXCEPT ![shell] = r]
  PROVE  /\ TypeOK' /\ (\A c \in Creator : Locals(c)')
         /\ Entries' /\ Unused' /\ Links' /\ (~overlap' => OneAtATime' /\ Ids')
         /\ (~overlap' /\ ~dangling') /\ (p = "unlink" => r.old = nextOf[r.list]) => Settled'
         /\ pc'[shell] = p /\ loc'[shell] = r /\ nextOf' = nextOf /\ lists' = lists
         /\ \A d \in Creator : (Pending(d)' <=> Pending(d)) /\ (Pending(d) => loc'[d] = loc[d])
  <1>0. /\ live' = live /\ id' = id /\ lists' = lists /\ tasks' = tasks /\ mask' = mask
        /\ nextOf' = nextOf /\ cur' = cur /\ nextPid' = nextPid /\ fault' = fault
        /\ listed' = listed /\ overlap' = overlap /\ dangling' = dangling
    BY DEF heap, arrays, hist
  <1>1. /\ pc' \in [Creator -> Labels] /\ loc' \in [Creator -> Local]
        /\ pc'[shell] = p /\ loc'[shell] = r /\ Alone(shell)
    BY Stepped DEF IInv, Labels
  <1>2. \A d \in Creator : Pending(d) \/ Pending(d)' => d # shell
    BY <1>1 DEF Pending
  <1>3. \A d \in Creator : d # shell => loc'[d] = loc[d] /\ pc'[d] = pc[d] /\ (Pending(d)' <=> Pending(d))
    BY <1>1 DEF Pending, Alone
  <1>4. TypeOK'
    BY <1>0, <1>1 DEF IInv, TypeOK
  <1>5. \A d \in Creator : Locals(d)'
    BY <1>1, <1>3 DEF IInv, Locals
  <1>6. Entries'
    BY <1>0, <1>1, <1>3 DEF IInv, Entries, Storing
  <1>7. Unused'
    BY <1>0 DEF IInv, Unused
  <1>8. Links'
    BY <1>0, <1>1, <1>2, <1>3 DEF IInv, Links
  <1>9. ~overlap' => OneAtATime' /\ Ids'
    <2> SUFFICES ASSUME ~overlap PROVE OneAtATime' /\ Ids'
      BY <1>0
    <2>1. OneAtATime /\ Ids
      BY DEF IInv
    <2>2. ASSUME NEW d \in Creator PROVE Loaded(d)'
      <3>1. Loaded(d)
        BY <2>1 DEF OneAtATime
      <3> QED BY <1>0, <1>1, <1>3, <3>1 DEF Loaded
    <2>3. \A d \in Creator : Busy(d)' => Busy(d)
      BY <1>1, <1>3 DEF Busy
    <2>4. OneAtATime'
      BY <1>0, <2>1, <2>2, <2>3 DEF OneAtATime
    <2>5. Ids'
      BY <1>0, <1>1, <1>3, <2>1 DEF Ids
    <2> QED BY <2>4, <2>5
  <1>10. ASSUME ~overlap', ~dangling', p = "unlink" => r.old = nextOf[r.list] PROVE Settled'
    <2>1. Settled
      BY <1>0, <1>10 DEF IInv
    <2>2. Chain' = Chain
      BY <1>0 DEF Chain
    <2>3. ASSUME NEW d \in Creator PROVE AtEnd(d)'
      <3>1. AtEnd(d)
        BY <2>1 DEF Settled
      <3> QED BY <1>0, <1>1, <1>3, <2>2, <3>1 DEF AtEnd, LastOfChain
    <2>4. pc'[shell] # "free" /\ (pc'[shell] = "unlink" => nextOf'[loc'[shell].list] = loc'[shell].old)
      BY <1>0, <1>1, <1>10
    <2>5. (\A d \in Creator : pc'[d] # "link") => LastOfChain(cur)'
      BY <1>0, <1>3, <2>1, <2>2 DEF Settled, LastOfChain
    <2>6. (\A t \in listed : \E l \in Chain : \E s \in mask[l] : tasks[l][s] = t)'
      BY <1>0, <2>1, <2>2, ZenonT(40) DEF Settled
    <2>7. fault' # "freed list"
      BY <1>0, <2>1 DEF Settled
    <2> QED BY <2>3, <2>4, <2>5, <2>6, <2>7 DEF Settled
  <1> QED BY <1>0, <1>1, <1>2, <1>3, <1>4, <1>5, <1>6, <1>7, <1>8, <1>9, <1>10

LEMMA CleanTestStep ==
  ASSUME IInv, NEW c \in Creator, CleanTest(c)
  PROVE  IInv'
  <1> DEFINE l == loc[c].list
             next == nextOf[l]
  <1>1. /\ pc[c] = "clean" /\ c = shell /\ UNCHANGED <<heap, arrays, cur, nextPid, hist, fault>>
    BY LocalIs DEF CleanTest, At, Locals
  <1>2. l \in lists /\ l \in List
    BY <1>1 DEF IInv, Sweep, Sweeping, TypeOK
  <1>3. PICK S \in SUBSET lists : Ahead(S)
    BY <1>1 DEF IInv, Sweep, Sweeping
  <1>4. /\ \A m \in S : nextOf[m] \in S \cup {NULL}
        /\ \A d \in Creator : Pending(d) => loc[d].list \in S
        /\ next \in S \cup {NULL} /\ l \notin S /\ NULL \notin S
    BY <1>1, <1>3 DEF Ahead, IInv, TypeOK
  <1>5. CASE next = NULL
    <2>1. pc' = [pc EXCEPT ![shell] = "idle"] /\ loc' = [loc EXCEPT ![shell] = NoLocal]
      BY <1>1, <1>5 DEF CleanTest, Goto
    <2>2. pc'[shell] = "idle"
      BY <2>1 DEF IInv, TypeOK
    <2>3. Sweep'
      BY <2>2 DEF Sweep, Sweeping, Cutting
    <2> QED BY <1>1, <2>1, <2>3, NoLocalIs, CleanMoves DEF IInv
  <1>6. CASE next # NULL /\ mask[next] # {}
    <2> DEFINE r == [loc[c] EXCEPT !.list = next]
    <2>1. /\ pc' = [pc EXCEPT ![shell] = "clean"] /\ loc' = [loc EXCEPT ![shell] = r]
      BY <1>1, <1>6 DEF CleanTest, IInv, TypeOK
    <2>2. PICK n \in S : n = next /\ n \in List
      BY <1>4, <1>6 DEF IInv, TypeOK
    <2>3. r \in Local /\ r.list = n
      BY <2>2, LocalIs DEF Local
    <2> HIDE DEF r
    <2>4. /\ pc'[shell] = "clean" /\ loc'[shell] = r /\ nextOf' = nextOf /\ lists' = lists
          /\ \A d \in Creator : (Pending(d)' <=> Pending(d)) /\ (Pending(d) => loc'[d] = loc[d])
      BY <1>1, <2>1, <2>3, CleanMoves
    <2>5. \A m \in S : nextOf[m] # n
      BY <1>1, <1>2, <1>4, <2>2 DEF IInv, Links, TypeOK
    <2>6. Ahead(S \ {n})'
      <3>1. ~Cutting'
        BY <2>4 DEF Cutting
      <3>2. \A m \in S \ {n} : nextOf[m] \in (S \ {n}) \cup {NULL}
        BY <1>4, <2>5
      <3>3. \A d \in Creator : Pending(d) => loc[d].list # n
        BY <1>2, <2>2 DEF IInv, Links
      <3>4. nextOf[n] \in (S \ {n}) \cup {NULL}
        BY <1>4, <2>2, <2>5
      <3> QED BY <1>4, <2>3, <2>4, <3>1, <3>2, <3>3, <3>4 DEF Ahead
    <2>7. Sweep'
      <3>1. ~Cutting' /\ pc'[shell] # "unlink" /\ loc'[shell].list \in lists' /\ S \ {n} \in SUBSET lists'
        BY <2>2, <2>3, <2>4 DEF Cutting
      <3> QED BY <2>6, <3>1 DEF Sweep
    <2> QED BY <1>1, <2>1, <2>3, <2>7, CleanMoves DEF IInv
  <1>7. CASE next # NULL /\ mask[next] = {}
    <2> DEFINE r == [loc[c] EXCEPT !.old = next]
    <2>1. /\ pc' = [pc EXCEPT ![shell] = "unlink"] /\ loc' = [loc EXCEPT ![shell] = r]
      BY <1>1, <1>7 DEF CleanTest, Goto
    <2>2. next \in S /\ next \in List
      BY <1>4, <1>7 DEF IInv, TypeOK
    <2>3. r \in Local /\ r.list = l /\ r.old = next
      BY <2>2, LocalIs DEF Local
    <2> HIDE DEF r
    <2>4. /\ pc'[shell] = "unlink" /\ loc'[shell] = r /\ nextOf' = nextOf /\ lists' = lists
          /\ \A d \in Creator : (Pending(d)' <=> Pending(d)) /\ (Pending(d) => loc'[d] = loc[d])
      BY <1>1, <2>1, <2>3, CleanMoves
    <2>5. Ahead(S)'
      BY <1>4, <2>2, <2>3, <2>4 DEF Ahead, Cutting
    <2>6. \A m \in List : nextOf[m] = next => m = l
      BY <1>1, <1>2, <1>7 DEF IInv, Links
    <2>7. \A d \in Creator : Pending(d) => loc[d].list # next
      BY <1>2 DEF IInv, Links
    <2>8. next # first
      BY <1>2, <1>7 DEF IInv, Links
    <2>9. Sweep'
      BY <1>2, <1>7, <2>3, <2>4, <2>5, <2>6, <2>7, <2>8 DEF Sweep
    <2> QED BY <1>1, <2>1, <2>3, <2>9, CleanMoves, ZenonT(40) DEF IInv
  <1> QED BY <1>5, <1>6, <1>7

LEMMA CleanUnlinkStep ==
  ASSUME IInv, NEW c \in Creator, CleanUnlink(c)
  PROVE  IInv'
  <1>0. /\ live' = live /\ id' = id /\ lists' = lists /\ tasks' = tasks /\ mask' = mask
        /\ cur' = cur /\ nextPid' = nextPid /\ loc' = loc /\ fault' = fault
        /\ listed' = listed /\ overlap' = overlap
    BY DEF CleanUnlink, heap
  <1>1. /\ c = shell /\ pc[shell] = "unlink" /\ pc' = [pc EXCEPT ![shell] = "free"]
    BY LocalIs DEF CleanUnlink, At, Goto, Locals
  <1>2. PICK S \in SUBSET lists : Ahead(S)
    BY <1>1 DEF IInv, Sweep, Sweeping
  <1>3. PICK a \in lists, x \in S : a = loc[shell].list /\ x = loc[shell].old
    BY <1>1, <1>2 DEF IInv, Sweep, Sweeping, Cutting, Ahead
  <1>4. /\ a \in List /\ x \in List /\ a \notin S /\ NULL \notin S
        /\ \A l \in S : nextOf[l] \in S \cup {NULL}
        /\ \A d \in Creator : Pending(d) => loc[d].list \in S /\ loc[d].list # x
        /\ \A l \in List : nextOf[l] = x => l = a
        /\ nextOf[a] # NULL /\ x # first
    BY <1>1, <1>2, <1>3 DEF Ahead, IInv, Sweep, Cutting, TypeOK
  <1>5. /\ pc' \in [Creator -> Labels] /\ pc'[shell] = "free"
        /\ \A d \in Creator : d # shell => pc'[d] = pc[d]
    BY <1>1 DEF IInv, TypeOK, Labels
  <1>6. /\ nextOf' = [nextOf EXCEPT ![a] = nextOf[x]]
        /\ dangling' = (dangling \/ InUse(x))
    BY <1>1, <1>3 DEF CleanUnlink
  <1>7. /\ nextOf' \in [List -> List \cup {NULL}] /\ nextOf'[a] = nextOf[x]
        /\ \A l \in List : l # a => nextOf'[l] = nextOf[l]
    BY <1>4, <1>6 DEF IInv, TypeOK
  <1>8. \A d \in Creator : Pending(d)' <=> Pending(d)
    BY <1>0, <1>1, <1>5 DEF Pending
  <1>9. TypeOK'
    <2>1. dangling' \in BOOLEAN
      BY <1>6 DEF IInv, TypeOK, InUse
    <2> QED BY <1>0, <1>5, <1>7, <2>1 DEF IInv, TypeOK
  <1>10. \A d \in Creator : Locals(d)'
    BY <1>0, <1>1, <1>5 DEF IInv, Locals
  <1>11. Entries'
    BY <1>0, <1>1, <1>5 DEF IInv, Entries, Storing
  <1>12. Unused'
    BY <1>0, <1>3, <1>7 DEF IInv, Unused
  <1>13. Links'
    <2>1. \A l \in List : nextOf'[l] \in (lists \ {first}) \cup {NULL}
      BY <1>4, <1>7 DEF IInv, Links
    <2>2. ASSUME NEW l \in List, NEW m \in List, nextOf'[l] = nextOf'[m], nextOf'[l] # NULL
          PROVE  l = m \/ x \in {l, m}
      <3>1. \A k, o \in List : nextOf[k] = nextOf[o] /\ nextOf[k] # NULL => k = o
        BY <1>1 DEF IInv, Links
      <3> QED BY <1>4, <1>7, <2>2, <3>1
    <2>3. ASSUME NEW d \in Creator, Pending(d)
          PROVE  /\ loc[d].list \in lists \ {first}
                 /\ \A l \in List : nextOf'[l] # loc[d].list
                 /\ \A e \in Creator : Pending(e) /\ loc[e].list = loc[d].list => d = e
      BY <1>4, <1>7, <2>3 DEF IInv, Links
    <2>4. first \in lists
      BY DEF IInv, Links
    <2> QED BY <1>0, <1>3, <1>5, <1>8, <2>1, <2>2, <2>3, <2>4 DEF Links
  <1>14. Sweep'
    <2>1. Ahead(S)'
      <3>1. \A l \in S : nextOf'[l] \in S \cup {NULL}
        BY <1>4, <1>7 DEF IInv, TypeOK
      <3>2. nextOf'[loc'[shell].list] \in S \cup {NULL}
        BY <1>0, <1>3, <1>4, <1>7
      <3>3. loc'[shell].list \notin S /\ loc'[shell].old \in S
        BY <1>0, <1>3, <1>4
      <3>4. \A d \in Creator : Pending(d)' => loc'[d].list \in S
        BY <1>0, <1>4, <1>8
      <3> QED BY <3>1, <3>2, <3>3, <3>4 DEF Ahead
    <2>2. \A l \in List : nextOf'[l] # x
      BY <1>3, <1>4, <1>7
    <2>3. loc'[shell].list \in lists' /\ S \in SUBSET lists' /\ pc'[shell] # "unlink"
      BY <1>0, <1>3, <1>5
    <2>4. \A d \in Creator : Pending(d)' => loc'[d].list # x
      BY <1>0, <1>4, <1>8
    <2>5. x = loc'[shell].old /\ x # first
      BY <1>0, <1>3, <1>4
    <2> QED BY <2>1, <2>2, <2>3, <2>4, <2>5 DEF Sweep
  <1>15. \A d \in Creator : Busy(d)' => Busy(d) /\ pc'[d] = pc[d]
    BY <1>5 DEF Busy
  <1>16. ~overlap' => OneAtATime' /\ Ids'
    <2> SUFFICES ASSUME ~overlap PROVE OneAtATime' /\ Ids'
      BY <1>0
    <2>1. OneAtATime /\ Ids
      BY DEF IInv
    <2>2. ASSUME NEW d \in Creator PROVE Loaded(d)'
      <3>1. Loaded(d)
        BY <2>1 DEF OneAtATime
      <3> QED BY <1>0, <1>5, <3>1 DEF Loaded
    <2>3. OneAtATime'
      BY <1>0, <1>15, <2>1, <2>2 DEF OneAtATime
    <2>4. Ids'
      BY <1>0, <1>5, <2>1 DEF Ids
    <2> QED BY <2>3, <2>4
  <1>17. ~overlap' /\ ~dangling' => Settled'
    <2> SUFFICES ASSUME ~overlap, ~dangling' PROVE Settled'
      BY <1>0
    <2>1. Settled /\ ~InUse(x)
      BY <1>6 DEF IInv, TypeOK
    <2>2. Spare(x)
      BY <2>1 DEF InUse, Spare
    <2>3. Chain \ {x} \subseteq Chain'
      <3>1. nextOf[a] = x /\ nextOf \in [List -> List \cup {NULL}]
        BY <1>1, <1>3, <2>1 DEF Settled, IInv, TypeOK
      <3> QED BY <1>4, <1>6, <3>1, Skipped DEF Chain
    <2>4. ASSUME NEW y, LastOfChain(y), y # x PROVE LastOfChain(y)'
      <3>1. y \in Chain' /\ y \in List /\ y # a
        BY <1>4, <2>3, <2>4, ChainListed DEF LastOfChain, IInv
      <3> QED BY <1>7, <2>4, <3>1 DEF LastOfChain
    <2>5. ASSUME NEW d \in Creator PROVE AtEnd(d)'
      <3>1. AtEnd(d) /\ (Busy(d) => x \notin {loc[d].list, loc[d].old})
        BY <2>1, <2>2 DEF Settled, Spare
      <3>2. pc'[d] \in {"old", "link"} => nextOf'[loc'[d].list] = NULL
        <4> SUFFICES ASSUME pc'[d] \in {"old", "link"} PROVE nextOf'[loc[d].list] = NULL
          BY <1>0
        <4>1. pc[d] = pc'[d] /\ loc[d].list \in List
          BY <1>15, LocalIs DEF Busy, Locals
        <4>2. nextOf[loc[d].list] = NULL
          BY <3>1, <4>1 DEF AtEnd
        <4> QED BY <1>4, <1>7, <4>1, <4>2
      <3>3. CASE pc'[d] = "link"
        <4>1. pc[d] = "link" /\ loc[d].list # x /\ loc[d].old # x
          BY <1>15, <3>1, <3>3 DEF Busy
        <4>2. "cur" \in loc[d].todo => cur = loc[d].old
          BY <3>1, <4>1 DEF AtEnd
        <4>3. "next" \in loc[d].todo => LastOfChain(loc[d].old)'
          BY <1>0, <2>4, <3>1, <4>1 DEF AtEnd
        <4>4. "next" \notin loc[d].todo => LastOfChain(loc[d].list)' /\ loc[d].old \in Chain'
          BY <1>0, <2>3, <2>4, <3>1, <4>1 DEF AtEnd
        <4> QED BY <1>0, <3>2, <3>3, <4>2, <4>3, <4>4 DEF AtEnd
      <3>4. CASE pc'[d] # "link"
        <4>1. pc'[d] \in {"slot", "mask"} => pc[d] = pc'[d]
          BY <1>15 DEF Busy
        <4> QED BY <1>0, <3>1, <3>2, <3>4, <4>1 DEF AtEnd
      <3> QED BY <3>3, <3>4
    <2>6. (\A d \in Creator : pc'[d] # "link") => LastOfChain(cur)'
      <3>1. (\A d \in Creator : pc'[d] # "link") => LastOfChain(cur) /\ cur # x
        BY <1>1, <1>5, <2>1, <2>2 DEF Settled, Spare
      <3> QED BY <1>0, <2>4, <3>1 DEF LastOfChain
    <2>7. Spare(loc[shell].old)'
      BY <1>0, <1>3, <1>15, <2>2 DEF Spare
    <2>8. \A t \in listed : \E l \in Chain' : \E s \in mask[l] : tasks[l][s] = t
      <3>1. \A t \in listed : \E l \in Chain : \E s \in mask[l] : tasks[l][s] = t
        BY <2>1 DEF Settled
      <3> QED BY <2>2, <2>3, <3>1 DEF Spare
    <2>9. fault' # "freed list" /\ pc'[shell] # "unlink"
      BY <1>0, <1>5, <2>1 DEF Settled
    <2> QED BY <1>0, <2>5, <2>6, <2>7, <2>8, <2>9 DEF Settled
  <1> QED BY <1>9, <1>10, <1>11, <1>12, <1>13, <1>14, <1>16, <1>17 DEF IInv

LEMMA CleanFreeStep ==
  ASSUME IInv, NEW c \in Creator, CleanFree(c)
  PROVE  IInv'
  <1>0. /\ live' = live /\ id' = id /\ cur' = cur /\ nextPid' = nextPid /\ fault' = fault
        /\ listed' = listed /\ overlap' = overlap /\ dangling' = dangling
    BY DEF CleanFree, hist
  <1> DEFINE r == [loc[shell] EXCEPT !.old = NULL]
  <1>1. /\ c = shell /\ pc[shell] = "free"
        /\ pc' = [pc EXCEPT ![shell] = "clean"] /\ loc' = [loc EXCEPT ![shell] = r]
    BY LocalIs DEF CleanFree, At, Goto, Locals
  <1>2. r \in Local /\ r.list = loc[shell].list
    BY LocalIs DEF Local
  <1> HIDE DEF r
  <1>3. /\ pc' \in [Creator -> Labels] /\ loc' \in [Creator -> Local]
        /\ pc'[shell] = "clean" /\ loc'[shell] = r
        /\ \A d \in Creator : d # shell => pc'[d] = pc[d] /\ loc'[d] = loc[d]
    BY <1>1, <1>2, Stepped DEF IInv, Labels, Alone
  <1>4. PICK S \in SUBSET lists : Ahead(S)
    BY <1>1 DEF IInv, Sweep, Sweeping
  <1>5. PICK a \in lists, x \in S : a = loc[shell].list /\ x = loc[shell].old
    BY <1>1, <1>4 DEF IInv, Sweep, Sweeping, Cutting, Ahead
  <1>6. /\ a \in List /\ x \in List /\ a \notin S /\ NULL \notin S /\ x # first
        /\ \A l \in S : nextOf[l] \in S \cup {NULL}
        /\ nextOf[a] \in S \cup {NULL}
        /\ \A d \in Creator : Pending(d) => loc[d].list \in S /\ loc[d].list # x
        /\ \A l \in List : nextOf[l] # x
    BY <1>1, <1>4, <1>5 DEF Ahead, IInv, Sweep, Cutting, TypeOK
  <1>7. lists' = lists \ {x} /\ Blank(x)
    BY <1>1, <1>5 DEF CleanFree
  <1>8. /\ tasks' \in [List -> [Slot -> Task \cup {NULL}]]
        /\ mask' \in [List -> SUBSET Slot] /\ nextOf' \in [List -> List \cup {NULL}]
        /\ mask'[x] = {} /\ nextOf'[x] = NULL /\ \A s \in Slot : tasks'[x][s] = NULL
        /\ \A l \in List : l # x =>
             tasks'[l] = tasks[l] /\ mask'[l] = mask[l] /\ nextOf'[l] = nextOf[l]
    BY <1>6, <1>7 DEF Blank, IInv, TypeOK
  <1>9. \A l \in List, s \in Slot : tasks'[l][s] \in {tasks[l][s], NULL}
    BY <1>8
  <1>10. \A d \in Creator : (Pending(d)' <=> Pending(d)) /\ (Pending(d) => d # shell)
    BY <1>1, <1>3 DEF Pending
  <1>11. TypeOK'
    BY <1>0, <1>3, <1>7, <1>8 DEF IInv, TypeOK
  <1>12. \A d \in Creator : Locals(d)'
    BY <1>3 DEF IInv, Locals
  <1>13. Entries'
    <2>1. \A l \in List, s \in Slot : tasks'[l][s] \in live \cup {NULL}
      BY <1>9 DEF IInv, Entries
    <2>2. \A l, m \in List, s, q \in Slot :
            tasks'[l][s] = tasks'[m][q] /\ tasks'[l][s] # NULL => l = m /\ s = q
      BY <1>9 DEF IInv, Entries
    <2>3. ASSUME NEW d \in Creator, Storing(d)'
          PROVE  /\ loc'[d].new \in live /\ \A l \in List, s \in Slot : tasks'[l][s] # loc'[d].new
                 /\ \A e \in Creator : Storing(e)' /\ loc'[e].new = loc'[d].new => d = e
      <3>1. \A e \in Creator : Storing(e)' => Storing(e) /\ loc'[e] = loc[e]
        BY <1>3 DEF Storing
      <3>2. loc[d].new # NULL
        BY <2>3, <3>1 DEF IInv, Entries, TypeOK
      <3> QED BY <1>9, <2>3, <3>1, <3>2 DEF IInv, Entries
    <2> QED BY <1>0, <2>1, <2>2, <2>3 DEF Entries
  <1>14. Unused'
    BY <1>7, <1>8 DEF IInv, Unused
  <1>15. Links'
    <2>1. \A l \in List : nextOf'[l] \in (lists' \ {first}) \cup {NULL}
      BY <1>6, <1>7, <1>8 DEF IInv, Links
    <2>2. \A l, m \in List : nextOf'[l] = nextOf'[m] /\ nextOf'[l] # NULL => l = m
      BY <1>5, <1>8 DEF IInv, Links
    <2>3. ASSUME NEW d \in Creator, Pending(d)
          PROVE  /\ loc[d].list \in lists' \ {first}
                 /\ \A l \in List : nextOf'[l] # loc[d].list
                 /\ \A e \in Creator : Pending(e) /\ loc[e].list = loc[d].list => d = e
      BY <1>6, <1>7, <1>8, <2>3 DEF IInv, Links, TypeOK
    <2>4. first \in lists'
      BY <1>6, <1>7 DEF IInv, Links
    <2>5. \A d \in Creator : Pending(d)' => Pending(d) /\ loc'[d] = loc[d]
      BY <1>3, <1>10
    <2> QED BY <2>1, <2>2, <2>3, <2>4, <2>5 DEF Links
  <1>16. Sweep'
    <2>1. Ahead(S \ {x})'
      <3>1. \A l \in S \ {x} : nextOf'[l] \in (S \ {x}) \cup {NULL}
        BY <1>6, <1>8 DEF IInv, TypeOK
      <3>2. nextOf'[a] \in (S \ {x}) \cup {NULL}
        BY <1>5, <1>6, <1>8
      <3>3. loc'[shell].list = a /\ ~Cutting'
        BY <1>2, <1>3, <1>5 DEF Cutting
      <3>4. \A d \in Creator : Pending(d)' => loc'[d].list \in S \ {x}
        BY <1>3, <1>6, <1>10
      <3> QED BY <1>6, <3>1, <3>2, <3>3, <3>4 DEF Ahead
    <2>2. loc'[shell].list \in lists' /\ S \ {x} \in SUBSET lists'
      BY <1>2, <1>3, <1>5, <1>6, <1>7
    <2>3. ~Cutting' /\ pc'[shell] # "unlink"
      BY <1>3 DEF Cutting
    <2> QED BY <2>1, <2>2, <2>3 DEF Sweep
  <1>17. \A d \in Creator : Busy(d)' => Busy(d) /\ pc'[d] = pc[d] /\ loc'[d] = loc[d]
    BY <1>3 DEF Busy
  <1>18. ~overlap' => OneAtATime' /\ Ids'
    <2> SUFFICES ASSUME ~overlap PROVE OneAtATime' /\ Ids'
      BY <1>0
    <2>1. OneAtATime /\ Ids
      BY DEF IInv
    <2>2. ASSUME NEW d \in Creator PROVE Loaded(d)'
      <3>1. CASE Busy(d)'
        <4>1. pc'[d] = pc[d] /\ loc'[d] = loc[d] /\ Locals(d) /\ Loaded(d)
          BY <1>17, <2>1, <3>1 DEF OneAtATime, IInv
        <4>2. pc[d] \in {"old", "link"} => mask'[loc[d].list] = {}
          BY <1>8, <4>1 DEF Loaded, Locals
        <4>3. pc[d] = "pick" => mask'[cur] # Full
          BY <1>8, <4>1, FullIs DEF Loaded, IInv, TypeOK
        <4>4. pc[d] \in {"slot", "mask"} => mask'[loc[d].list] \subseteq loc[d].used
          BY <1>8, <4>1 DEF Loaded, Locals
        <4>5. pc[d] \in {"slot", "mask"} /\ loc[d].list \in lists' =>
                /\ mask'[loc[d].list] = mask[loc[d].list] /\ loc[d].list \in lists
                /\ tasks'[loc[d].list] = tasks[loc[d].list]
          BY <1>7, <1>8, <4>1 DEF Locals
        <4>6. pc[d] = "mask" => \A l \in List, s \in Slot :
                tasks'[l][s] = loc[d].new => l = loc[d].list /\ s = loc[d].slot
          <5>1. pc[d] = "mask" => loc[d].new # NULL
            BY <4>1 DEF Locals
          <5> QED BY <1>9, <4>1, <5>1 DEF Loaded
        <4> QED BY <1>0, <4>1, <4>2, <4>3, <4>4, <4>5, <4>6 DEF Loaded
      <3>2. CASE ~Busy(d)'
        BY <3>2 DEF Busy, Loaded
      <3> QED BY <3>1, <3>2
    <2>3. ASSUME NEW l \in List PROVE \A s \in mask'[l] : tasks'[l][s] # NULL
      <3>1. CASE l = x
        BY <1>8, <3>1
      <3>2. CASE l # x
        <4>1. mask'[l] = mask[l] /\ tasks'[l] = tasks[l]
          BY <1>8, <3>2
        <4>2. \A s \in mask[l] : tasks[l][s] # NULL
          BY <2>1 DEF OneAtATime
        <4> QED BY <4>1, <4>2
      <3> QED BY <3>1, <3>2
    <2>4. OneAtATime'
      BY <1>0, <1>17, <2>1, <2>2, <2>3 DEF OneAtATime
    <2>5. Ids'
      BY <1>0, <1>3, <2>1 DEF Ids
    <2> QED BY <2>4, <2>5
  <1>19. ~overlap' /\ ~dangling' => Settled'
    <2> SUFFICES ASSUME ~overlap, ~dangling PROVE Settled'
      BY <1>0
    <2>1. Settled /\ Spare(x)
      BY <1>1, <1>5 DEF IInv, Settled
    <2>2. x \notin Chain
      BY <1>6, ChainListed DEF IInv
    <2>3. Chain \subseteq Chain'
      <3>1. \A l \in Along(nextOf) : l \in List /\ l # x
        BY <2>2, AlongIs DEF Chain
      <3>2. \A l \in Along(nextOf) : nextOf'[l] = nextOf[l] /\ nextOf[l] \in List \cup {NULL}
        BY <1>8, <3>1 DEF IInv, TypeOK
      <3> QED BY <3>2, AlongKept DEF Chain
    <2>4. ASSUME NEW y, LastOfChain(y) PROVE y \in Chain' /\ nextOf'[y] = NULL
      BY <1>8, <2>2, <2>3, <2>4, ChainListed DEF LastOfChain, IInv
    <2>5. ASSUME NEW d \in Creator PROVE AtEnd(d)'
      <3>1. CASE Busy(d)'
        <4>1. pc'[d] = pc[d] /\ loc'[d] = loc[d] /\ Locals(d) /\ AtEnd(d)
          BY <1>17, <2>1, <3>1 DEF Settled, IInv
        <4>2. pc[d] \in {"old", "link"} => nextOf'[loc[d].list] = NULL
          BY <1>8, <4>1 DEF AtEnd, Locals
        <4> QED BY <1>0, <2>3, <2>4, <4>1, <4>2 DEF AtEnd, LastOfChain
      <3>2. CASE ~Busy(d)'
        BY <3>2 DEF Busy, AtEnd
      <3> QED BY <3>1, <3>2
    <2>6. (\A d \in Creator : pc'[d] # "link") => LastOfChain(cur)'
      <3>1. (\A d \in Creator : pc'[d] # "link") => LastOfChain(cur)
        BY <1>1, <1>3, <2>1 DEF Settled
      <3> QED BY <1>0, <2>4, <3>1 DEF LastOfChain
    <2>7. \A t \in listed : \E l \in Chain' : \E s \in mask'[l] : tasks'[l][s] = t
      <3>1. \A t \in listed : \E l \in Chain : \E s \in mask[l] : tasks[l][s] = t
        BY <2>1 DEF Settled
      <3>2. \A l \in Chain : mask'[l] = mask[l] /\ tasks'[l] = tasks[l]
        BY <1>8, <2>2, ChainListed DEF IInv
      <3> QED BY <2>3, <3>1, <3>2
    <2>8. fault' # "freed list" /\ pc'[shell] \notin {"unlink", "free"}
      BY <1>0, <1>3, <2>1 DEF Settled
    <2> QED BY <1>0, <2>5, <2>6, <2>7, <2>8 DEF Settled
  <1> QED BY <1>11, <1>12, <1>13, <1>14, <1>15, <1>16, <1>18, <1>19 DEF IInv

-----------------------------------------------------------------------------
LEMMA InitInv == Init => IInv
  <1> SUFFICES ASSUME Init PROVE IInv
    OBVIOUS
  <1>1. /\ \A c \in Creator : pc[c] = "idle" /\ loc[c] = NoLocal
        /\ \A l \in List, s \in Slot : tasks[l][s] = IF l = first /\ s = 0 THEN main ELSE NULL
        /\ \A l \in List : mask[l] = IF l = first THEN {0} ELSE {}
        /\ \A l \in List : nextOf[l] = NULL
        /\ \A t \in Task : id[t] = IF t = main THEN 1 ELSE 0
        /\ live = {main} /\ lists = {first} /\ cur = first /\ nextPid = 2
        /\ listed = {main} /\ fault = "none" /\ shell \in Creator /\ main # NULL
    BY DEF Init
  <1>2. TypeOK
    <2>1. tasks \in [List -> [Slot -> Task \cup {NULL}]] /\ mask \in [List -> SUBSET Slot]
      BY FullIs DEF Init
    <2>2. nextOf \in [List -> List \cup {NULL}] /\ id \in [Task -> Nat]
      BY DEF Init
    <2>3. pc \in [Creator -> Labels] /\ loc \in [Creator -> Local]
      BY NoLocalIs DEF Init, Labels
    <2>4. overlap \in BOOLEAN /\ dangling \in BOOLEAN /\ fault \in Faults
      BY DEF Init, Faults
    <2> QED BY <1>1, <2>1, <2>2, <2>3, <2>4 DEF TypeOK
  <1>3. \A c \in Creator : Locals(c) /\ Loaded(c) /\ AtEnd(c) /\ ~Storing(c) /\ ~Pending(c) /\ ~Busy(c)
    BY <1>1 DEF Locals, Loaded, AtEnd, Storing, Pending, Busy
  <1>4. Entries /\ Unused
    BY <1>1, <1>3 DEF Entries, Unused
  <1>5. Links
    BY <1>1, <1>3 DEF Links
  <1>6. Sweep
    BY <1>1 DEF Sweep, Sweeping, Cutting
  <1>7. OneAtATime
    BY <1>1, <1>3, FullIs DEF OneAtATime
  <1>8. Ids
    BY <1>1 DEF Ids
  <1>9. first \in Chain
    BY AlongIs DEF Chain
  <1>10. Settled
    BY <1>1, <1>3, <1>9, FullIs DEF Settled, LastOfChain
  <1> QED BY <1>2, <1>3, <1>4, <1>5, <1>6, <1>7, <1>8, <1>10 DEF IInv

LEMMA StepInv == IInv /\ [Next]_vars => IInv'
  <1> SUFFICES ASSUME IInv, [Next]_vars PROVE IInv'
    OBVIOUS
  <1>1. ASSUME NEW c \in Creator, NEW t \in Task, ReadPid(c, t) PROVE IInv'
    BY <1>1, ReadPidStep
  <1>2. ASSUME NEW c \in Creator, StorePid(c) PROVE IInv'
    BY <1>2, StorePidStep
  <1>3. ASSUME NEW c \in Creator, TestFull(c) PROVE IInv'
    BY <1>3, TestFullStep
  <1>4. ASSUME NEW c \in Creator, NEW l \in List, NewList(c, l) PROVE IInv'
    BY <1>4, NewListStep
  <1>5. ASSUME NEW c \in Creator, ReadOld(c) PROVE IInv'
    BY <1>5, ReadOldStep
  <1>6. ASSUME NEW c \in Creator, LinkNext(c) PROVE IInv'
    BY <1>6, LinkNextStep
  <1>7. ASSUME NEW c \in Creator, LinkCur(c) PROVE IInv'
    BY <1>7, LinkCurStep
  <1>8. ASSUME NEW c \in Creator, PickSlot(c) PROVE IInv'
    BY <1>8, PickSlotStep
  <1>9. ASSUME NEW c \in Creator, StoreTask(c) PROVE IInv'
    BY <1>9, StoreTaskStep
  <1>10. ASSUME NEW c \in Creator, StoreMask(c) PROVE IInv'
    BY <1>10, StoreMaskStep
  <1>11. ASSUME NEW c \in Creator, CleanStart(c) PROVE IInv'
    BY <1>11, CleanStartStep
  <1>12. ASSUME NEW c \in Creator, CleanTest(c) PROVE IInv'
    BY <1>12, CleanTestStep
  <1>13. ASSUME NEW c \in Creator, CleanUnlink(c) PROVE IInv'
    BY <1>13, CleanUnlinkStep
  <1>14. ASSUME NEW c \in Creator, CleanFree(c) PROVE IInv'
    BY <1>14, CleanFreeStep
  <1>15. ASSUME NEW i \in 1 .. MaxPid, Kill(i) PROVE IInv'
    BY <1>15, KillStep
  <1>16. ASSUME NEW i \in 1 .. MaxPid, KillMissing(i) PROVE IInv'
    BY <1>16, KillMissingStep
  <1>17. CASE UNCHANGED vars
    <2>1. UNCHANGED <<heap, arrays, cur, nextPid, pc, loc, hist>> /\ fault' = fault
      BY <1>17 DEF vars
    <2>2. /\ overlap' = overlap /\ dangling' = dangling /\ fault' \in Faults
      BY <2>1 DEF hist, IInv, TypeOK
    <2>3. ~overlap => fault' \notin {"NULL entry", "no slot"}
      BY <2>1 DEF IInv, OneAtATime
    <2>4. ~overlap /\ ~dangling => fault' # "freed list"
      BY <2>1 DEF IInv, Settled
    <2> QED BY <2>1, <2>2, <2>3, <2>4, OnlyFault DEF IInv
  <1> QED BY <1>1, <1>2, <1>3, <1>4, <1>5, <1>6, <1>7, <1>8, <1>9, <1>10, <1>11, <1>12,
             <1>13, <1>14, <1>15, <1>16, <1>17 DEF Next

LEMMA Inductive == Spec => []IInv
  BY InitInv, StepInv, PTL DEF Spec

-----------------------------------------------------------------------------
(* The search for a listed task finds it: the entry is in one place only,  *)
(* and no other entry stops the search.                                    *)
LEMMA Found ==
  ASSUME IInv, ~overlap, ~dangling, NEW t \in listed
  PROVE  Lookup(id[t]) = {t}
  <1> DEFINE i == id[t]
  <1>1. PICK l \in Chain : \E s \in mask[l] : tasks[l][s] = t
    BY DEF IInv, Settled
  <1>2. PICK s \in mask[l] : tasks[l][s] = t
    BY <1>1
  <1>3. l \in List /\ s \in Slot /\ t \in live /\ i # 0 /\ t # NULL
    BY <1>1, <1>2, ChainListed DEF IInv, TypeOK, Ids
  <1>4. StopsAt(l, s, i)
    BY <1>2 DEF StopsAt
  <1>5. ASSUME NEW m \in List, NEW q \in Slot, StopsAt(m, q, i) PROVE m = l /\ q = s
    <2>1. tasks[m][q] # NULL /\ id[tasks[m][q]] = i
      BY <1>5 DEF StopsAt, IInv, OneAtATime
    <2>2. tasks[m][q] \in live
      BY <2>1 DEF IInv, Entries
    <2>3. tasks[m][q] = t
      BY <1>3, <2>1, <2>2 DEF IInv, Ids
    <2> QED BY <1>2, <1>3, <2>3 DEF IInv, Entries
  <1> HIDE DEF i
  <1>6. Before(l) \subseteq List \ {l}
    BY AlongIs DEF Before
  <1>7. Find(i) = {l}
    <2>1. Stops(l, i) /\ \A m \in List : Stops(m, i) => m = l
      BY <1>3, <1>4, <1>5 DEF Stops
    <2> QED BY <1>1, <1>6, <2>1, ChainListed DEF Find, IInv
  <1>8. FindSlot(l, i) = {s}
    <2>1. \A r \in 0 .. s - 1 : r \in Slot /\ r # s
      BY <1>3 DEF Slot
    <2> QED BY <1>3, <1>4, <1>5, <2>1 DEF FindSlot
  <1>9. Lookup(i) = {t}
    BY <1>2, <1>7, <1>8 DEF Lookup
  <1> QED BY <1>9 DEF i

LEMMA CurrentIsSafe ==
  ASSUME IInv, ~overlap, ~dangling
  PROVE  CurrentListSafe
  <1>1. Settled /\ OneAtATime
    BY DEF IInv
  <1>2. CASE \A c \in Creator : pc[c] # "link"
    BY <1>1, <1>2 DEF Settled, LastOfChain, CurrentListSafe
  <1>3. ASSUME NEW c \in Creator, pc[c] = "link" PROVE CurrentListSafe
    <2>1. AtEnd(c) /\ Loaded(c)
      BY <1>1 DEF Settled, OneAtATime
    <2>2. CASE "cur" \in loc[c].todo
      BY <1>1, <1>3, <2>1, <2>2 DEF AtEnd, LastOfChain, Settled, CurrentListSafe
    <2>3. CASE "cur" \notin loc[c].todo
      BY <1>1, <1>3, <2>1, <2>3 DEF Loaded, Settled, CurrentListSafe
    <2> QED BY <2>2, <2>3
  <1> QED BY <1>2, <1>3

(* Every variable keeps its type, and every creator stays in create_task   *)
(* or clean_task_lists (task.c 94-167, 277-299).                           *)
THEOREM TypeCorrect == Spec => []TypeOK
  <1>1. IInv => TypeOK
    BY DEF IInv
  <1> QED BY <1>1, Inductive, PTL

(* However creations, kills and cltlist commands interleave, the search of *)
(* get_task and kill_task reads only allocated lists and live task structs *)
(* (task.c 184, 266): nothing cltlist has freed and no task killed is ever *)
(* reached through next or an entry.                                       *)
THEOREM SearchSafeHolds == Spec => []SearchSafe
  <1>1. IInv => SearchSafe
    BY DEF IInv, TypeOK, Entries, Links, SearchSafe
  <1> QED BY <1>1, Inductive, PTL

(* While creations have not overlapped, on one list or with a kill, every  *)
(* set bit of a list in the chain has its entry, so the search never       *)
(* dereferences NULL and ctz always finds a free slot (task.c 156-166).    *)
THEOREM NoNullEntryHolds == Spec => []NoNullEntry
  <1>1. IInv => NoNullEntry
    BY ChainListed DEF IInv, OneAtATime, NoNullEntry
  <1> QED BY <1>1, Inductive, PTL

(* As long as creations have not overlapped and the current list has not   *)
(* been cleaned away, get_task finds every task that create_task has       *)
(* stored and nobody has killed, whatever kills and cltlist commands came  *)
(* between, and create_task itself has written to no freed list (task.c    *)
(* 148-166, 255-275).                                                      *)
THEOREM FindableHolds == Spec => []Findable
  <1>1. IInv => Findable
    BY Found, CurrentIsSafe DEF Findable
  <1> QED BY <1>1, Inductive, PTL
=============================================================================
