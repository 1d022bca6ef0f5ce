----------------------------- MODULE TaskLists -----------------------------
(***************************************************************************)
(* The task lists of kernel/process/task.c: a chain of small arrays, each  *)
(* with a mask of its used slots, through which get_task and kill_task     *)
(* find a task by its id.  first_task_list heads the chain; create_task    *)
(* puts new tasks in current_task_list, which only ever moves on to a      *)
(* freshly appended list; clean_task_lists (the shell's cltlist command)   *)
(* frees the lists whose mask is empty.                                    *)
(*                                                                         *)
(* create_task and clean_task_lists run with the timer on and take no      *)
(* lock, so every load and store of the shared pointers, masks and of      *)
(* next_pid is a step of its own.  kill_task and get_task run in a system  *)
(* call, with interrupts off, and are one step.  The task tree is module   *)
(* Tasks; here a task is only its struct's address and its id.             *)
(***************************************************************************)
EXTENDS Naturals

CONSTANTS
  Task,     \* addresses kmalloc may return for a task struct
  main,     \* the one init_multitasking got
  List,     \* addresses kmalloc may return for a task_list
  first,    \* first_task_list
  NULL,
  Len,      \* TASKS_LIST_LEN
  MaxPid,   \* bound: creations stop when next_pid reaches it
  Creator,  \* kernel tasks that call create_task: the shell, ACPI's handlers
  shell     \* the one that also runs cltlist

ASSUME ListAssumption == /\ main \in Task
                         /\ first \in List
                         /\ NULL \notin Task \cup List
                         /\ Len \in Nat \ {0}
                         /\ MaxPid \in Nat
                         /\ shell \in Creator

VARIABLES
  live, id,             \* allocated task structs; task.id
  lists,                \* allocated task_lists
  tasks, mask, nextOf,  \* task_list.tasks, .mask, .next
  cur, nextPid,         \* current_task_list, next_pid
  pc, loc,              \* where in its function each creator is; its locals
  listed,               \* history: create_task has stored it; not yet killed
  overlap,              \* history: a step came between the halves of another
  dangling,             \* history: cltlist took out a list creations still use
  fault                 \* "none", or how the machine went down

heap   == <<live, id, lists>>
arrays == <<tasks, mask, nextOf>>
hist   == <<listed, overlap, dangling>>
vars   == <<heap, arrays, cur, nextPid, pc, loc, hist, fault>>

Slot    == 0 .. Len - 1
Full    == Slot   \* TASK_LIST_MASK_FULL
NoLocal == [new |-> NULL, pid |-> 0, list |-> NULL, old |-> NULL,
            todo |-> {}, used |-> {}, slot |-> 0]

(* The lists met along next from first_task_list: the least set that holds *)
(* it and is closed under next.                                            *)
Along(next) ==
  {l \in List : \A S \in SUBSET List :
      (first \in S /\ \A m \in S : next[m] \in S \cup {NULL}) => l \in S}

Chain     == Along(nextOf)
Before(l) == Along([nextOf EXCEPT ![l] = NULL]) \ {l}  \* those passed on the way to l

(* What the test at lines 184 and 266 stops at: the id it looks for, or a  *)
(* NULL entry, whose id it cannot read.                                    *)
StopsAt(l, s, i) == s \in mask[l] /\ (tasks[l][s] = NULL \/ id[tasks[l][s]] = i)
Stops(l, i)      == \E s \in Slot : StopsAt(l, s, i)

(* The first such place of the chain: its list and its slot, as sets, {}   *)
(* if there is none.                                                       *)
Find(i) == {l \in Chain : Stops(l, i) /\ \A m \in Before(l) : ~Stops(m, i)}
FindSlot(l, i) ==
  {s \in Slot : StopsAt(l, s, i) /\ \A r \in 0 .. s - 1 : ~StopsAt(l, r, i)}

(* get_task: the entry at that place.                                      *)
Lookup(i) == UNION {{tasks[l][s] : s \in FindSlot(l, i)} : l \in Find(i)}

-----------------------------------------------------------------------------
Init ==
  /\ live = {main}
  /\ id = [t \in Task |-> IF t = main THEN 1 ELSE 0]
  /\ lists = {first}
  /\ tasks = [l \in List |-> [s \in Slot |->
                IF l = first /\ s = 0 THEN main ELSE NULL]]
  /\ mask = [l \in List |-> IF l = first THEN {0} ELSE {}]
  /\ nextOf = [l \in List |-> NULL]
  /\ cur = first
  /\ nextPid = 2
  /\ pc = [c \in Creator |-> "idle"]
  /\ loc = [c \in Creator |-> NoLocal]
  /\ listed = {main}
  /\ overlap = FALSE
  /\ dangling = FALSE
  /\ fault = "none"

At(c, label) == fault = "none" /\ pc[c] = label
Goto(c, label) == pc' = [pc EXCEPT ![c] = label]

(* A creator that has looked at the current list and not yet finished with *)
(* it.                                                                     *)
Busy(c) == pc[c] \in {"grow", "old", "link", "pick", "slot", "mask"}

(* kmalloc(sizeof(task)), then the load half of next_pid++.                *)
ReadPid(c, t) ==
  /\ At(c, "idle")
  /\ nextPid < MaxPid
  /\ t \notin live
  /\ live' = live \cup {t}
  /\ id' = [id EXCEPT ![t] = 0]
  /\ loc' = [loc EXCEPT ![c] = [NoLocal EXCEPT !.new = t, !.pid = nextPid]]
  /\ Goto(c, "pid")
  /\ UNCHANGED <<lists, arrays, cur, nextPid, hist, fault>>

(* The store half; the id is the value that was loaded.                    *)
StorePid(c) ==
  /\ At(c, "pid")
  /\ nextPid' = loc[c].pid + 1
  /\ id' = [id EXCEPT ![loc[c].new] = loc[c].pid]
  /\ loc' = [loc EXCEPT ![c].pid = 0]
  /\ overlap' = (overlap \/ nextPid # loc[c].pid)
  /\ Goto(c, "test")
  /\ UNCHANGED <<live, lists, arrays, cur, listed, dangling, fault>>

(* if (current_task_list->mask == TASK_LIST_MASK_FULL)                     *)
TestFull(c) ==
  /\ At(c, "test")
  /\ IF cur \in lists
       THEN Goto(c, IF mask[cur] = Full THEN "grow" ELSE "pick") /\ UNCHANGED fault
       ELSE fault' = "freed list" /\ UNCHANGED pc
  /\ overlap' = (overlap \/ \E d \in Creator \ {c} : Busy(d))
  /\ UNCHANGED <<heap, arrays, cur, nextPid, loc, listed, dangling>>

Blank(l) ==
  /\ tasks' = [tasks EXCEPT ![l] = [s \in Slot |-> NULL]]
  /\ mask' = [mask EXCEPT ![l] = {}]
  /\ nextOf' = [nextOf EXCEPT ![l] = NULL]

(* kmalloc and memset of the new list; a freed list's address may return.  *)
NewList(c, l) ==
  /\ At(c, "grow")
  /\ l \notin lists
  /\ lists' = lists \cup {l}
  /\ Blank(l)
  /\ loc' = [loc EXCEPT ![c].list = l]
  /\ Goto(c, "old")
  /\ UNCHANGED <<live, id, cur, nextPid, hist, fault>>

(* current_task_list->next = new; current_task_list = new;  The build may  *)
(* order the two stores either way.                                        *)
ReadOld(c) ==
  /\ At(c, "old")
  /\ loc' = [loc EXCEPT ![c].old = cur, ![c].todo = {"next", "cur"}]
  /\ Goto(c, "link")
  /\ UNCHANGED <<heap, arrays, cur, nextPid, hist, fault>>

Linked(c, store) ==
  /\ store \in loc[c].todo
  /\ loc' = [loc EXCEPT ![c].todo = @ \ {store}]
  /\ Goto(c, IF loc[c].todo = {store} THEN "pick" ELSE "link")

LinkNext(c) ==
  /\ At(c, "link")
  /\ Linked(c, "next")
  /\ IF loc[c].old \in lists
       THEN nextOf' = [nextOf EXCEPT ![loc[c].old] = loc[c].list] /\ UNCHANGED fault
       ELSE fault' = "freed list" /\ UNCHANGED nextOf
  /\ UNCHANGED <<heap, tasks, mask, cur, nextPid, hist>>

LinkCur(c) ==
  /\ At(c, "link")
  /\ Linked(c, "cur")
  /\ cur' = loc[c].list
  /\ UNCHANGED <<heap, arrays, nextPid, hist, fault>>

(* Mutation of LowestFree: ctz of the mask itself. *)
LowestUsed(used) == {s \in used : \A r \in used : s <= r}

(* slot = ctz(~current_task_list->mask), undefined when the mask is full.  *)
LowestFree(used) == {s \in Slot \ used : \A r \in Slot \ used : s <= r}


PickSlot(c) ==
  /\ At(c, "pick")
  /\ \/ /\ cur \in lists
        /\ \E s \in LowestFree(mask[cur]) :
             loc' = [loc EXCEPT ![c] = [NoLocal EXCEPT
                       !.new = loc[c].new, !.list = cur, !.used = mask[cur], !.slot = s]]
        /\ Goto(c, "slot")
        /\ UNCHANGED fault
     \/ /\ cur \in lists /\ LowestFree(mask[cur]) = {}
        /\ fault' = "no slot"
        /\ UNCHANGED <<pc, loc>>
     \/ /\ cur \notin lists
        /\ fault' = "freed list"
        /\ UNCHANGED <<pc, loc>>
  /\ UNCHANGED <<heap, arrays, cur, nextPid, hist>>

(* current_task_list->tasks[slot] = new_task;                              *)
StoreTask(c) ==
  /\ At(c, "slot")
  /\ IF loc[c].list \in lists
       THEN /\ tasks' = [tasks EXCEPT ![loc[c].list][loc[c].slot] = loc[c].new]
            /\ UNCHANGED fault
       ELSE fault' = "freed list" /\ UNCHANGED tasks
  /\ Goto(c, "mask")
  /\ UNCHANGED <<heap, mask, nextOf, cur, nextPid, loc, hist>>

(* current_task_list->mask |= 1ULL << slot;  The build stores the mask it  *)
(* loaded for the choice of the slot; a build may also load it again.      *)
StoreMask(c) ==
  /\ At(c, "mask")
  /\ IF loc[c].list \in lists
       THEN /\ \E m \in {loc[c].used, mask[loc[c].list]} :
                 mask' = [mask EXCEPT ![loc[c].list] = m \cup {loc[c].slot}]
            /\ listed' = IF loc[c].new \in live THEN listed \cup {loc[c].new}
                                                ELSE listed
            /\ UNCHANGED fault
       ELSE fault' = "freed list" /\ UNCHANGED <<mask, listed>>
  /\ loc' = [loc EXCEPT ![c] = NoLocal]
  /\ Goto(c, "idle")
  /\ UNCHANGED <<heap, tasks, nextOf, cur, nextPid, overlap, dangling>>

-----------------------------------------------------------------------------
(* Mutation of Kill: the mask keeps the bit.                               *)
KillKeepsBit(i) ==
  /\ fault = "none"
  /\ \E l \in Find(i) : \E s \in FindSlot(l, i) :
       LET t == tasks[l][s] IN
       /\ t # NULL
       /\ tasks' = [tasks EXCEPT ![l][s] = NULL]
       /\ live' = live \ {t}
       /\ id' = [id EXCEPT ![t] = 0]
       /\ listed' = listed \ {t}
       /\ overlap' = (overlap \/ \E c \in Creator :
                        pc[c] \in {"slot", "mask"} /\ loc[c].list = l)
  /\ UNCHANGED <<mask, lists, nextOf, cur, nextPid, pc, loc, dangling, fault>>

(* SYS_TASK_KILL: get_task(arg), then kill_task of what it returned.       *)
Kill(i) ==
  /\ fault = "none"
  /\ \E l \in Find(i) : \E s \in FindSlot(l, i) :
       LET t == tasks[l][s] IN
       /\ t # NULL
       /\ mask' = [mask EXCEPT ![l] = @ \ {s}]
       /\ tasks' = [tasks EXCEPT ![l][s] = NULL]
       /\ live' = live \ {t}
       /\ id' = [id EXCEPT ![t] = 0]
       /\ listed' = listed \ {t}
       /\ overlap' = (overlap \/ \E c \in Creator :
                        pc[c] \in {"slot", "mask"} /\ loc[c].list = l)
  /\ UNCHANGED <<lists, nextOf, cur, nextPid, pc, loc, dangling, fault>>

(* get_task found nothing and t->id is read all the same, or the search    *)
(* itself met a NULL entry.                                                *)
KillMissing(i) ==
  /\ fault = "none"
  /\ Lookup(i) \in {{}, {NULL}}
  /\ fault' = IF Lookup(i) = {} THEN "no such task" ELSE "NULL entry"
  /\ UNCHANGED <<heap, arrays, cur, nextPid, pc, loc, hist>>

-----------------------------------------------------------------------------
(* clean_task_lists, one turn of its loop: load next, test its mask ...    *)
CleanStart(c) ==
  /\ c = shell
  /\ At(c, "idle")
  /\ loc' = [loc EXCEPT ![c] = [NoLocal EXCEPT !.list = first]]
  /\ Goto(c, "clean")
  /\ UNCHANGED <<heap, arrays, cur, nextPid, hist, fault>>

CleanTest(c) ==
  /\ At(c, "clean")
  /\ LET next == nextOf[loc[c].list] IN
     \/ /\ next = NULL
        /\ loc' = [loc EXCEPT ![c] = NoLocal]
        /\ Goto(c, "idle")
     \/ /\ next # NULL /\ mask[next] # {}
        /\ loc' = [loc EXCEPT ![c].list = next]
        /\ UNCHANGED pc
     \/ /\ next # NULL /\ mask[next] = {}
        /\ loc' = [loc EXCEPT ![c].old = next]
        /\ Goto(c, "unlink")
  /\ UNCHANGED <<heap, arrays, cur, nextPid, hist, fault>>

(* A list that creations use, or that has been used since it was tested.   *)
InUse(l) ==
  l = cur \/ mask[l] # {} \/ \E c \in Creator : Busy(c) /\ l \in {loc[c].list, loc[c].old}

(* Mutation of CleanUnlink: the list is freed where it is.                 *)
CleanNoUnlink(c) ==
  /\ At(c, "unlink")
  /\ dangling' = (dangling \/ InUse(loc[c].old))
  /\ Goto(c, "free")
  /\ UNCHANGED <<heap, arrays, cur, nextPid, loc, listed, overlap, fault>>

(* ... list->next = next->next ...                                         *)
CleanUnlink(c) ==
  /\ At(c, "unlink")
  /\ nextOf' = [nextOf EXCEPT ![loc[c].list] = nextOf[loc[c].old]]
  /\ dangling' = (dangling \/ InUse(loc[c].old))
  /\ Goto(c, "free")
  /\ UNCHANGED <<heap, tasks, mask, cur, nextPid, loc, listed, overlap, fault>>

(* ... kfree(next).  What freed memory holds is abstracted to zeros: no    *)
(* step reads it (SearchSafe; a creator that would ends in a fault).       *)
CleanFree(c) ==
  /\ At(c, "free")
  /\ Blank(loc[c].old)
  /\ lists' = lists \ {loc[c].old}
  /\ loc' = [loc EXCEPT ![c].old = NULL]
  /\ Goto(c, "clean")
  /\ UNCHANGED <<live, id, cur, nextPid, hist, fault>>

Next ==
  \/ \E c \in Creator :
       \/ \E t \in Task : ReadPid(c, t)
       \/ StorePid(c)  \/ TestFull(c)
       \/ \E l \in List : NewList(c, l)
       \/ ReadOld(c)   \/ LinkNext(c)    \/ LinkCur(c)
       \/ PickSlot(c)  \/ StoreTask(c)   \/ StoreMask(c)
       \/ CleanStart(c) \/ CleanTest(c)  \/ CleanUnlink(c) \/ CleanFree(c)
  \/ \E i \in 1 .. MaxPid : Kill(i) \/ KillMissing(i)

Spec == Init /\ [][Next]_vars

-----------------------------------------------------------------------------
Labels == {"idle", "pid", "test", "grow", "old", "link", "pick", "slot", "mask",
           "clean", "unlink", "free"}
Faults == {"none", "freed list", "no slot", "no such task", "NULL entry"}
Local  == [new : Task \cup {NULL}, pid : Nat, list : List \cup {NULL},
           old : List \cup {NULL}, todo : SUBSET {"next", "cur"},
           used : SUBSET Slot, slot : Slot]

TypeOK ==
  /\ live \in SUBSET Task
  /\ id \in [Task -> Nat]
  /\ lists \in SUBSET List
  /\ tasks \in [List -> [Slot -> Task \cup {NULL}]]
  /\ mask \in [List -> SUBSET Slot]
  /\ nextOf \in [List -> List \cup {NULL}]
  /\ cur \in List
  /\ nextPid \in Nat
  /\ pc \in [Creator -> Labels]
  /\ loc \in [Creator -> Local]
  /\ listed \in SUBSET Task
  /\ overlap \in BOOLEAN /\ dangling \in BOOLEAN
  /\ fault \in Faults

(* current_task_list is in the chain, but for the two stores that append a *)
(* new list, and create_task has not written to a freed list (156, 162).   *)
CurrentListSafe ==
  /\ fault # "freed list"
  /\ cur \in Chain \/ \E c \in Creator : pc[c] = "link" /\ loc[c].list = cur

(* Every task that create_task has returned and nobody has killed is found *)
(* under its id by get_task (lines 255-275): its list is in the chain, its *)
(* bit is set, its entry is its own and nobody else has its id.  It holds  *)
(* whatever kills and cltlist commands come between, as long as no two     *)
(* creations overlap and current_task_list has not been cleaned away.      *)
Findable ==
  ~overlap /\ ~dangling => CurrentListSafe /\ \A t \in listed : Lookup(id[t]) = {t}

(* The search of get_task and kill_task stays in allocated memory (lines   *)
(* 184, 266): next pointers lead to allocated lists and entries to live    *)
(* structs, even when creations overlap.  Only a creator's own pointer to  *)
(* current_task_list can go stale.  Every variable has its type.           *)
SearchSafe ==
  /\ TypeOK
  /\ first \in lists
  /\ \A l \in lists : /\ nextOf[l] \in lists \cup {NULL}
                      /\ \A s \in Slot : tasks[l][s] \in live \cup {NULL}

(* A NULL entry behind a set bit, which the search dereferences, needs two *)
(* creations, or a creation and a kill, that overlap on one list.          *)
NoNullEntry ==
  ~overlap => /\ \A l \in Chain : \A s \in mask[l] : tasks[l][s] # NULL
              /\ fault \notin {"NULL entry", "no slot"}
=============================================================================
