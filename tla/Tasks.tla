------------------------------- MODULE Tasks -------------------------------
(***************************************************************************)
(* The task tree of kernel/process/task.c and the scheduler that walks it. *)
(*                                                                         *)
(* Every task struct holds three pointers: parent, next (one of its        *)
(* children) and neighbor (the following child of the same parent, in a    *)
(* circular list).  schedule() runs in the timer interrupt, so it may      *)
(* strike between any two stores of create_task; kill_task runs inside a   *)
(* system call with interrupts off and is one step.  The structs come from *)
(* the heap: a freed struct keeps its contents until kmalloc hands the     *)
(* same address out again, and pointers to it stay behind.                 *)
(*                                                                         *)
(* The task lists that kill_task searches are the set reg here; module     *)
(* TaskLists models them.                                                  *)
(***************************************************************************)
EXTENDS Naturals

CONSTANTS
  Task,       \* the addresses kmalloc may return for a task struct
  main,       \* the one init_multitasking got
  NULL,
  MaxPid,     \* bound: creations stop when next_pid reaches it
  MayKill     \* do user tasks issue SYS_TASK_KILL?

ASSUME TaskAssumption == /\ main \in Task
                         /\ NULL \notin Task
                         /\ MaxPid \in Nat
                         /\ MayKill \in BOOLEAN

VARIABLES
  live,     \* structs that are allocated
  state,    \* task.state: the code only ever writes READY and DEAD
  kind,     \* task.privilege, and with it the trampoline the stack returns to
  parent, next, neighbor,
  ready,    \* stack (and, for a program, address space) in place
  reg,      \* tasks the task lists hold
  current,  \* current_task
  nextPid,  \* next_pid
  pc, loc,  \* where in create_task each task is, and its locals
  fault,    \* "none", or how the machine went down: "unbuilt", a task without a
            \* stack got the CPU; "hang", a search for a sibling cannot end
  torn,     \* history: a kill hit init, or a create_task under way
  orphans   \* history: tasks whose parent has been killed

tree == <<live, state, kind, parent, next, neighbor, ready, reg>>
vars == <<tree, current, nextPid, pc, loc, fault, torn, orphans>>

Ptr     == Task \cup {NULL}
Kinds   == {"kernel", "user"}
NoLocal == [new |-> NULL, head |-> NULL, last |-> NULL]

(* The tasks met by following f from t: the least set that holds t and is  *)
(* closed under f.                                                         *)
Orbit(f, t) ==
  {u \in Task : \A S \in SUBSET Task :
      (t \in S /\ \A v \in S : f[v] \in S \cup {NULL}) => u \in S}

(* Where a walk along neighbor from t stops: at the task whose neighbor is *)
(* goal.  Empty if it runs off a NULL neighbor or goes round for ever.     *)
WalkTo(t, goal) == {u \in Orbit(neighbor, t) : neighbor[u] = goal}

-----------------------------------------------------------------------------
Init ==
  /\ live = {main}
  /\ reg = {main}
  /\ state = [t \in Task |-> "READY"]
  /\ kind = [t \in Task |-> "kernel"]
  /\ parent = [t \in Task |-> NULL]
  /\ next = [t \in Task |-> NULL]
  /\ neighbor = [t \in Task |-> NULL]
  /\ ready = [t \in Task |-> t = main]
  /\ current = main
  /\ nextPid = 2
  /\ pc = [t \in Task |-> "run"]
  /\ loc = [t \in Task |-> NoLocal]
  /\ fault = "none"
  /\ torn = FALSE
  /\ orphans = {}

Running(c, at) == fault = "none" /\ current = c /\ pc[c] = at

(* create_task: a fresh struct, filled in, not yet reachable. *)
CreateAlloc(c, t, k) ==
  /\ Running(c, "run")
  /\ nextPid < MaxPid
  /\ t \notin live
  /\ live' = live \cup {t}
  /\ state' = [state EXCEPT ![t] = "READY"]
  /\ kind' = [kind EXCEPT ![t] = k]
  /\ parent' = [parent EXCEPT ![t] = c]
  /\ next' = [next EXCEPT ![t] = NULL]
  /\ neighbor' = [neighbor EXCEPT ![t] = NULL]
  /\ ready' = [ready EXCEPT ![t] = FALSE]
  /\ pc' = [pc EXCEPT ![c] = "link", ![t] = "run"]
  /\ loc' = [loc EXCEPT ![c] = [NoLocal EXCEPT !.new = t], ![t] = NoLocal]
  /\ nextPid' = nextPid + 1
  /\ UNCHANGED <<reg, current, fault, torn, orphans>>

(* The first child is its own neighbor. *)
CreateFirst(c) ==
  /\ Running(c, "link")
  /\ next[c] = NULL
  /\ neighbor' = [neighbor EXCEPT ![loc[c].new] = loc[c].new]
  /\ next' = [next EXCEPT ![c] = loc[c].new]
  /\ pc' = [pc EXCEPT ![c] = "stack"]
  /\ UNCHANGED <<live, state, kind, parent, ready, reg, current, nextPid, loc,
                 fault, torn, orphans>>

(* Otherwise the code goes on to read current_task->next ... *)
CreateTest(c) ==
  /\ Running(c, "link")
  /\ next[c] # NULL
  /\ pc' = [pc EXCEPT ![c] = "head"]
  /\ UNCHANGED <<tree, current, nextPid, loc, fault, torn, orphans>>

(* ... as head, which it follows if it has become NULL since the test ...  *)
CreateHead(c) ==
  /\ Running(c, "head")
  /\ IF next[c] = NULL
     THEN fault' = "hang" /\ UNCHANGED <<pc, loc>>
     ELSE /\ pc' = [pc EXCEPT ![c] = "walk"]
          /\ loc' = [loc EXCEPT ![c].head = next[c], ![c].last = next[c]]
          /\ UNCHANGED fault
  /\ UNCHANGED <<tree, current, nextPid, torn, orphans>>

(* ... and walks the ring to the child before head, one read of neighbor   *)
(* at a time, with the timer on.                                           *)
WalkOver(c) == neighbor[loc[c].last] = loc[c].head

WalkOn(c) ==
  IF neighbor[loc[c].last] = NULL
  THEN fault' = "hang" /\ UNCHANGED loc
  ELSE loc' = [loc EXCEPT ![c].last = neighbor[@]] /\ UNCHANGED fault

CreateWalk(c) ==
  /\ Running(c, "walk")
  /\ \/ /\ WalkOver(c)
        /\ pc' = [pc EXCEPT ![c] = "join"]
        /\ UNCHANGED <<loc, fault>>
     \/ /\ ~WalkOver(c)
        /\ WalkOn(c)
        /\ UNCHANGED pc
  /\ UNCHANGED <<tree, current, nextPid, torn, orphans>>

(* last->neighbor = new_task; *)
CreateJoin(c) ==
  /\ Running(c, "join")
  /\ neighbor' = [neighbor EXCEPT ![loc[c].last] = loc[c].new]
  /\ pc' = [pc EXCEPT ![c] = "close"]
  /\ UNCHANGED <<live, state, kind, parent, next, ready, reg, current, nextPid,
                 loc, fault, torn, orphans>>

(* new_task->neighbor = head; *)
CreateClose(c) ==
  /\ Running(c, "close")
  /\ neighbor' = [neighbor EXCEPT ![loc[c].new] = loc[c].head]
  /\ pc' = [pc EXCEPT ![c] = "stack"]
  /\ UNCHANGED <<live, state, kind, parent, next, ready, reg, current, nextPid,
                 loc, fault, torn, orphans>>

(* The stack is allocated and filled: a kernel task can now be switched to. *)
CreateStack(c) ==
  /\ Running(c, "stack")
  /\ ready' = [ready EXCEPT ![loc[c].new] = kind[loc[c].new] = "kernel"]
  /\ pc' = [pc EXCEPT ![c] = "list"]
  /\ UNCHANGED <<live, state, kind, parent, next, neighbor, reg, current,
                 nextPid, loc, fault, torn, orphans>>

(* The task enters the task lists; create_task returns. *)
CreateList(c) ==
  /\ Running(c, "list")
  /\ reg' = reg \cup {loc[c].new}
  /\ IF kind[loc[c].new] = "user"
     THEN pc' = [pc EXCEPT ![c] = "exec"] /\ UNCHANGED loc
     ELSE pc' = [pc EXCEPT ![c] = "run"] /\ loc' = [loc EXCEPT ![c] = NoLocal]
  /\ UNCHANGED <<live, state, kind, parent, next, neighbor, ready, current,
                 nextPid, fault, torn, orphans>>

(* exec_elf goes on to give the task its page directory and user stack. *)
ExecMap(c) ==
  /\ Running(c, "exec")
  /\ ready' = [ready EXCEPT ![loc[c].new] = TRUE]
  /\ pc' = [pc EXCEPT ![c] = "run"]
  /\ loc' = [loc EXCEPT ![c] = NoLocal]
  /\ UNCHANGED <<live, state, kind, parent, next, neighbor, reg, current,
                 nextPid, fault, torn, orphans>>

-----------------------------------------------------------------------------
(* The test (next_pid >> 1) == INIT_TASK_ID means "there is only init"; it *)
(* holds with one more task, too.                                          *)
Switching == nextPid \div 2 # 1

(* schedule(), from task c, over given next and neighbor pointers. *)
Stays(c, nx)      == nx[c] = NULL \/ state[nx[c]] = "DEAD"
Target(c, nx)     == IF Stays(c, nx) THEN main ELSE nx[c]
NoTurn(c, nx, nb) == nx      \* mutation of Rotate: always the same child
Rotate(c, nx, nb) == IF Stays(c, nx) THEN nx
                     ELSE [nx EXCEPT ![c] = nb[nx[c]]]

(* Mutation of SwitchTo: the CPU goes to next, the fallback to init is lost. *)
SwitchToNext(t)   == current' = next[current] /\ UNCHANGED fault

SwitchTo(t)       == /\ current' = t
                     /\ fault' = IF ready[t] THEN fault ELSE "unbuilt"

(* The timer interrupt and int 0x20 (task_yield) share vector 32. *)
Schedule ==
  /\ fault = "none"
  /\ Switching
  /\ next' = Rotate(current, next, neighbor)
  /\ SwitchTo(Target(current, next))
  /\ UNCHANGED <<live, state, kind, parent, neighbor, ready, reg, nextPid, pc,
                 loc, torn, orphans>>

(* A kernel task's entry function returns into task_trampoline, which marks *)
(* the task DEAD and yields for ever; nothing ever frees it.                *)
TaskReturn(c) ==
  /\ Running(c, "run")
  /\ c # main
  /\ kind[c] = "kernel"
  /\ state' = [state EXCEPT ![c] = "DEAD"]
  /\ pc' = [pc EXCEPT ![c] = "dead"]
  /\ UNCHANGED <<live, kind, parent, next, neighbor, ready, reg, current,
                 nextPid, loc, fault, torn, orphans>>

-----------------------------------------------------------------------------
(* kill_task(t): t leaves its parent's ring and the task lists, and is freed. *)
InRing(t)     == parent[t] # NULL
PrevSelf(t)   == {t}         \* mutation of Prev: the search is dropped
Prev(t)       == WalkTo(neighbor[t], t)

(* Mutations of NextWithout: next is not mended; or it always becomes NULL. *)
NextKept(t) == next
NextNull(t) == IF InRing(t) /\ next[parent[t]] = t
               THEN [next EXCEPT ![parent[t]] = NULL] ELSE next

NextWithout(t) ==
  IF InRing(t) /\ next[parent[t]] = t
  THEN [next EXCEPT ![parent[t]] = IF neighbor[t] = t THEN NULL ELSE neighbor[t]]
  ELSE next

(* Does the kill of t take away init, or hit a create_task under way: one  *)
(* by t, of t, one whose walk stands on t or is to stop before it, one     *)
(* that has t's ring open, or one that has just seen t to be there?        *)
Tears(t) == \/ t = main
            \/ pc[t] \notin {"run", "dead"}
            \/ \E c \in live : /\ pc[c] # "run"
                              /\ \/ loc[c].new = t
                                 \/ pc[c] = "head" /\ next[c] = t /\ neighbor[t] = t
                                 \/ /\ pc[c] \in {"walk", "join"}
                                    /\ t \in {loc[c].head, loc[c].last}
                                 \/ pc[c] = "close" /\ parent[t] = c

MayKillNow(c) == MayKill /\ Running(c, "run") /\ kind[c] = "user"

Remove(t, nb) ==
  /\ neighbor' = nb
  /\ live' = live \ {t}
  /\ reg' = reg \ {t}
  /\ state' = [state EXCEPT ![t] = "DEAD"]
  /\ torn' = (torn \/ Tears(t))
  /\ orphans' = (orphans \cup {u \in live : parent[u] = t}) \ {t}
  /\ UNCHANGED <<kind, parent, ready, nextPid, pc, loc>>

(* Mutation of KillWith: a task that killed itself does not yield. *)
KillNoYield(c, t, nb) ==
  /\ Remove(t, nb)
  /\ next' = NextWithout(t)
  /\ UNCHANGED <<current, fault>>

(* The kernel then either returns to the caller or, if the caller was the  *)
(* target, yields: schedule() reads the struct that was just freed.        *)
KillWith(c, t, nb) ==
  /\ Remove(t, nb)
  /\ IF t # c
     THEN /\ next' = NextWithout(t)
          /\ UNCHANGED <<current, fault>>
     ELSE /\ next' = Rotate(c, NextWithout(t), nb)
          /\ SwitchTo(Target(c, NextWithout(t)))

Kill(c, t) ==
  /\ MayKillNow(c)
  /\ t \in reg
  /\ \/ /\ InRing(t)
        /\ \E p \in Prev(t) :
             KillWith(c, t, [neighbor EXCEPT ![p] = neighbor[t]])
     \/ /\ ~InRing(t)
        /\ KillWith(c, t, neighbor)

(* The search for the predecessor never ends, with interrupts off. *)
KillHang(c, t) ==
  /\ MayKillNow(c)
  /\ t \in reg
  /\ InRing(t)
  /\ Prev(t) = {}
  /\ fault' = "hang"
  /\ torn' = (torn \/ Tears(t))
  /\ UNCHANGED <<tree, current, nextPid, pc, loc, orphans>>

Advance(c) == \/ CreateFirst(c) \/ CreateTest(c) \/ CreateHead(c) \/ CreateWalk(c)
              \/ CreateJoin(c) \/ CreateClose(c)
              \/ CreateStack(c) \/ CreateList(c) \/ ExecMap(c)

Next == \/ \E c, t \in Task, k \in Kinds : CreateAlloc(c, t, k)
        \/ \E c \in Task : Advance(c) \/ TaskReturn(c)
        \/ Schedule
        \/ \E c, t \in Task : Kill(c, t) \/ KillHang(c, t)

Spec == Init /\ [][Next]_vars

(* The timer keeps firing, and a task that keeps getting the CPU gets on   *)
(* with the create_task it began: a tick is 10 ms, a step a few cycles.    *)
FairSpec == Spec /\ WF_vars(Schedule) /\ \A c \in Task : SF_vars(Advance(c))

-----------------------------------------------------------------------------
PcValues == {"run", "link", "head", "walk", "join", "close", "stack", "list", "exec",
             "dead"}

(* In create_task, and the new struct is in no ring yet.                   *)
Unlinked == {"link", "head", "walk", "join"}

(* Every variable holds a value of its type, and a create_task under way   *)
(* has its struct and, where it needs them, its other locals.              *)
TypeOK ==
  /\ live \subseteq Task /\ reg \subseteq Task /\ orphans \subseteq Task
  /\ state \in [Task -> {"READY", "DEAD"}]
  /\ kind \in [Task -> Kinds]
  /\ parent \in [Task -> Ptr] /\ next \in [Task -> Ptr] /\ neighbor \in [Task -> Ptr]
  /\ ready \in [Task -> BOOLEAN]
  /\ current \in Task
  /\ nextPid \in Nat
  /\ pc \in [Task -> PcValues]
  /\ loc \in [Task -> [new : Ptr, head : Ptr, last : Ptr]]
  /\ \A c \in Task : /\ pc[c] \notin {"run", "dead"} => loc[c].new \in Task
                     /\ pc[c] \in {"walk", "join"} => loc[c].last \in Task
  /\ fault \in {"none", "unbuilt", "hang"}
  /\ torn \in BOOLEAN

(* The task its parent has under way in create_task, at one of these places. *)
Building(t, at) == /\ parent[t] \in live
                   /\ pc[parent[t]] \in at
                   /\ loc[parent[t]].new = t

(* The tasks that create_task has linked into the ring of their parent. *)
Linked == {t \in live : parent[t] # NULL /\ ~Building(t, Unlinked)}

(* The neighbor of t, as it will be once a join under way is closed. *)
Follower(t) == IF Building(t, {"close"}) THEN loc[parent[t]].head ELSE neighbor[t]

(* Siblings form rings: following neighbor from a linked task one stays    *)
(* among linked children of the same parent, and no two tasks share a      *)
(* neighbor -- however creations, kills and timer interrupts interleave,   *)
(* unless a kill hit init or a create_task under way (create_task 113-122  *)
(* against kill_task 199-215).                                             *)
SiblingRings ==
  ~torn => \A t \in Linked :
             /\ Follower(t) \in Linked
             /\ parent[Follower(t)] = parent[t]
             /\ \A u \in Linked : Follower(u) = Follower(t) => u = t

(* The child a task would run next is a living, linked child of its own,   *)
(* so schedule() and the walk in create_task never enter a freed struct    *)
(* (schedule 235-241 against kill_task 206-212).                           *)
NextChild ==
  ~torn => \A p \in live : next[p] # NULL => next[p] \in Linked /\ parent[next[p]] = p

(* No task is lost from the tree while its parent lives: it is met when    *)
(* going round the ring from its parent's next.  And neither the search of *)
(* kill_task, which runs with interrupts off, goes on for ever (209-212),  *)
(* nor the walk of create_task, which other tasks may interrupt to kill    *)
(* siblings of the new task: from wherever it stands, it still meets the   *)
(* child before head (113-118).                                            *)
NoTaskLost ==
  ~torn =>
    /\ fault # "hang"
    /\ fault = "none" =>
         /\ \A t \in Linked \ orphans :
              /\ next[parent[t]] # NULL
              /\ t \in Orbit([u \in Task |-> Follower(u)], next[parent[t]])
         /\ \A c \in live : pc[c] = "walk" => WalkTo(loc[c].last, loc[c].head) # {}

(* The struct the CPU runs on is allocated, also after a task killed       *)
(* itself and schedule() chose its successor from the freed struct.        *)
CurrentAlive == ~torn => current \in live

(* Tasks in the tree: reached from init through next and neighbor. *)
Attached ==
  {t \in Task : \A S \in SUBSET Task :
      (main \in S /\ \A p \in S : \A u \in Linked \ orphans :
                       parent[u] = p => u \in S) => t \in S}

(* A task above t comes to the returned task that is its next, and to no   *)
(* other child any more.                                                   *)
Barred(t) == \E p \in Orbit(parent, t) \ {t} : next[p] # NULL /\ state[next[p]] = "DEAD"

(* include/process/README.md:5 "constantly cycling through the tasks":     *)
(* every READY task of the tree gets the CPU again, unless it is killed or *)
(* the machine has gone down, or a kernel task that has returned bars the  *)
(* way to it (schedule 231-246).                                           *)
ReadyRuns ==
  \A t \in Task :
    t \in Attached \cap Linked /\ state[t] = "READY" /\ Switching
      ~> current = t \/ t \notin Attached \/ torn \/ fault # "none" \/ Barred(t)

(* include/process/README.md:13: the scheduler finds in the task struct    *)
(* "exactly where the CPU left off"; so it never picks a task without a    *)
(* stack or, for a program, an address space (create_task 113-140).        *)
OnlyBuiltTasksRun == fault # "unbuilt"
=============================================================================
