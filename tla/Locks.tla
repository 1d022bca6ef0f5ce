------------------------------- MODULE Locks -------------------------------
(***************************************************************************)
(* What the kernel's tasks wait for: the spinlocks of include/cpu/         *)
(* multicore.h, the interrupt flag, and the semaphores and locks that      *)
(* acpi_osl.c gives to ACPICA.  There is one processor.  spin_lock neither *)
(* turns interrupts off nor gives way, so a task that waits with           *)
(* interrupts off for a lock that a preempted task holds waits for ever.   *)
(*                                                                         *)
(* A task runs one path through the kernel after another; of a path only   *)
(* the steps that take, release or test something shared are kept, in the  *)
(* order in which the code executes them.                                  *)
(***************************************************************************)
EXTENDS Naturals, Sequences, FiniteSets

CONSTANTS
  N,        \* tasks 1 .. N take turns in this order
  Paths     \* Paths[t]: the names of the paths task t runs

VARIABLES
  cur,      \* the task on the processor
  int,      \* int[t]: the interrupt flag t runs with
  todo,     \* the rest of the path t is on; <<>> between two paths
  saved,    \* the flags AcpiOsAcquireLock returned and t still has to restore
  holder,   \* who holds each spinlock
  units,    \* units of the semaphore
  loaded,   \* the units AcpiOsWaitSemaphore has seen, before it stores them
  owners,   \* history: tasks that took a unit and have not given it back
  raced     \* history: a store of units overwrote a change since the load

vars == <<cur, int, todo, saved, holder, units, loaded, owners, raced>>

Task == 1 .. N
Lock == {"heap", "slab", "vmm", "pmm", "bdl"}
Free == 0   \* no task

-----------------------------------------------------------------------------
(* The functions that take locks, as the steps they execute; where it      *)
(* depends on data which way a function goes, the set of all its ways.     *)
Acq(l)  == <<<<"acq", l>>>>
Rel(l)  == <<<<"rel", l>>>>
Do(op)  == <<<<op>>>>
Under(l, S) == {Acq(l) \o s \o Rel(l) : s \in S}
Then(S, T)  == {s \o t : s \in S, t \in T}

pmm_alloc_page == Acq("pmm") \o Rel("pmm")
pmm_free_page  == Acq("pmm") \o Rel("pmm")

(* With or without a new page table; unmapping never allocates.            *)
vmm_map_page   == Under("vmm", {<<>>, pmm_alloc_page})
vmm_unmap_page == Acq("vmm") \o Rel("vmm")

(* kmalloc tries, expands the heap if it must, and tries again; kfree also *)
(* merges the new segment of kheap_expand.                                 *)
kfree   == Acq("heap") \o Rel("heap")
kheap_expand == {pmm_alloc_page \o m \o Acq("heap") \o Rel("heap") \o kfree :
                   m \in vmm_map_page}
kmalloc == LET try == Acq("heap") \o Rel("heap") IN
           {try} \cup {try \o e \o try : e \in kheap_expand}

(* Mutation of create_slab: the page is filled in before it is mapped for  *)
(* good, with the locks the other way round.                               *)
create_slab_either ==
  {pmm_alloc_page \o Acq("slab") \o vmm_unmap_page \o Rel("slab"),
   pmm_alloc_page \o Acq("vmm") \o Acq("slab") \o Rel("slab") \o Rel("vmm")}

create_slab == Then({pmm_alloc_page}, Under("slab", vmm_map_page))
drop_slab   == vmm_unmap_page \o pmm_free_page
slab_alloc  == LET look == Acq("slab") \o Rel("slab") IN
               {look} \cup {look \o c \o look : c \in create_slab}
                      \cup {look \o c \o look \o drop_slab \o look : c \in create_slab}
slab_free   == LET clear == Acq("slab") \o Rel("slab") IN {clear, clear \o drop_slab}

bdl_read == Acq("bdl") \o Rel("bdl")

(* map_elf_segments: interrupts are off from line 133 to line 170.         *)
map_elf_segments == {Do("cli") \o pmm_alloc_page \o m \o Do("sti") : m \in vmm_map_page}

(* kill_task ends with interrupts on, although it is called from a system  *)
(* call, which starts with them off.                                       *)
kill_task == Do("cli") \o kfree \o kfree \o Do("sti")

syscall(S) == {Do("cli") \o s \o Do("sti") : s \in S}

(* fat32_getall in SYS_DIRSCAN: a sector, a node, the nodes freed again.   *)
dirscan == {bdl_read \o k \o kfree : k \in kmalloc}

(* ACPICA's use of a mutex (a semaphore of one unit) and of spinlocks:     *)
(* AcpiOsAcquireLock only turns interrupts off.                            *)
acpi_mutex(wait) == Do(wait) \o Do("store") \o Acq("slab") \o Rel("slab") \o Do("signal")
acpi_locks == Do("save") \o Do("save") \o Do("restore") \o Do("restore")

Path == [alloc   |-> kmalloc,
         slab    |-> slab_alloc \cup slab_free,
         fs      |-> {bdl_read \o kfree},
         exec    |-> map_elf_segments,
         kill    |-> syscall({kill_task}),
         dirscan |-> syscall(dirscan),
         mutex   |-> {acpi_mutex("wait"), acpi_mutex("try")},
         locks   |-> {acpi_locks}]

ASSUME LocksAssumption == /\ N \in Nat \ {0}
                          /\ Paths \in [Task -> SUBSET DOMAIN Path]

-----------------------------------------------------------------------------
Init ==
  /\ cur = 1
  /\ int = [t \in Task |-> TRUE]
  /\ todo = [t \in Task |-> <<>>]
  /\ saved = [t \in Task |-> <<>>]
  /\ holder = [l \in Lock |-> Free]
  /\ units = 1
  /\ loaded = [t \in Task |-> 0]
  /\ owners = {}
  /\ raced = FALSE

Idle(t) == todo[t] = <<>>
At(op)  == ~Idle(cur) /\ Head(todo[cur])[1] = op
Advance == todo' = [todo EXCEPT ![cur] = Tail(@)]

(* schedule(): round robin.                                                *)
Turn == cur' = (cur % N) + 1

(* The timer, whenever interrupts are on.                                  *)
Preempt ==
  /\ int[cur]
  /\ Turn
  /\ UNCHANGED <<int, todo, saved, holder, units, loaded, owners, raced>>

(* Bound: a race may add a unit, so after one nobody uses the semaphore    *)
(* any more.                                                               *)
Start ==
  /\ Idle(cur)
  /\ \E p \in Paths[cur] \ (IF raced THEN {"mutex"} ELSE {}) :
       \E s \in Path[p] : todo' = [todo EXCEPT ![cur] = s]
  /\ UNCHANGED <<cur, int, saved, holder, units, loaded, owners, raced>>

(* spin_lock: the test and set that succeeds.                              *)
spin_lock ==
  /\ At("acq")
  /\ LET l == Head(todo[cur])[2] IN
       holder[l] = Free /\ holder' = [holder EXCEPT ![l] = cur]
  /\ Advance
  /\ UNCHANGED <<cur, int, saved, units, loaded, owners, raced>>

(* Mutation of spin_unlock: the lock word is not written.                  *)
spin_unlock_lost ==
  /\ At("rel")
  /\ Advance
  /\ UNCHANGED <<cur, int, saved, holder, units, loaded, owners, raced>>

spin_unlock ==
  /\ At("rel")
  /\ holder' = [holder EXCEPT ![Head(todo[cur])[2]] = Free]
  /\ Advance
  /\ UNCHANGED <<cur, int, saved, units, loaded, owners, raced>>

system_int_off ==
  /\ At("cli")
  /\ int' = [int EXCEPT ![cur] = FALSE]
  /\ Advance
  /\ UNCHANGED <<cur, saved, holder, units, loaded, owners, raced>>

system_int_on ==
  /\ At("sti")
  /\ int' = [int EXCEPT ![cur] = TRUE]
  /\ Advance
  /\ UNCHANGED <<cur, saved, holder, units, loaded, owners, raced>>

(* AcpiOsAcquireLock: the flag is returned to the caller.                  *)
AcpiOsAcquireLock ==
  /\ At("save")
  /\ saved' = [saved EXCEPT ![cur] = Append(@, int[cur])]
  /\ int' = [int EXCEPT ![cur] = FALSE]
  /\ Advance
  /\ UNCHANGED <<cur, holder, units, loaded, owners, raced>>

AcpiOsReleaseLock ==
  /\ At("restore")
  /\ int' = [int EXCEPT ![cur] = saved[cur][Len(saved[cur])]]
  /\ saved' = [saved EXCEPT ![cur] = SubSeq(@, 1, Len(@) - 1)]
  /\ Advance
  /\ UNCHANGED <<cur, holder, units, loaded, owners, raced>>

(* Mutation of SemTest: no test.                                           *)
SemNoTest ==
  /\ At("wait") \/ At("try")
  /\ loaded' = [loaded EXCEPT ![cur] = units]
  /\ Advance
  /\ UNCHANGED <<cur, int, saved, holder, units, owners, raced>>

(* AcpiOsWaitSemaphore: the test.  The build keeps what it loaded.         *)
SemTest ==
  /\ At("wait") \/ At("try")
  /\ units >= 1
  /\ loaded' = [loaded EXCEPT ![cur] = units]
  /\ Advance
  /\ UNCHANGED <<cur, int, saved, holder, units, owners, raced>>

(* No unit: give way.  With a time limit of 0 the wait is then over, and   *)
(* ACPICA gives up; any other limit never ends.                            *)
SemYield ==
  /\ At("wait") \/ At("try")
  /\ units = 0
  /\ IF At("try") THEN todo' = [todo EXCEPT ![cur] = <<>>] ELSE UNCHANGED todo
  /\ Turn
  /\ UNCHANGED <<int, saved, holder, units, loaded, owners, raced>>

(* Mutation of SemStore: the unit is not taken.                            *)
SemStoreLost ==
  /\ At("store")
  /\ units' = loaded[cur]
  /\ loaded' = [loaded EXCEPT ![cur] = 0]
  /\ raced' = (raced \/ units # loaded[cur])
  /\ owners' = owners \cup {cur}
  /\ Advance
  /\ UNCHANGED <<cur, int, saved, holder>>

(* ... sem->units -= Units;                                                *)
SemStore ==
  /\ At("store")
  /\ units' = loaded[cur] - 1
  /\ loaded' = [loaded EXCEPT ![cur] = 0]
  /\ raced' = (raced \/ units # loaded[cur])
  /\ owners' = owners \cup {cur}
  /\ Advance
  /\ UNCHANGED <<cur, int, saved, holder>>

AcpiOsSignalSemaphore ==
  /\ At("signal")
  /\ units' = units + 1
  /\ owners' = owners \ {cur}
  /\ Advance
  /\ UNCHANGED <<cur, int, saved, holder, loaded, raced>>

(* Each takes the processor's next step: nobody else can.                  *)
Run ==
  \/ spin_lock \/ spin_unlock
  \/ system_int_off \/ system_int_on
  \/ AcpiOsAcquireLock \/ AcpiOsReleaseLock
  \/ SemTest \/ SemYield \/ SemStore \/ AcpiOsSignalSemaphore

Next == Preempt \/ Start \/ Run

Spec == Init /\ [][Next]_vars

(* A task that has the processor again and again gets some instruction     *)
(* done; a timer interrupt that came while interrupts were off is taken as *)
(* soon as they are on.  No task has to start another path, and none is    *)
(* promised to find a lock free when its turn comes.                       *)
RunBy(t) == cur = t /\ Run
FairSpec == Spec /\ SF_vars(Preempt) /\ \A t \in Task : SF_vars(RunBy(t))

-----------------------------------------------------------------------------
(* The lock a task spins on, as a set: {} when it does not.                *)
SpinsOn(t) ==
  {l \in Lock : ~Idle(t) /\ Head(todo[t]) = <<"acq", l>> /\ holder[l] # Free}

(* Spinning with interrupts off: nobody will ever run again.               *)
Wedged == ~int[cur] /\ SpinsOn(cur) # {}

TypeOK ==
  /\ cur \in Task
  /\ int \in [Task -> BOOLEAN]
  /\ todo \in [Task -> Seq({"acq", "rel"} \X Lock
                            \cup {<<op>> : op \in {"cli", "sti", "save", "restore",
                                                  "wait", "try", "store", "signal"}})]
  /\ saved \in [Task -> Seq(BOOLEAN)]
  /\ holder \in [Lock -> Task \cup {Free}]
  /\ units \in Nat
  /\ loaded \in [Task -> Nat]
  /\ owners \in SUBSET Task
  /\ raced \in BOOLEAN

(* Nested spinlocks (create_slab takes vmm_lock and pmm_lock inside        *)
(* slab_lock, vmm_map_page takes pmm_lock) never make tasks wait for each  *)
(* other, or a task for itself.  With interrupts off the kernel waits for  *)
(* heap_lock, pmm_lock, vmm_lock and bdl_lock (kill_task,                  *)
(* map_elf_segments, SYS_DIRSCAN), then perhaps for ever; for slab_lock,   *)
(* the one lock held while others are taken, it never does.                *)
NoCycle ==
  /\ \A S \in (SUBSET Task) \ {{}} :
       \E t \in S : \A l \in SpinsOn(t) : holder[l] \notin S
  /\ Wedged => SpinsOn(cur) \cap {"slab"} = {}

(* AcpiOsAcquireLock ignores the lock it is given; turning interrupts off  *)
(* is enough for at most one task to be between it and the last            *)
(* AcpiOsReleaseLock, nested pairs included.                               *)
AcpiExclusive ==
  \A t, u \in Task : t # u => saved[t] = <<>> \/ saved[u] = <<>>

(* What ACPICA builds on: its locks exclude each other, and a unit of a    *)
(* semaphore is with one task or in the semaphore, until a store (acpi_osl *)
(* line 465) overwrites what another task changed since the test at 460.   *)
UnitConserved == AcpiExclusive /\ (~raced => units + Cardinality(owners) = 1)

(* Some path always ends, unless the processor is wedged or a unit of the  *)
(* semaphore has been lost.                                                *)
Ends == \E t \in Task : todo[t] # <<>> /\ todo'[t] = <<>>
Progress ==
  \/ <>(Wedged \/ raced)
  \/ []<>(\A t \in Task : Idle(t))
  \/ []<><<Ends>>_vars
=============================================================================
