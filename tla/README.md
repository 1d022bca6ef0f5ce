# Farix kernel: TLA+ models, model checking and proofs

Farix is a small monolithic kernel for x86_64 (with an older x86_32 port and an unfinished arm32
one). It runs on one processor (`init_multicore()` is commented out in `kernel/kernel.c`), is
preempted by the timer interrupt, and has no blocking primitives: tasks spin, halt or yield.
What can go wrong is therefore what a timer tick, a device interrupt or a second caller does
between two stores; most of the modules here are about that.

## Inventory

| part | state it keeps | operations | hard behaviour |
|---|---|---|---|
| Task tree, scheduler (`kernel/process/task.c`) | `task` structs linked by parent / next / neighbor, `current_task`, `next_pid` | `create_task`, `kill_task`, `schedule`, `task_trampoline` | the timer runs `schedule()` between any two stores of `create_task`; freed structs stay referenced; a task kills itself |
| Task lists (same file) | chain of arrays of 8 task pointers with a mask, `current_task_list` | insert in `create_task`, remove in `kill_task`, `get_task`, `clean_task_lists` | list full, list freed while still the one to insert into, two creators at once |
| Kernel heap (`kernel/memory/heap.c`) | segments with headers in the heap, `heap_end` | `kmalloc`, `kfree`, `kheap_expand` | split and merge arithmetic; expansion works outside the lock |
| Slab caches (`kernel/memory/slab*.c`) | pages with a mask, a free count and list pointers | `create_slabN`, `slab_allocN`, `slab_freeN`, `delete_slabN` | the lock is dropped to get a page; a page is freed when its count reaches N |
| Frame allocator (`arch/x86_64/memory/pmm.c`) | bitmap of frames | `pmm_alloc_page(s)`, `pmm_free_page` | words and bits, runs across words, exhaustion |
| Page tables (`arch/x86_64/memory/vmm.c`) | four levels of tables | map, unmap, copy, lookup | called with the lock of a slab held, takes that of the frame allocator |
| Spinlocks and interrupts (`include/cpu/multicore.h`, `idt.c`) | one word per lock, the interrupt flag | lock, unlock, cli, sti | code that runs with interrupts off takes locks that a preempted task holds |
| Keyboard, shell (`keyboard.c`, `kernel/shell`) | ring of 1024 bytes, line buffer, history | interrupt pushes, shell task pulls and edits | producer in the interrupt, consumer in a task; full ring; full line |
| Mouse (`mouse.c`, `terminal.c`) | ring of packets | the same without a test for full | the producer overruns the consumer |
| FAT32 (`kernel/fs/fat32.c`) | FAT, directory clusters, a shared sector buffer | create, write, read, remove, mkdir, list | several sectors per operation and no lock; disk full half way; a shared static buffer |
| RAM disk (`kernel/fs/ramdisk.c`), VFS (`kernel/fs/vfs.c`) | a table of lists of files by the hash of their names; a pointer to the mounted file system | create, read, write, remove, list | half made entries are in the lists while a program lists a directory; a failed allocation leaves them there |
| Block layer, AHCI, ATA (`kernel/drivers/storage`) | bounce buffer, command slot, completion flag | read, write, interrupt | timeout against a late completion |
| ELF loader, system calls (`elf.c`, `syscalls.c`) | address spaces | load, map, exec; dispatch by number | partial failure; system calls run with interrupts off |
| System modules, interrupt table (`sysmods.c`, `idt.c`, `devices.c`) | 4-slot tables, handler table | load, unload, register, unregister | slot reuse, failure half way |
| ACPI service layer (`acpi_osl.c`) | caches, semaphores, locks | the calls ACPICA makes | waits without a timeout, counters that are not atomic |
| Boot, descriptor tables, panic, terminal drawing, battery / thermal / power, klib, build scripts, ACPICA itself | | | straight-line set-up, pure I/O, vendored or build-time code |

How they interact: the timer and every device reach the kernel through `interrupt_dispatcher`;
the timer's handler calls `schedule()`. Tasks call the heap, the slabs and the file system
directly. The heap and the slabs get frames from the frame allocator through the page tables.
The shell reads the keyboard ring, runs commands, and starts programs with `exec_elf`, which calls
`create_task`. System calls arrive by a software interrupt with interrupts off.

Properties that make each part correct, in one line each:

- task tree: siblings form rings, no task is lost from them, nobody enters a freed struct, no walk
  is endless, every READY task runs again, no task runs before it is complete;
- task lists: every task is found under its id, the search stays in allocated memory, the list to
  insert into is one of the chain;
- heap: segments tile the heap, two free ones are never neighbours, a block has one owner, only
  mapped pages are used; the heap is an allocator;
- slabs: the count agrees with the mask, the list is whole, no page is lost, no page is taken from an
  allocation that waits at it; a cache is the same allocator;
- frames and page tables: a frame has one use, wherever its address lies;
- locks: no processor waits for a lock that only a task it keeps from running can release;
- keyboard and shell: the ring is a queue, a command is the line that was typed, no key stays behind;
- FAT32: chains end, a cluster has one owner, nothing leaks, an operation leaves other files alone;
- RAM disk: every list ends and holds what is allocated, nobody but a listing meets a half made entry, an
  operation leaves other files alone;
- storage: an answered call did what it was asked, a command left behind touches only its own sector,
  and the lock is always given back.

## Modules

| module | what it models | depends on |
|---|---|---|
| `Tasks`, `MCTasks`, `TasksProofs` | the tree of tasks, `create_task`, `kill_task`, `schedule` | |
| `Allocator` | abstract: blocks are handed out and given back | |
| `TaskLists`, `MCTaskLists`, `TaskListsProofs` | the lists of tasks by id: `create_task`'s part store by store, `kill_task`, `get_task`, `clean_task_lists` | |
| `Locks`, `MCLocks`, `LocksProofs` | spinlocks, interrupt flag, ACPI semaphores and locks: every path that waits for something while it keeps others waiting | |
| `Heap`, `MCHeap`, `HeapProofs` | `heap.c`; implements `Allocator` | `Allocator` |
| `Slabs`, `MCSlabs`, `SlabsProofs` | one of the four `slab*.c`; implements `Allocator` | `Allocator` |
| `Paging`, `MCPaging`, `PagingProofs` | `pmm.c`, `vmm.c` and those who use them: heap, slabs, AHCI tables, `exec_elf` | |
| `Fat32`, `MCFat32`, `Fat32Proofs` | `fat32.c` as its sector writes | |
| `Ramdisk`, `MCRamdisk`, `DriversProofs` | `ramdisk.c`, with a program's `SYS_DIRSCAN` between any two steps | |
| `Storage`, `MCStorage`, `DriversProofs` | `bdl.c` over `ahci.c` and a device that may be late, fail or never answer | |
| `KeyQueue` | abstract: a queue of bounded length | |
| `Input`, `MCInput`, `DriversProofs` | keyboard interrupt, ring, shell line; implements `KeyQueue` | `KeyQueue` |

Each `MC` module extends its module with what TLC needs (symmetry sets, sizes). An operator marked
"mutation" in a module is a plausible bug of the definition after it; it is used nowhere in the
specification and serves to test the properties.

### Tasks

State: one function per field of `struct task` from addresses to values (`state`, `kind` for
`privilege`, `parent`, `next`, `neighbor`), `live` for the structs `kmalloc` has handed out, `ready`
for "has a stack and, if a program, an address space", `reg` for the tasks the lists hold, and the
globals `current` and `nextPid`. `kfree` takes a struct out of `live` and leaves its fields as they
were, because that is what the heap does and `kill_task` reads them afterwards.

`create_task` is a chain of actions, one per load or store that another task can tell apart: `CreateAlloc`
(fill in the struct, 94-107), `CreateFirst` (109-111) or `CreateTest` / `CreateHead` / `CreateWalk` for each turn of the
loop / `CreateJoin` / `CreateClose` (109-122; whether the build reads `current_task->next` once or twice,
its behaviours are among these),
`CreateStack` (125-149), `CreateList` (151-163), and `ExecMap` for what `exec_elf` does afterwards.
`Schedule` may come between any two; it is `schedule()` with its three branches. `Kill` is one step:
`kill_task` is only reached from a system call and runs with interrupts off. A walk over `neighbor`
that follows NULL, or in `kill_task` would not end, is the fault "hang", a switch to a task without a stack the fault
"unbuilt"; a behaviour ends there. A walk of `create_task` that would not end is seen by `NoTaskLost`, which asks of every
such walk that the child it looks for is still to come. The second `task_yield` of `kill_task` (227), after interrupts are on again, is
left out: it costs a turn at most.

Bounds: `MaxPid` bounds the creations, four structs so that a ring of three children, two levels, and
the reuse of a freed struct all occur. `Tasks_tree` checks liveness too and so does without symmetry.

`torn` is a history variable for what the code does not defend against: a kill of init, of a task in the
middle of `create_task` or of the struct it makes, and of a sibling at three moments of it: the only
sibling between the test of `next` and its use (109, 113: NULL is followed), the sibling the walk stands
on or is to stop before (116: a walk whose `head` is gone never ends; 120: the new task is hung behind a
freed one), and any sibling while the ring is open (120-122: `kill_task`'s search follows NULL). Any
other sibling may be killed at any moment of the walk. The properties speak of behaviours without `torn`.

### Heap and Slabs

Both take a critical section of their lock as one step and everything outside as steps of its own,
so other threads come in between. In `Heap`, addresses and sizes are the real numbers of bytes
(`sizeof(HeapSegment)` = 40, page = 4096): `Cut`, `Splits`, `PagesFor` and `RoundUp` are the code's
arithmetic. A header absorbed to the left is in `wiped` while somebody still refers to it (its magic
is cleared, so `kfree` refuses it); one absorbed from the right keeps its magic, and freeing it
again is the fault "stale". `raced` records that the heap was used by someone else in the middle of a
`kheap_expand`; `OneOwner` and `ImplementsAllocator` hold up to there; what happens
after it is told under "Disagreements". `Tiling` and `Coalesced` need no such proviso.

In `Slabs`, `cap` is the number of objects that fit behind the header of a page: in the kernel's four caches
(`acpi_osl.c:41-44`, `65-68`) one less than `Slots`, the bits of the mask; caches that are full to the last bit are in
the model besides. `pulled` records that the slab an allocation waits at was freed meanwhile; what the code
does next depends on the page's new user, so the behaviour ends there. `WaitSafe` says that this never
happens in a cache of the kernel's kind.

### Paging

`used` is the bitmap, `kmap` where the kernel's address of each frame leads, `low` and `table` the
lower half of each program. It composes the frame allocator and page tables with their users at
the grain of a frame; the users' inner workings are in their own modules. Using frame 0 after a NULL
that nobody tested, and writing through an address that leads elsewhere, end the behaviour as
faults. Four levels of tables are two here: the code treats levels alike. The heap's window lies inside the direct
map, and frames from it are handed out like others, so a slab may have the address of a page of the heap;
`overgrown` records that the heap grew to a page where a slab was. `SlabFree` is the end of a slab in
`slab_free` and that of a surplus one in `slab_alloc` (slab16.c:114), the only one the kernel's own caches reach. Nothing gives
back what a program had: `kill_task` frees no directory, table or page, so there is no such action.

### Fat32

`fat` and `data` are the disk. An operation is a list `todo` of sector writes in the code's order;
`Step` makes the next, `Step(TRUE)` loses it (`bdl_write` returns nothing and AHCI gives up
silently), `Crash` drops the rest. One operation at a time, because only the shell's task changes
files. `harm` names the first thing that left the disk in disorder (a lost write, a crash, the code's
own stale-sector bug, a directory removed with its files); `OneOwner` and
`NothingLeaks` hold up to it, `WalksEnd` beyond lost writes and crashes. A read that fails hands over what the
buffer held before (`ahci.c:575-587`), the driver walks along that, or changes part of it and writes it back
(`fat32.c:265-267`), and a write given up may come late with the bytes of another (`ahci.c:684`): `Garble` puts any of the
disks in `Stray` in place of the one there is, and the behaviour is not followed further. The initial disk is the one `fx disk`
makes, with one file of two clusters.

`Chain` is what the loops over `get_next_cluster` visit, as the least set closed under the links, and
`Before` the order in which they visit the slots of a directory; no recursion is needed, so the module
can be proved about. A path leads through one directory at most, so
directories nest two deep; longer paths, which repeat the same step of `find_cluster_for_path`, are left
out. The proof's invariant speaks of directories and not of the paths to them.

Bounds: `MaxCluster` gives four clusters (2 to 5), two slots per sector so that a directory fills up
and grows; one more operation (`MaxAfter`) after the first disorder. The run `Fat32_stale` needs five
clusters: a full root, its second cluster and three files.

### Ramdisk

`files_table`, `next` and `file` are the code's; `live` is what `kmalloc` has given out. Only the shell's
task creates, writes, looks up and removes, one command after another, so `ramdisk_get`, `ramdisk_write`
and `ramdisk_remove` are one step each. A creation is three: the entry is in its list (`Create`), it gets a
file (`CreateFile`), the file gets a name (`CreateName`); `hand` is where the shell is. In between a
program may list a directory (`ramdisk_getall`, through `SYS_DIRSCAN`, which runs with interrupts off).
Either allocation may fail, and the entry stays as it is (`failed` remembers that). An allocation that fails
before anything is changed is a step that changes nothing.

A walk that dereferences NULL is a fault: "end" beyond the last entry, "half" at an entry without a
file or a name; a listing that stays at one entry for ever is the fault "loop". A behaviour ends there,
since what happens next depends on what lies in page 0. `From`, the least set closed under `next`, is what a
walk meets, and `Met` the first entry it stops at. A name is a value with a hash; of a
path only the names are kept that equal it but for a slash (`Trap`). A write is at offset 0, as
the shell's are.

`OthersKept` holds without exception for writes. For removals it has one: from a list of one file the code
takes that file unread (251), which is its behaviour and not what `kernel/fs/README.md:60` says of it; see
"Disagreements".

Bounds: three structs, two names in one list and one in another, texts of one and two characters: lists
of none, one, two and three entries, removals at the end and in the middle, shorter and longer writes.

### Input

`KeyboardHandler` is atomic, being an interrupt; `shell_update` is cut where the interrupt can be
told apart: the test (81), the read of the character (82), the store to `kbd_tail` with the edit
(83-100), the command (103-113). Editing the line is one step with the store, since no one else sees
the line. The loop of `shell_thread` halts (`Halt`, kernel.c:63) after every `shell_update`. Between the end of
`shell_update` and the `hlt` (`pc = "leave"`) interrupts are on: a key that comes there is in the ring, but its
interrupt is over and does not end the `hlt`; the next interrupt does, the timer's at the latest
(`Tick`). `Bar` is a sibling of the shell's task whose function returns (`task_trampoline`, task.c:61): `schedule`
never goes past it (237), so from then on the shell may have no turn, and `KeysTaken` promises nothing.
`typed` is a history variable. What a command does is not modelled. Keys are characters as the editor
tells them apart: newline, backspace, an arrow, letters.

### TaskLists

State: the fields of `task_list` (`tasks`, `mask`, `nextOf`) over the addresses `kmalloc` may return,
the allocated ones (`live` structs, `lists`), `cur` for `current_task_list`, `nextPid`. `create_task`
runs with the timer on and takes no lock, so each load and store of something shared is an action:
`ReadPid` and `StorePid` (98), `TestFull` (151), `NewList` (152-155), `ReadOld`, `LinkNext` and
`LinkCur` (156, 157: two stores the compiler may order either way), `PickSlot` (160-161),
`StoreTask` (162), `StoreMask` (163). The build loads the mask once, at 160, and stores it at 163 with
one more bit; the C source permits a second load, so `StoreMask` has both. `clean_task_lists` is
`CleanStart`, `CleanTest`, `CleanUnlink`, `CleanFree`. `Kill` and `KillMissing` are one step, being
system calls: `SYS_TASK_KILL` uses what `get_task` returns without a test, so an id nobody has is a
fault. The tree is left to `Tasks`.

History variables: `listed` (stored, and not killed since), `overlap` (a step came between two halves
of another operation on the same data), `dangling` (cltlist freed the list creations use). The code
has no defence against the last two, and `Findable` and `NoNullEntry` hold up to them; `SearchSafe`
holds throughout. A slot of an earlier list is never used again, which wastes space and is no fault.

Bounds: lists of two slots, three structs, three lists and ids up to 5: a list fills, a second one is
appended, becomes empty and is cleaned; two creators, one of them the shell, which also cleans.

### Locks

A task runs one path through the kernel after another. A path is the sequence of its steps that
take or release a spinlock, change the interrupt flag or touch a semaphore, written as the source
nests them (`kmalloc`, `create_slab`, `map_elf_segments`, ...); where data decides which way a
function goes, the operator is the set of its ways. `Run` takes the next step of the task on the
processor, `Preempt` is the timer, which only comes when the flag is set. A semaphore is one of one
unit, because ACPICA's mutexes are; `SemTest` and `SemStore` are the two halves of line 460-466.
`AcpiOsAcquireLock` does not look at the lock it is given and only turns interrupts off, and the
model says so.

`Wedged` is the state from which there is no way on: interrupts off and a lock to wait for. It is
reachable: `kill_task` calls `kfree` with interrupts off (219), `map_elf_segments` calls
`pmm_alloc_page` and `vmm_map_page` so (elf.c:146), `SYS_DIRSCAN` reads sectors so (syscalls.c:49), each
while a preempted task may hold the lock. `Progress` says that nothing else stops the kernel, and
`NoCycle` that no tasks wait for each other and that `slab_lock` is never waited for in that way.
`raced` is the lost update of a semaphore (acpi_osl.c:465).

Bounds: three tasks, each with the paths its kind of task runs (`MCPaths`); every path that nests or
waits with interrupts off is in the run.

### Storage

A call of `bdl_read` or `bdl_write` goes through `spin_lock`, `ahci_find_free_port`,
`ahci_find_free_slot`, `fill`, `issue`, `poll`, `copy`, `spin_unlock`. The device is external: it takes
a command from the list (`DeviceStart`), completes it (`DeviceDone`), or fails it (`DeviceFail`), which
stops the port; or it does nothing. It reads and writes the bounce buffer when it completes, which
may be long after the call gave up. The interrupt handler clears the error bits at any moment when interrupts are on.
`answered` and `alone` are history: the loop saw the command complete; no other command was
outstanding, on any drive, when this one took its slot.

The list, the sectors and the port are those of the first SATA drive of `active_drives`. The machine the
repository starts (`fxtools/targets/qemu.py`) has no other, and its CD-ROM is passed over for its signature. With
`Others` there are more, and then a call that finds the first one busy uses another one (`elsewhere`, `away`): the
sector of the same number there. Of those drives the module keeps that they fill and read the one bounce buffer too,
also long after the call (`abroad`, `OtherDone`); their sectors are not in it.

A program's `SYS_DIRSCAN` reads with interrupts off (`off`): until it is back no other caller runs and the
interrupt handler does not. If it finds `bdl_lock` taken it spins for ever, and the holder is never scheduled again:
`Wedged`, the hazard that `Locks` has for every lock. `Spin` is that loop; it changes nothing and is a step only so that TLC's deadlock check
finds states in which a caller stops for any other reason.

What the code does after a time-out is kept: the call goes on as if it had been answered, so a
read copies whatever the bounce buffer holds, and neither caller learns of it (the functions return
`void`). `AnsweredIsDone` is therefore about answered calls that started alone, and `SlotIntact`
confines the damage of an abandoned command to its own sector. After a failed command the port stays halted and
its slot taken; the comment above `ahci_find_free_slot` ("gauranteed to have atleast one free slot")
stops being true after as many calls as there are slots, and the code returns then. This is also
the source of `Fat32`'s lost writes.

Bounds: two callers, two sectors one of which is protected, two values, two slots, loops of two
turns: enough for two abandoned commands, a full list, a late completion under another's command.

## What the runs check

Each component's type invariant is checked too: by itself, or as the first conjunct of `SearchSafe`, `Tiling`,
`ListIntact` and `ChainsIntact`.

| run | instance | shows |
|---|---|---|
| `Tasks_tree` | 4 structs, `MaxPid` = 5 (three creations, ids 2 to 4), kernel tasks may return, programs may kill | `SiblingRings`, `NextChild`, `NoTaskLost`, `CurrentAlive`: the tree survives every interleaving of creation, kill and timer, and no walk hangs; `ReadyRuns` under fairness: every READY task of the tree gets the CPU again |
| `Tasks_unbuilt` (violation) | the same, without kills | the timer makes a task run that has no stack yet |
| `TaskLists_safety` | 2 creators, 3 structs, 3 lists of 2 | `Findable`, `SearchSafe`, `NoNullEntry` |
| `Locks_safety` | 3 tasks, 8 kinds of path | `NoCycle`, `UnitConserved`; `Progress` under fairness |
| `Heap_safety` | 2 threads, blocks of 1000 and 5000, 1 to 5 pages | `Tiling`, `Coalesced`, `OneOwner`; the heap implements `Allocator` |
| `Slabs_safety` | 3 threads, 4 frames, slabs of 2 bits for 1 or 2 objects | `ListIntact`, `NoFrameLost`, `WaitSafe`; a cache implements `Allocator` |
| `Paging_safety` | 2 programs, 12 frames: 2 the kernel's, 3 in the heap's window, 2 beyond the direct map | `FrameOwner` |
| `Fat32_safety` | 4 clusters, 2 slots | `WalksEnd`, `OneOwner`, `NothingLeaks`, `OthersUntouched` |
| `Fat32_stale` (violation) | 5 clusters | a directory that grows gets copies of other files' entries |
| `Ramdisk_safety` | 3 entries, 3 names, 2 lists | `ChainsIntact`, `OnlyMidway`; `OthersKept` of every step |
| `Storage_safety` | 2 callers, 2 sectors, 2 slots, other drives | `AnsweredIsDone`, `SlotIntact`; `HolderReturns` under fairness |
| `Input_safety` | ring of 3, line of 2 characters, 5 keys per command | `ImplementsQueue`, `CommandIsLine`, `KeysTaken` |

Why the bounds are enough: each instance is the smallest in which the interesting cases of its
component occur. Three threads can be in the unlocked part of `slab_alloc` at once, and of the slabs with two objects one can
lie between two others; the heap can grow twice and be merged on both sides; two programs
compete for frames that run out; a directory fills, grows and empties; the ring fills, wraps around
and drops a key; in `Paging_safety` the direct map begins below the heap's window and ends inside it, and there are frames beyond.

Deadlock is checked in `Input_safety` and `Storage_safety`. In each one state of standstill is
the code's own and has a step that changes nothing: interrupts that come while the shell is barred (`Tick`),
the spinning of a caller with interrupts off (`Spin`). The other models stop legitimately: at a fault that ends
a behaviour, at the history variables that do (`pulled`), or when the bounds on creations, held
blocks, pages or clusters are used up.

### Fairness

`Tasks`: weak fairness of `Schedule`, as the timer fires 100 times a second and interrupts are
off only for bounded stretches (a hang is a fault of its own; so is, outside this module, the wait for a lock with interrupts
off, which `Locks` calls `Wedged` and which this assumption leaves out); strong fairness of a task's own steps,
since a tick of 10 ms is long against a few stores, so a task that is scheduled again and again does
not remain at the same store. `Input`: weak fairness of the shell's steps, which is what `ReadyRuns`
gives its task as long as it is not `barred`, and of `Tick`. A command that does not come back is not in the
module. The keyboard is never assumed to be fair. When a kernel task's entry
function has returned, the first assumption does not help its siblings: a DEAD child at `next` is
never passed over (task.c:237). `ReadyRuns` excepts the tasks below such a `next` (`Barred`) and no others.

`Locks`: strong fairness of `Preempt` and of each task's steps on the processor. A timer interrupt that
comes while interrupts are off stays pending until they are on, so if they are on again and again it
is taken; and a task that has the processor again and again executes something, a tick being long
against an instruction. No task has to start another path, and none is promised to find a lock free:
`spin_lock` is not fair.

`Storage`: weak fairness of the steps of the caller that holds the lock. As long as interrupts are on the timer gives it the
processor again and again, and if it turned them off itself it keeps the processor. What the scheduler
does not give is a turn of the holder while a caller with interrupts off waits for it; `HolderReturns`
excepts just that (`Wedged`), and those who wait for the lock are not assumed to run. Nothing is asked of the
drives or of the interrupt, so it holds for a drive that is dead. The loop's counter
and nothing else makes it end.

## What is proved

`TasksProofs` (for any set of task structs and any number of creations):

- `TypeCorrect`: `Spec => []TypeOK`.
- `RingsCorrect`, `NextChildCorrect`, `CurrentAliveCorrect`: `SiblingRings`, `NextChild` and
  `CurrentAlive` are invariants. They are not inductive: `SiblingRings` alone says nothing of a
  `create_task` under way, which already holds pointers it will store later. The inductive invariant
  is `TreeInv == TypeOK /\ (~torn => Shape)`; `Shape` adds what the locals of a suspended
  `create_task` stand for (`Creation`: `next` is not NULL once it was tested, `head` and `last` are linked children of the
  creator, and `last` is still the one before `head` when the walk is over; the new struct's `neighbor` is still NULL), that
  the task lists name linked tasks only, so that a kill finds its target in a ring, and that every
  task but init has a parent (`Lineage`). There is
  one lemma per action (`AllocTree` ... `KillTree`), put together in `StepTree`. The code's walk along the ring is a
  minimal closed set (`Orbit`), so that no recursion is needed; `WalkFindsSibling` shows that it
  stops at a sibling.
- `NoTaskLostHolds`: `Spec => []NoTaskLost`. That siblings form rings does not say how many rings: a
  ring might be cut in two and one half never be reached. `RingInv` adds to `TreeInv` that, as long as the
  machine runs, `Whole` holds: from the follower of a task one comes back to the task, a
  child of a living parent is met from the parent's `next`, no ring mixes such children with those
  a killed parent left behind, and the new task of a `create_task` whose ring is open has no stack
  (`Reached`, `Fresh`). The last part is why the timer does no harm: to take the parent's `next` past the
  gap it would have to switch to that task, and then the machine is down. `OrbitInserted` and
  `OrbitRemoved` say what one store to `neighbor` does to what a walk meets; `WalkEnds` that in a closed ring
  the search of `kill_task` ends; `WalkReturns` that a walk of `create_task`, interrupted anywhere, still has the
  child before `head` ahead of it: `head` and `last` are met from `next`, and rings that meet are one.

`TaskListsProofs` (for any creators, tasks, lists and slots, any number of ids):

- `TypeCorrect`: `Spec => []TypeOK`.
- `SearchSafeHolds`: `Spec => []SearchSafe`, with no proviso. The invariant behind it: an entry is a live task and
  stands in one slot only, and what a creator has yet to store stands in none (`Entries`); a list that is
  not allocated is blank (`Unused`); `next` leads to allocated lists, never to the first, and to no list
  twice, apart from the list that `clean_task_lists` is just taking out (`Links`); what it holds on to is
  still what it was when tested (`Sweep`).
- `NoNullEntryHolds`, `FindableHolds`: the same for `NoNullEntry` and `Findable`. What they need besides holds only
  while operations have not overlapped (`OneAtATime`: at most one creator is between its halves; `Ids`:
  ids in use are distinct and below `next_pid`), and, once `clean_task_lists` has freed the list
  that creations use, not any more (`Settled`: masks agree with entries, and every listed task is in
  the chain). `IInv` puts them together under these provisos, which are the properties' own.

`LocksProofs` (for any number of tasks, and any choice among the paths of `Locks`):

- `TypeCorrect`: `Spec => []TypeOK`.
- `NoCycleHolds`: `Spec => []NoCycle`. Every path takes locks in the order of `Rank` (`slab_lock` before
  `vmm`'s, that before those of heap, frames and block layer), releases only what it holds, and ends
  holding nothing (`Nested`, shown path by path; `Calls` is closed under concatenation). Hence a task
  that waits for a lock and holds another cannot be waited for by the holder of the first, and so on
  along any cycle: ranks would fall for ever. The other half is that no path asks for `slab_lock`
  with interrupts off (`MaskedOps`), and that only the task on the processor has them off. `Where(t)` is the invariant: a
  task rests, holding nothing, or is at a place of one of its paths, holding `HeldAt` of that place.
- `UnitConservedHolds`: `AcpiExclusive` (only the task on the processor is inside a lock of ACPICA's) always holds, and
  while no update of the semaphore was lost (`raced`), its units and its owners are one in number.

`HeapProofs` (for any tasks, any sizes asked for, any number of pages):

- `TypeCorrect`, `TilingHolds`, `CoalescedHolds`: `Spec => []TypeOK`, `[]Tiling`, `[]Coalesced`. `ChainInv` is the invariant: the headers
  are a chain from 0 to `heapEnd` which is a whole number of pages, a header whose magic was cleared is
  not in it, and two free neighbours occur only where the second is the segment that a `kheap_expand`
  has appended and not freed yet. One lemma for each piece of `heap.c`'s arithmetic shows that it keeps
  the chain: `SplitChain`, `MarkChain`, `AppendChain`, `AbsorbChain`, `MergeRightChain`, `MergeLeftChain`.
- `OneOwnerHolds`: `Spec => []OneOwner`, up to `raced` as the property says. Needed besides (`Undisturbed`): segments in use
  and blocks handed out belong together one to one (`OwnedOnce`), every page the heap spans
  is mapped and no fault has occurred (`Backed`: no access to an unmapped page, and no `kfree` of a header that was absorbed), and what a `kheap_expand` has mapped so far is behind the heap's end (`ExpandInv`).
- `HeapIsAllocator`: `Spec => ImplementsAllocator`. Each `kmalloc` that succeeds is the abstract allocation of a block
  nobody has, each `kfree` the return of one, and all else stutters.

`PagingProofs` (for any number of frames, programs, and pages of heap):

- `TypeCorrect`: `Spec => []TypeOK`.
- `FrameOwnerHolds`: `Spec => []FrameOwner`, wherever the window lies. As long as the heap has not grown over a slab,
  a slab's page leads to its own frame (`Reached(slabs)`), which is the one freed with it. The invariant (`Holds`) states all uses
  of frames as one set of triples, of which `used` is the projection and in which no frame occurs twice (`Owned`); `AddUse`,
  `DropUse`, `MoveUse` are what an allocation, a release and a change of hands do to it.

`SlabsProofs` (for any number of threads, frames and slots):

- `TypeCorrect`, `ListIntactHolds`, `NoFrameLostHolds`: `Spec => []TypeOK`, `[]ListIntact`, `[]NoFrameLost`. The
  list is again a least closed set (`Reach`). `IInv`: `prev` undoes `next` along the list and the list
  ends (`Whole`), counts agree with masks (`CountOf`), a page is mapped just if it is listed or some thread
  has it in hand between two critical sections (`Mapped`, `Waits`), and objects handed out have a bit each in a
  listed slab (`Objects`).
- `WaitSafeHolds`: `Spec => []WaitSafe`. The bits beyond `cap` stay set in every page and no object has one of
  them (`Fits`), so the count never comes to `Slots` where `cap` is less (`FreedFull`).
- `SlabIsAllocator`: `Spec => ImplementsAllocator`; that no object is handed out twice is `Objects`.

`Fat32Proofs` (for any number of clusters and of slots in a sector, any names and sizes):

- `TypeCorrect`, `WalksEndHolds`: `Spec => []TypeOK` and `[]WalksEnd`, whatever writes are lost and wherever the
  machine stops, until other bytes than those meant are written (`Inv` is `IInv` up to there). `WalksEnd` is not inductive, since a link written late could close a circle. The invariant: every set
  of clusters has one whose link leads out of it (`Acyclic`); of what is left of an operation only the first job can
  link a cluster to another, and the other is then still free (`Ready`).
- `OneOwnerHolds`, `NothingLeaksHolds`, `OthersUntouchedHolds`: `Spec => []OneOwner`, `[]NothingLeaks` and
  `OthersUntouched`, up to the first disorder as the properties say. What is on the disk in the middle of an operation depends on how
  far it has come, so the invariant `Tidy` says that the state is at one of twelve stages (`Resting`, `Making`,
  `Marking`, `Adding`, `Clearing`, `Growing`, `Grown`, `Placing`, `Removing`, `Dropping`, `Writing`, `Resizing`), each of which
  fixes what `todo` still holds and how the disk differs from one at rest. At rest it is `Full` for some set `D` of
  clusters, those of the directories: links stay inside `D` or outside it, and no cluster is linked twice, named by two entries, or
  linked and named (`Apart`); what is linked or named is taken (`LinksTaken`, `NamesTaken`, `DirsTaken`) and what is taken
  is linked or named (`Held`); ranks grow along links and from an entry to its cluster (`Ranked`); nothing
  comes after the end of a directory (`Shown`). A lemma for each change of the disk shows what it does to that
  (`MarkTidy`, `LinkTidy`, `AddTidy`, `ClearTidy`, `FreeTidy`, `DropTidy`, `TextTidy`, `SizeTidy`), one for each stage that
  its next job leads to the next stage (`MakingStep` ... `ResizingStep`), one for each operation that it begins in
  the first of its stages (`CreateStart` ... `WriteStart`); `TidyStep` puts them together.
  `ApartOwner` gives `OneOwner`; `TakenOwned` gives `NothingLeaks`: the taken cluster of least
  rank that nobody owned would be linked or named by one that somebody owns; `Aside` gives `OthersUntouched`.

`DriversProofs`, of `Input` (for any size of the ring and of the line, and any set of letters):

- `InputTypes`: `InputSpec => []InputTypeOK`; in particular both indices stay in the ring.
- `RingIsQueue`: `InputSpec => ImplementsQueue`. The refinement mapping takes the ring to the sequence of
  the characters from `tail` to `head`. The invariant needed is `InputTypeOK` together with: between the
  read and the store to `kbd_tail` the ring is not empty and the character in hand is still the one
  at `tail` (`RingInv`). `PushAppends` and `AdvanceRemoves` are the two facts about modular
  arithmetic and sequences it rests on.
- `CommandIsLineHolds`: `InputSpec => []CommandIsLine`. Besides `RingInv` it needs that the keys taken hold no newline but
  the last one of a line about to run (`Unended`), and that the line is what they leave at every moment,
  `line = Edited(typed)`. `Edited` is a recursive function over the keys; that it exists and is unique is shown from the
  least key at which it would fail (`RunsExist`, `RunsAgree`), which gives `EditedAppend`: one more key edits the line once
  more.

`DriversProofs`, of `Ramdisk` (for any structs, names, texts and hash):

- `RamTypes`, `ChainsIntactHolds`, `OnlyMidwayHolds`, `OthersKeptHolds`: `RamSpec => []RamTypeOK`, `[]ChainsIntact`, `[]OnlyMidway` and
  `OthersKept`. `ChainsIntact` speaks of what walks meet and is not inductive as it stands. The invariant `RamInv` says that there
  are ranks that grow along `next`, with a bound, and a list for each struct (`Linked`), and that the list of a file is that of
  its name (`Sorted`). An allocated struct is the first of its list or the next of one other. From the
  struct of least rank that a walk misses follows that it misses none (`ChainIs`), from the one of greatest
  rank that the list ends (`EndIs`). An entry added at the end gets a new greatest rank; a removal
  changes no rank.

`DriversProofs`, of `Storage` (for any callers, sectors, values, slots and loop bounds):

- `TypeCorrect`: `Spec => []TypeOK`.
- `Answered`: `Spec => []AnsweredIsDone`. It is not inductive: it speaks of the end of a call only.
  `AloneInv` says what is true of a call that started alone at each of its places: until `issue` the
  list is empty; while polling its own command is the only one there (`Underway`), and if that has gone from the
  list the sector and the bounce buffer agree. It needs `HoldInv` (past the lock there is one caller,
  whose slot is not in the list until it issues), `GivenInv` (what a call holds), and `CommandInv` (the device
  works on listed commands only). That another caller cannot disturb a call rests on `OnlyHolder`.
- `SlotsStay`: `Spec => SlotIntact`, from `HoldInv`; `FirstOfIn` is the fact that the least free slot is
  a free one, by the well-foundedness of `<` on the naturals.
- `ProtectedStays`: `Spec => ProtectedIntact`: no call and no late command changes a sector that
  `check_write_safety` refuses, because no such command is ever listed (`CommandInv`).

Assumptions of the proofs are those on the constants (`TaskAssumption`, `ListAssumption`, `LocksAssumption`,
`HeapAssumption`, `SlabAssumption`, `PagingAssumption`, `Fat32Assumption`, `StrayAssumption`, `RamdiskAssumption`, `StorageAssumption`, `InputAssumption`), which TLC checks
in the runs. Every inductive invariant held in TLC, on the bounds of the component's run, before it was proved.

What stays with TLC: liveness (`ReadyRuns`, `KeysTaken`, `Progress`, `HolderReturns`), as fairness is out of the
prover's reach. Every other property that the passing runs check is a theorem.

## Disagreements between code and documents

Two are shown by runs of their own (`findings` in `PROJECT.json`): the timer can start a task that has
no stack (`task.c:111`); a directory that grows repeats old entries (`fat32.c:805`).

Others, found on the way and reachable in the models (the properties hold up to them, as said there):

- `kernel/process/task.c:237`: a returned kernel task at its parent's `next` is never passed over and its
  siblings starve, though `include/process/README.md:5` has the scheduler "constantly cycling through the tasks".
- `kernel/memory/heap.c:186` ("Safely execute merge cleanup via kfree wrapper"): `kheap_expand` unlocks between
  appending the new segment and freeing it. Another task's `kmalloc` may be given it, and the `kfree`
  frees that block under its owner; or another task's `kfree` absorbs it, its header keeping its
  magic, and its size is added a second time. TLC reaches both in `Heap`.
- `kernel/memory/heap.c:36`: the heap begins at the kernel's address of the frame at 16 MB, inside the 32
  MB that `init_vmm` maps one to one, and `pmm_alloc_page` does not know of it. Once frames from there
  are handed out, `create_slab`'s `PHYSICAL_TO_VIRTUAL` (slab16.c:44) is an address of the heap: slab and heap write over
  each other, and when the heap was the later of the two, `slab_free` gives back the heap's frame. `Paging_safety` reaches both;
  `FrameOwner` holds up to the second (`overgrown`).
- `kernel/memory/slab16.c:169`: `slab_free` compares the count with the number of bits, which in the kernel's four
  caches it never reaches, as one object less fits (`acpi_osl.c:41-44`): their empty slabs stay for ever, where
  `kernel/memory/README.md:73` says "and also free this page if its empty, and isn't the head". In `Slabs` with
  `cap < Slots` a list of several empty slabs is soon reached. Compared with what fits, slabs would go back, and
  `slab_alloc`'s wait for a page with a pointer into the list would be unsafe (`WaitSafe` fails).
- `arch/x86_64/core/syscalls.c:315`: `SYS_TASK_KILL` with an id nobody has dereferences NULL (`KillMissing`).
- `kernel/fs/types/elf.c:200`: a program's `stack_origin` is `USER_STACK_TOP`, which `kill_task` later gives to
  `kfree` (219). That address was never the heap's: `kfree` reads a header just below it, in whatever address
  space is loaded, and relies on not finding its magic number there.
- `kernel/drivers/storage/ahci.c:297`: "gauranteed to have atleast one free slot" does not hold after failed
  commands; the code copes with it, and tells nobody.
- `kernel/fs/ramdisk.c`: a walk for a missing name in a list that is not empty dereferences NULL (96), though the comment
  at 101-105 has it end there, "don't bother giving the ramfile back". `ramdisk_remove` takes the only file
  of a list for the one it was asked for, whatever its name (251), and never finds the first of several (240);
  `kernel/fs/README.md:60` says that it "Just frees the file". A write shorter than the file leaves the end of what was there
  (188), where `kernel/fs/README.md:47` has "we free it from memory to write to it". Listing never ends at a
  directory whose name ends in "/" (303).
- `arch/x86_64/drivers/terminal.c`: the count of lines that `echo_raw` makes beforehand (347-359) is not
  reset, so a long text without a newline is scrolled too far; the history of commands that
  `shell.c` keeps is filled by a function nobody calls.

## Further hazards

`PROJECT.json` lists the forty that matter most. These are the others found in reading the code:

- `kernel/memory/heap.c:161`: pmm_alloc_page may return NULL; the page is then mapped to frame 0 and used as heap (elf.c:146 does the same for a program). (frames are not exhausted in Heap: its bound is the address space; Slabs models the exhaustion of frames for its callers)
- `kernel/memory/slab16.c:36`: No frame is left for a new slab: slab_alloc returns NULL and must leave the list as it was.
- `kernel/memory/slab16.c:186`: slab_free unmaps the page from the direct map and frees the frame; the next user of the frame that is not a slab (a page table, a program's page) is cleared through an unmapped address. (ends the behaviour as the fault "direct" in Paging; no document promises otherwise)
- `arch/x86_64/memory/pmm.c:162`: A search for neighbouring frames must stop at the end of the bitmap. (its only caller runs at boot, with the end far away)
- `kernel/fs/types/elf.c:146`: pmm_alloc_page returns NULL and frame 0 is mapped into the program and cleared. (ends the behaviour as the fault "frame0" in Paging)
- `kernel/fs/types/elf.c:146`: Two programs are loaded at once while the heap grows: each frame must end up with one of them.
- `kernel/fs/fat32.c:365`: A directory's entry is on the disk before its cluster is cleared: until then, or after a crash, a listing shows what the cluster held before. (the window is excluded from OneOwner by Unwritten; no claim of the repository speaks of it)
- `kernel/fs/fat32.c:793`: A directory has grown and no cluster is left for the file.
- `kernel/fs/fat32.c:914`: A removal stops half way at a broken link; the entry stays with a chain part of which is free. (after a crash or a lost write only)
- `kernel/fs/fat32.c:908`: A directory is removed with files in it; their clusters are never freed. (modelled, and counted as disorder (harm = "orphans"): NothingLeaks holds up to it)
- `kernel/fs/fat32.c:339`: A path may lead through a file: its text is read as a directory, and a new entry is written into it. (modelled, and counted as disorder (harm = "nofolder"))
- `kernel/fs/fat32.c:699`: A write longer than the chain sets the size to more than was written; no cluster is ever added to a file. (modelled in WriteJobs; the size is not used by any property)
- `kernel/fs/fat32.c:217`: The last sector of the FAT has entries beyond the last cluster; none may be handed out.
- `kernel/fs/fat32.c:395`: write_path_filename stores through a pointer its callers never set. (the outcomes in which it faults are the crash of Fat32; memory overwritten elsewhere is not modelled)
- `kernel/fs/fat32.c:384`: mkdir clears only the first sector of a cluster; with several sectors per cluster the rest holds old data. (a cluster is one sector in Fat32, as on the disk "fx disk" makes)
- `kernel/fs/ramdisk.c:96`: get_ramfile reads the name of a NULL entry before it tests for the end of the list: a missing name in a list that is not empty is a NULL dereference. (ends the behaviour as the fault "end" in Ramdisk)
- `kernel/fs/ramdisk.c:303`: continue skips the step to the next entry: listing a directory that ends in '/' never ends. (modelled as the fault "loop" of Ramdisk)
- `arch/x86_64/drivers/keyboard.c:59`: Keys pressed while the ring is full are dropped without a sign, though include/drivers/README.md:9 says the ring 'ensures that no input is lost'. (KeyQueue drops them too; the ring has 1023 places, and a run that types as many is not worth a finding)
- `kernel/shell/shell.c:97`: The line is full and the next key is a newline or a backspace.
- `arch/x86_64/drivers/keyboard.c:144`: kbd[scancode + offset] is read for any scancode below 128, and with shift held at up to 127 + KBD_LEN, beyond the table's end. (the keys of Input are those with a place in the table)
- `kernel/process/task.c:227`: target, freed at 220, is compared with current_task again after interrupts are back on; a new task may have its address. (Tasks ends Kill at the first comparison; the second one costs a turn at most)
- `kernel/sysmods/sysmods.c:125`: A module whose init fails is given up, but what it registered before it failed keeps pointing into the buffer the caller frees. (system modules are not modelled)
- `kernel/sysmods/sysmods.c:112`: Two loads at once find the same free slot. (system modules are not modelled)
- `kernel/sysmods/sysmods.c:155`: A module is freed while the interrupt table may still hold its handler, if its exit function did not take it out. (system modules are not modelled)
- `arch/x86_64/drivers/mouse.c:126`: The mouse ring has no test for a full buffer: sixteen events make it look empty, and an event is overwritten while it is copied. (not modelled: no lock or protocol to check, the outcome is on the screen only)
- `arch/x86_64/drivers/terminal.c:551`: The mouse's task scrolls the screen while the shell prints; cursor and buffer are shared without a lock. (not modelled: no lock or protocol to check, the outcome is on the screen only)
- `kernel/drivers/acpi/acpi_osl.c:462`: A finite time limit never expires: the loop only leaves at once or never. (Locks has the two kinds of wait the code has)
- `kernel/drivers/acpi/acpi_osl.c:214`: AcpiOsWaitEventsComplete returns at once; deferred handlers may still run while ACPICA frees what they use. (what ACPICA frees is not modelled)
- `kernel/memory/slab32.c:159`: slab_free32 returns on a bad magic number with slab_lock still held; the three other sizes release it. (its only caller tests the magic number first)
- `kernel/drivers/acpi/acpi_osl.c:108`: The service routine goes into the interrupt table without the assembly stub the others have: it returns with ret instead of iret and sends no end of interrupt. (outside the models: the stack frame of an interrupt)
- `kernel/drivers/storage/ahci.c:702`: The interrupt clears the port's error bits before the polling loop tests them; the loop then runs into its time limit. (Storage has the interrupt at every step; such a call is an unanswered one)
- `kernel/drivers/storage/ahci.c:575`: PX_IE_TFES stays set until some interrupt clears it, so the call after a failed one gives up on the old error. (in Storage; such a call is an unanswered one)
- `kernel/drivers/storage/ata.c:208`: The wait after a write has no limit; a drive that stays busy stops the machine with bdl_lock held. (the ATA driver is not modelled; HolderReturns is about AHCI)
- `kernel/drivers/storage/ahci.c:507`: port is not volatile, so the build drops the self-assignment that should clear SERR; the comment above it says the controller might refuse commands otherwise. (SERR is not modelled)
- `kernel/drivers/storage/ahci.c:697`: An interrupt with no bit set in the global status returns without irq_send_eoi. (the interrupt controller is not modelled)

## Plan

Done: `Tasks`, `TaskLists`, `Locks`, `Heap`, `Slabs`, `Paging`, `Fat32`, `Ramdisk`, `Storage`, `Input` with their
abstract specifications and runs, and proofs about all of them. What of the system has state that several
actors share, or that a failure can leave half changed, is modelled.

Worth doing next, in this order:

1. `Fat32` after a crash: which of `OneOwner`'s consequences survive one crash and nothing else, as a
   property and then a theorem (`WalksEnd` is the only one stated now).
2. A theorem that the behaviours of `Heap` without a race need no proviso, with the race as an action of its own.
3. Paths through several directories in `Fat32`: only `Resolve` and the lemma about it (`ResolveIn`) would
   change.

## What is not modelled

- Start-up, descriptor tables, panic, battery / thermal / power, the C library, the shell's commands:
  straight-line code or output, with no state that several actors share.
- The VFS, which forwards to a function pointer of the mounted file system; of the RAM disk, writes at other offsets and the
  nodes a listing returns.
- System modules, devices, the interrupt table: `load_sysmod` is called twice, in sequence, at boot
  (`kernel.c:138`, `150`); `unload_sysmod` has no caller.
- Mouse and terminal: two tasks share a buffer and a cursor without any lock. There is no protocol to
  check, and what goes wrong is on the screen.
- The programmed-I/O ATA driver and `init_ahci`'s start-up of the ports; of the service layer's port,
  memory and PCI access and its timer, which keep no state.
- The x86_32 and arm32 ports: older or unfinished copies. Build scripts: not part of the running system.
- ACPICA (`kernel/drivers/acpi/*` and its headers, nearly all of the repository's lines): vendored. What
  it asks of the kernel is in `Locks` and `Slabs`.
- The bytes of names and files in FAT32, the parsing of ELF headers and the contents of page table
  entries besides the frame are abstracted away. One processor only, since the others are never
  started.
