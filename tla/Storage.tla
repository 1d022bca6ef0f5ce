------------------------------ MODULE Storage ------------------------------
(***************************************************************************)
(* The block device layer (bdl.c) over the AHCI driver (ahci.c) and a      *)
(* device that may answer late, fail a command, or never answer.           *)
(*                                                                         *)
(* bdl_lock admits one caller, but a caller that gives up on its command   *)
(* leaves it in the command list: the device may still carry it out, with  *)
(* whatever the one bounce buffer holds by then.                           *)
(*                                                                         *)
(* disk, ci, table, busy, tfes and halted are those of the first SATA      *)
(* drive of active_drives.  If there are others, a call that finds the     *)
(* first one busy goes to one of them; of these is kept only that they use *)
(* the bounce buffer too, then and later.                                  *)
(***************************************************************************)
EXTENDS Naturals

CONSTANTS
  Caller,      \* the tasks that read and write sectors
  Lba, Data,   \* sectors, and what a sector can hold
  Written,     \* what the sectors hold at the start
  Protected,   \* sectors check_write_safety refuses
  Slots,       \* command slots of the port (32 in the code)
  MaxTries,    \* attempts of ahci_find_free_port (5)
  MaxPolls,    \* bound of the polling loop (MAX_TIMEOUT_DURATION)
  Others,      \* whether there are SATA drives behind the first
  Blank,       \* a buffer nothing has been read into
  None         \* no caller, no slot, no command

ASSUME StorageAssumption ==
  /\ Written \in [Lba -> Data] /\ Protected \subseteq Lba
  /\ Slots \in Nat \ {0} /\ MaxTries \in Nat \ {0} /\ MaxPolls \in Nat \ {0}
  /\ Others \in BOOLEAN
  /\ Blank \notin Data /\ None \notin Caller \cup Nat

VARIABLES
  disk,     \* disk[l]: what sector l holds
  bounce,   \* ahci_bounce
  ci,       \* port->ci: the slots issued and not completed
  table,    \* table[s]: the command in slot s
  busy,     \* the slot the device executes, with PX_TFD_BSY set, or None
  tfes,     \* PX_IE_TFES in port->is
  halted,   \* the port stopped at a failed command
  irq,      \* an interrupt of the port is pending
  abroad,   \* commands are outstanding on the other drives
  lock,     \* who holds bdl_lock
  off,      \* the caller that runs with interrupts off, or None
  call      \* call[c]: how far the call of c has come

vars == <<disk, bounce, ci, table, busy, tfes, halted, irq, abroad, lock, off, call>>
device == <<disk, busy, tfes, halted, irq>>

Slot    == 0 .. Slots - 1
Command == [w : BOOLEAN, lba : Lba]

(* A call: left counts attempts, then polls; answered says the polling     *)
(* loop saw the first drive complete the command; alone is history: no     *)
(* other command was outstanding, on any drive, when this one took its     *)
(* slot on the first.                                                      *)
Idle == [pc |-> "idle", w |-> FALSE, lba |-> None, buf |-> Blank, slot |-> None,
         left |-> 0, answered |-> FALSE, alone |-> FALSE]

Call == [pc : {"idle", "lock", "port", "slot", "fill", "issue", "poll", "away",
               "copy", "unlock"},
         w : BOOLEAN, lba : Lba \cup {None}, buf : Data \cup {Blank},
         slot : Slot \cup {None}, left : Nat, answered : BOOLEAN, alone : BOOLEAN]

Init ==
  /\ disk = Written
  /\ bounce \in Data
  /\ ci = {}
  /\ table = [s \in Slot |-> None]
  /\ busy = None
  /\ tfes = FALSE
  /\ halted = FALSE
  /\ irq = FALSE
  /\ abroad = FALSE
  /\ lock = None
  /\ off = None
  /\ call = [c \in Caller |-> Idle]

At(c, pc) == call[c].pc = pc
(* On to another place; a loop that ends leaves its count behind.          *)
Goto(c, pc) == call' = [call EXCEPT ![c].pc = pc, ![c].left = 0]

-----------------------------------------------------------------------------
(* bdl_read and bdl_write, up to the lock.  SYS_DIRSCAN reads with         *)
(* interrupts off (syscalls.c:49): no other caller runs until it is back.  *)
MayRun(c) == off \in {None, c}

bdl_read(c) ==
  /\ At(c, "idle") /\ MayRun(c)
  /\ off' \in {None, c}
  /\ \E l \in Lba : call' = [call EXCEPT ![c] = [Idle EXCEPT !.pc = "lock", !.lba = l]]
  /\ UNCHANGED <<device, bounce, ci, table, abroad, lock>>

bdl_write(c) ==
  /\ At(c, "idle") /\ MayRun(c)
  /\ \E l \in Lba, d \in Data :
       call' = [call EXCEPT ![c] =
                  [Idle EXCEPT !.pc = "lock", !.w = TRUE, !.lba = l, !.buf = d]]
  /\ UNCHANGED <<device, bounce, ci, table, abroad, lock, off>>

(* A caller with interrupts off that finds the lock taken spins for ever.  *)
Wedged == off # None /\ At(off, "lock") /\ lock # None
Spin == Wedged /\ UNCHANGED vars

spin_lock(c) ==
  /\ At(c, "lock")
  /\ lock = None
  /\ lock' = c
  /\ IF call[c].w /\ call[c].lba \in Protected
     THEN Goto(c, "unlock")
     ELSE call' = [call EXCEPT ![c].pc = "port", ![c].left = MaxTries]
  /\ UNCHANGED <<device, bounce, ci, table, abroad, off>>

spin_unlock(c) ==
  /\ At(c, "unlock")
  /\ lock' = None
  /\ off' = None
  /\ call' = [call EXCEPT ![c] = Idle]
  /\ UNCHANGED <<device, bounce, ci, table, abroad>>

-----------------------------------------------------------------------------
(* ahci_find_free_port: the first SATA drive, unless it is busy; after the *)
(* last attempt the call is over.                                          *)
ahci_find_free_port(c) ==
  /\ At(c, "port")
  /\ \/ busy = None /\ Goto(c, "slot")
     \/ busy # None /\ call[c].left > 1
        /\ call' = [call EXCEPT ![c].left = @ - 1]
     \/ busy # None /\ call[c].left = 1 /\ Goto(c, "unlock")
  /\ UNCHANGED <<device, bounce, ci, table, abroad, lock, off>>

FirstOf(S) == CHOOSE s \in S : \A u \in S : s <= u

(* Mutation of FreeSlots: port->sact alone is looked at, which stays 0.    *)
AllSlots == Slot

(* port->sact is never set: no queued commands.                            *)
FreeSlots == Slot \ ci

ahci_find_free_slot(c) ==
  /\ At(c, "slot")
  /\ IF FreeSlots = {}
     THEN Goto(c, "unlock")
     ELSE call' = [call EXCEPT ![c].pc = IF call[c].w THEN "fill" ELSE "issue",
                               ![c].slot = FirstOf(FreeSlots),
                               ![c].alone = (ci = {} /\ ~abroad)]
  /\ UNCHANGED <<device, bounce, ci, table, abroad, lock, off>>

(* The caller's data goes into the bounce buffer.                          *)
fill(c) ==
  /\ At(c, "fill")
  /\ bounce' = call[c].buf
  /\ Goto(c, "issue")
  /\ UNCHANGED <<device, ci, table, abroad, lock, off>>

(* Command header and table, then port->ci.                                *)
issue(c) ==
  /\ At(c, "issue")
  /\ table' = [table EXCEPT ![call[c].slot] = [w |-> call[c].w, lba |-> call[c].lba]]
  /\ ci' = ci \cup {call[c].slot}
  /\ call' = [call EXCEPT ![c].pc = "poll", ![c].left = MaxPolls]
  /\ UNCHANGED <<device, bounce, abroad, lock, off>>

(* Where a call goes on after its polling loop.                            *)
AfterLoop(c) == IF call[c].w THEN "unlock" ELSE "copy"

Answer(c)    == call' = [call EXCEPT ![c].pc = AfterLoop(c), ![c].left = 0, ![c].answered = TRUE]
(* Mutation of CountDown: the end of the count is not noticed.             *)
CountDownOn(c) == call' = [call EXCEPT ![c].left = @ - 1]

CountDown(c) == IF call[c].left > 1 THEN call' = [call EXCEPT ![c].left = @ - 1]
                                    ELSE Goto(c, AfterLoop(c))

(* Mutation of poll: an error ends the loop, not the call.                 *)
poll_break(c) ==
  /\ At(c, "poll")
  /\ IF call[c].slot \notin ci \/ tfes THEN Answer(c) ELSE CountDown(c)
  /\ UNCHANGED <<device, bounce, ci, table, abroad, lock, off>>

(* Mutation of poll: while (timeout), and nothing counts it down.          *)
poll_forever(c) ==
  /\ At(c, "poll")
  /\ \/ call[c].slot \notin ci /\ Answer(c)
     \/ call[c].slot \in ci /\ tfes /\ Goto(c, "unlock")
  /\ UNCHANGED <<device, bounce, ci, table, abroad, lock, off>>

(* One turn of the loop: completed, failed, or count down; when the count  *)
(* is used up the call goes on as if it had been answered.                 *)
poll(c) ==
  /\ At(c, "poll")
  /\ \/ call[c].slot \notin ci /\ Answer(c)
     \/ call[c].slot \in ci /\ tfes /\ Goto(c, "unlock")
     \/ call[c].slot \in ci /\ ~tfes /\ CountDown(c)
  /\ UNCHANGED <<device, bounce, ci, table, abroad, lock, off>>

copy(c) ==
  /\ At(c, "copy")
  /\ call' = [call EXCEPT ![c].buf = bounce, ![c].pc = "unlock"]
  /\ UNCHANGED <<device, bounce, ci, table, abroad, lock, off>>

(* ahci_find_free_port found another drive: a slot there, if one is free,  *)
(* the bounce buffer and port->ci, ...                                     *)
elsewhere(c) ==
  /\ At(c, "port") /\ busy # None /\ Others
  /\ \/ /\ bounce' = IF call[c].w THEN call[c].buf ELSE bounce
        /\ abroad' = TRUE
        /\ Goto(c, "away")
     \/ Goto(c, "unlock") /\ UNCHANGED <<bounce, abroad>>
  /\ UNCHANGED <<device, ci, table, lock, off>>

(* ... and the end of its polling loop: completed, failed or timed out.    *)
away(c) ==
  /\ At(c, "away")
  /\ Goto(c, "unlock") \/ Goto(c, AfterLoop(c))
  /\ UNCHANGED <<device, bounce, ci, table, abroad, lock, off>>

-----------------------------------------------------------------------------
(* The device takes an issued command, and is busy with it.                *)
DeviceStart ==
  /\ busy = None /\ ~halted
  /\ \E s \in ci : busy' = s
  /\ UNCHANGED <<disk, tfes, halted, irq, bounce, ci, table, abroad, lock, off, call>>

(* It moves the data between the sector and the bounce buffer, and clears  *)
(* the slot's bit.  What is left in the slot is not read again.            *)
DeviceDone ==
  /\ busy # None
  /\ LET cmd == table[busy] IN
       IF cmd.w THEN disk' = [disk EXCEPT ![cmd.lba] = bounce] /\ UNCHANGED bounce
                ELSE bounce' = disk[cmd.lba] /\ UNCHANGED disk
  /\ ci' = ci \ {busy}
  /\ table' = [table EXCEPT ![busy] = None]
  /\ busy' = None
  /\ irq' = TRUE
  /\ UNCHANGED <<tfes, halted, abroad, lock, off, call>>

(* Or it fails: the bit of the slot stays set and the port stops until     *)
(* PX_CMD_ST is cleared and set again, which the driver does only at       *)
(* start.  PX_IE_TFES is not among the bits of port->ie, so an interrupt   *)
(* comes with the error only if a status did.                              *)
DeviceFail ==
  /\ busy # None
  /\ tfes' = TRUE
  /\ halted' = TRUE
  /\ busy' = None
  /\ irq' \in {irq, TRUE}
  /\ UNCHANGED <<disk, bounce, ci, table, abroad, lock, off, call>>

(* Another drive completes a command: one that reads fills the buffer.     *)
OtherDone ==
  /\ abroad
  /\ bounce' \in Data
  /\ abroad' \in BOOLEAN
  /\ UNCHANGED <<device, ci, table, lock, off, call>>

(* The handler writes back what it reads of port->is, the error included,  *)
(* whether or not the polling loop has seen it.                            *)
ahci_interrupt_handler ==
  /\ irq /\ off = None
  /\ irq' = FALSE
  /\ tfes' = FALSE
  /\ UNCHANGED <<disk, busy, halted, bounce, ci, table, abroad, lock, off, call>>

-----------------------------------------------------------------------------
(* What a caller does once it has called.                                  *)
Step(c) ==
  /\ MayRun(c)
  /\ \/ spin_lock(c) \/ ahci_find_free_port(c) \/ ahci_find_free_slot(c)
     \/ fill(c) \/ issue(c) \/ poll(c) \/ elsewhere(c) \/ away(c) \/ copy(c) \/ spin_unlock(c)

Device == DeviceStart \/ DeviceDone \/ DeviceFail \/ OtherDone

Next ==
  \/ \E c \in Caller : bdl_read(c) \/ bdl_write(c) \/ Step(c)
  \/ Spin \/ Device \/ ahci_interrupt_handler

Spec == Init /\ [][Next]_vars

(* The scheduler gives the holder of the lock the processor again and      *)
(* again while interrupts are on, and leaves it to a holder that turned    *)
(* them off; nothing is asked of the device, of the interrupt or of those  *)
(* who wait.                                                               *)
HolderStep == \E c \in Caller : lock = c /\ Step(c)
FairSpec == Spec /\ WF_vars(HolderStep)

-----------------------------------------------------------------------------
TypeOK ==
  /\ disk \in [Lba -> Data]
  /\ bounce \in Data
  /\ ci \in SUBSET Slot
  /\ table \in [Slot -> Command \cup {None}]
  /\ busy \in Slot \cup {None}
  /\ tfes \in BOOLEAN /\ halted \in BOOLEAN /\ irq \in BOOLEAN
  /\ abroad \in BOOLEAN
  /\ lock \in Caller \cup {None}
  /\ off \in Caller \cup {None}
  /\ call \in [Caller -> Call]

(* A call whose command the device completed, and which started when no    *)
(* abandoned command was outstanding, did what it was asked: its buffer    *)
(* and the sector are the same when it returns, however many calls were    *)
(* abandoned before.                                                       *)
AnsweredIsDone ==
  \A c \in Caller :
    At(c, "unlock") /\ call[c].answered /\ call[c].alone
      => call[c].buf = disk[call[c].lba]

(* No command is put into a slot the device may still fetch: an abandoned  *)
(* command stays what it was, so it can only touch its own sector.         *)
SlotIntact == [][\A s \in ci \cap ci' : table'[s] = table[s]]_vars

(* Neither a wrong call nor a late command changes a protected sector.     *)
ProtectedIntact == [][\A l \in Protected : disk'[l] = disk[l]]_vars

(* Whatever the drives do, and also if it runs with interrupts off,        *)
(* whoever holds bdl_lock gives it back; unless it is held when a program  *)
(* calls SYS_DIRSCAN, which waits for it with interrupts off (bdl.c:79).   *)
HolderReturns == lock # None ~> lock = None \/ Wedged
=============================================================================
