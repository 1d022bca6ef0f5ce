-------------------------------- MODULE Input --------------------------------
(***************************************************************************)
(* From a key to a command: the keyboard interrupt                         *)
(* (arch/x86_64/drivers/keyboard.c) puts characters into a ring, and the   *)
(* shell's task (kernel/shell/shell.c, shell_thread in kernel/kernel.c)    *)
(* takes them out, edits its line and runs it.  The interrupt may come     *)
(* between any two steps of the shell and is not interrupted itself.       *)
(*                                                                         *)
(* A scancode is E0, the arrow key's, or one of a key with a character;    *)
(* releases and the shift keys have no effect here.  The arrow's code      *)
(* without E0 before it is that of a key of the number pad, and kbd[] has  *)
(* a backspace at its place.                                               *)
(***************************************************************************)
EXTENDS Integers, Sequences

CONSTANTS
  N,         \* KBD_BUFFER_LEN
  LineLen,   \* MAX_SHELL_BUFFER_LEN
  Letter,    \* the keys that go into the line
  MaxTyped   \* bound: keys between two commands

ASSUME InputAssumption ==
  /\ N \in Nat \ {0} /\ LineLen \in Nat \ {0} /\ MaxTyped \in Nat
  /\ {"newline", "backspace", "up", "e0", "none"} \cap Letter = {}

VARIABLES
  ext,               \* is_extended
  buf, head, tail,   \* kbd_buffer, kbd_head, kbd_tail
  pc,                \* where the shell is
  ch,                \* the character it has read
  line,              \* shell_buffer, shell_buffer_size characters of it
  typed,             \* the keys it has taken since the last command
  barred             \* a kernel task whose function returned is before the shell

ring == <<buf, head>>
inputVars == <<ext, ring, tail, pc, ch, line, typed, barred>>

Key   == Letter \cup {"newline", "backspace", "up"}
NoKey == "none"
Index == 0 .. N - 1

InputInit ==
  /\ ext = FALSE
  /\ buf = [i \in Index |-> NoKey] /\ head = 0 /\ tail = 0
  /\ pc = "test" /\ ch = NoKey
  /\ line = <<>> /\ typed = <<>>
  /\ barred = FALSE

SuccOver(i) == (i + 1) % (N + 1)    \* mutation: one place too many
Succ(i) == (i + 1) % N

(* push_to_kbd_buffer: one place stays empty, so that full and empty are   *)
(* told apart.                                                             *)
PushOver(k) ==    \* mutation: no test for a full ring
  buf' = [buf EXCEPT ![head] = k] /\ head' = Succ(head)
Push(k) ==
  IF Succ(head) # tail
  THEN buf' = [buf EXCEPT ![head] = k] /\ head' = Succ(head)
  ELSE UNCHANGED ring

(* An interrupt ends the hlt the shell is in.  One that comes on the way   *)
(* there is over when the shell halts, and does not end that hlt.          *)
WakeNot == UNCHANGED pc    \* mutation: halted with interrupts off
Wake == pc' = IF pc = "halt" THEN "test" ELSE pc

Waiting == IF head >= tail THEN head - tail ELSE head - tail + N

(* keyboard_handler. *)
KeyboardHandler(sc) ==
  /\ Len(typed) + Waiting < MaxTyped
  /\ Wake
  /\ \/ sc = "e0" /\ ext' = TRUE /\ UNCHANGED ring
     \/ sc # "e0" /\ ext /\ ext' = FALSE /\ IF sc = "up" THEN Push(sc) ELSE UNCHANGED ring
     \/ sc # "e0" /\ ~ext /\ Push(IF sc = "up" THEN "backspace" ELSE sc) /\ UNCHANGED ext
  /\ UNCHANGED <<tail, ch, line, typed, barred>>

(* Any other interrupt, the timer's for one. *)
Tick == (pc = "halt" \/ barred) /\ Wake /\ UNCHANGED <<ext, ring, tail, ch, line, typed, barred>>

(* A sibling of the shell's task, ACPICA's for one, returns from its       *)
(* function and is DEAD where schedule looks first: neither it nor what is *)
(* behind it has a turn again.  It ran, so the shell is not in its hlt.    *)
Bar ==
  /\ ~barred /\ pc # "halt"
  /\ barred' = TRUE
  /\ UNCHANGED <<ext, ring, tail, pc, ch, line, typed>>

(* shell_update: is there a character, ... *)
Test ==
  /\ pc = "test"
  /\ pc' = IF tail # head THEN "take" ELSE "leave"
  /\ UNCHANGED <<ext, ring, tail, ch, line, typed>>

(* ... read it, ... *)
Take ==
  /\ pc = "take"
  /\ ch' = buf[tail] /\ pc' = "advance"
  /\ UNCHANGED <<ext, ring, tail, line, typed>>

(* ... give its place back and deal with it: a newline ends the loop.      *)
Edit(l, k) ==
  CASE k = "newline"   -> l
    [] k = "backspace" -> SubSeq(l, 1, Len(l) - 1)
    [] OTHER           -> IF Len(l) < LineLen - 1 THEN Append(l, k) ELSE l

AfterKey(k) == IF k = "newline" THEN "run" ELSE "test"

Advance ==
  /\ pc = "advance"
  /\ tail' = Succ(tail)
  /\ line' = Edit(line, ch)
  /\ typed' = Append(typed, ch)
  /\ pc' = AfterKey(ch)
  /\ UNCHANGED <<ext, ring, ch>>

(* The line is run and cleared, and the loop left, even if more characters *)
(* wait.                                                                   *)
RunKept ==    \* mutation: shell_buffer_size is not reset
  pc = "run" /\ pc' = "leave" /\ typed' = <<>> /\ UNCHANGED <<ext, ring, tail, ch, line>>
Run ==
  /\ pc = "run" /\ pc' = "leave"
  /\ line' = <<>> /\ typed' = <<>>
  /\ UNCHANGED <<ext, ring, tail, ch>>

(* shell_thread, back from shell_update: the task halts. *)
Halt == pc = "leave" /\ pc' = "halt" /\ UNCHANGED <<ext, ring, tail, ch, line, typed>>

Shell == ~barred /\ (Test \/ Take \/ Advance \/ Run \/ Halt) /\ UNCHANGED barred

InputNext ==
  (\E sc \in Letter \cup {"newline", "backspace", "up", "e0"} : KeyboardHandler(sc)) \/ Tick \/ Bar \/ Shell

(* The shell's task gets its turns, unless it is barred, and the timer     *)
(* ticks.                                                                  *)
Fairness == WF_inputVars(Shell) /\ WF_inputVars(Tick)

InputSpec == InputInit /\ [][InputNext]_inputVars /\ Fairness

-----------------------------------------------------------------------------
InputTypeOK ==
  /\ ext \in BOOLEAN
  /\ buf \in [Index -> Key \cup {NoKey}] /\ head \in Index /\ tail \in Index
  /\ pc \in {"leave", "halt", "test", "take", "advance", "run"}
  /\ ch \in Key \cup {NoKey}
  /\ line \in Seq(Key)
  /\ typed \in Seq(Key)
  /\ barred \in BOOLEAN

(* The characters between tail and head, in order.                         *)
Spot(i)  == IF tail + i <= N THEN tail + i - 1 ELSE tail + i - 1 - N
Contents == [i \in 1 .. Waiting |-> buf[Spot(i)]]

(* The ring is a queue: no key is overwritten before the shell has it,     *)
(* overtaken, or seen twice, whenever the interrupt comes.                 *)
Queue == INSTANCE KeyQueue WITH Cap <- N - 1, q <- Contents, c <- ch
ImplementsQueue == Queue!Spec

(* The line that a line editor with room for LineLen - 1 characters has    *)
(* after these keys.                                                       *)
Edited(keys) ==
  LET after[k \in 0 .. Len(keys)] == IF k = 0 THEN <<>> ELSE Edit(after[k - 1], keys[k])
  IN after[Len(keys)]

(* What is run is what was typed since the last command up to the first    *)
(* newline, corrected and cut off at the length of the line: nothing of    *)
(* the command before and nothing typed ahead gets into it.                *)
CommandIsLine ==
  pc = "run" =>
    /\ Len(typed) > 0 /\ typed[Len(typed)] = "newline"
    /\ \A i \in 1 .. Len(typed) - 1 : typed[i] # "newline"
    /\ line = Edited(typed)

(* A key in the ring is taken, also if it came after the shell looked and  *)
(* found nothing and did not end the hlt that followed, or waits behind a  *)
(* newline; unless the shell is barred from its turns (task.c:237).        *)
KeysTaken == head # tail ~> pc = "advance" \/ barred
=============================================================================
