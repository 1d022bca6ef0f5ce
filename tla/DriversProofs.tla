--------------------------- MODULE DriversProofs ---------------------------
(***************************************************************************)
(* Three parts that share no state.  First, the keyboard ring is a queue,  *)
(* for any size of the ring and any keys.  Second, the block layer over a  *)
(* device that may answer late, fail or never answer, for any callers,     *)
(* sectors, slots and bounds of the loops.  Third, the lists of the RAM    *)
(* disk, for any structs, names and hash.                                  *)
(***************************************************************************)
EXTENDS Input, Storage, Ramdisk, WellFoundedInduction, TLAPS

LEMMA NPositive == N \in Nat \ {0}
  BY InputAssumption DEF InputAssumption

USE NPositive

(* What the shell knows between its steps, and that only keys wait.        *)
RingInv ==
  /\ pc \in {"take", "advance"} => head # tail
  /\ pc = "advance" => ch = buf[tail]
  /\ \A i \in 1 .. Waiting : buf[Spot(i)] \in Key

InputInv == InputTypeOK /\ RingInv

(* The keys since the last command: a newline is the last of them.         *)
Unended ==
  IF pc = "run"
  THEN /\ Len(typed) > 0 /\ typed[Len(typed)] = "newline"
       /\ \A i \in 1 .. Len(typed) - 1 : typed[i] # "newline"
  ELSE \A i \in 1 .. Len(typed) : typed[i] # "newline"

LEMMA SuccIs ==
  ASSUME NEW i \in Index
  PROVE  Succ(i) = (IF i = N - 1 THEN 0 ELSE i + 1) /\ Succ(i) \in Index
  <1>1. CASE i = N - 1
    BY <1>1 DEF Index, Succ
  <1>2. CASE i # N - 1
    BY <1>2 DEF Index, Succ
  <1> QED BY <1>1, <1>2

LEMMA AtIs ==
  ASSUME InputTypeOK
  PROVE  /\ Waiting \in 0 .. N - 1
         /\ \A i \in 1 .. Waiting : Spot(i) \in Index /\ Spot(i) # head
         /\ Waiting = 0 <=> head = tail
         /\ head # tail => Spot(1) = tail
  BY DEF InputTypeOK, Index, Waiting, Spot

LEMMA InputInitInv == InputInit => InputInv
  <1> SUFFICES ASSUME InputInit PROVE InputInv
    OBVIOUS
  <1>1. InputTypeOK
    BY DEF InputInit, InputTypeOK, Index, Key, NoKey
  <1>2. Waiting = 0
    BY DEF InputInit, Waiting
  <1> QED BY <1>1, <1>2 DEF InputInit, InputInv, RingInv

(* A push appends to what waits, or leaves the ring as it is.              *)
LEMMA PushAppends ==
  ASSUME InputInv, NEW k \in Key, Push(k), UNCHANGED tail
  PROVE  /\ buf' \in [Index -> Key \cup {NoKey}] /\ head' \in Index
         /\ \A i \in 1 .. Waiting' : buf'[Spot(i)'] \in Key
         /\ head # tail => head' # tail /\ buf'[tail] = buf[tail]
         /\ \/ UNCHANGED Contents
            \/ Waiting < N - 1 /\ Contents' = Append(Contents, k)
  <1>0. InputTypeOK /\ RingInv
    BY DEF InputInv
  <1>1. CASE UNCHANGED ring
    <2>1. UNCHANGED <<buf, head>>
      BY <1>1 DEF ring
    <2>2. Waiting' = Waiting /\ \A i \in 1 .. Waiting : Spot(i)' = Spot(i)
      BY <2>1 DEF Waiting, Spot
    <2> QED BY <1>0, <2>1, <2>2 DEF InputTypeOK, RingInv, Contents
  <1>2. CASE Succ(head) # tail
    <2>1. buf' = [buf EXCEPT ![head] = k] /\ head' = Succ(head)
      BY <1>2 DEF Push
    <2>2. /\ head \in Index /\ tail \in Index /\ head' \in Index
          /\ head' = IF head = N - 1 THEN 0 ELSE head + 1
      BY <1>0, <2>1, SuccIs DEF InputTypeOK
    <2>3. Waiting' = Waiting + 1 /\ Waiting < N - 1 /\ Waiting \in Nat
      BY <1>2, <2>1, <2>2 DEF Index, Waiting
    <2>4. buf' \in [Index -> Key \cup {NoKey}] /\ buf'[head] = k
      BY <1>0, <2>1, <2>2 DEF InputTypeOK
    <2>5. \A i \in 1 .. Waiting : Spot(i)' = Spot(i) /\ buf'[Spot(i)'] = buf[Spot(i)]
      BY <1>0, <2>1, AtIs DEF InputTypeOK, Spot
    <2>6. \A i \in Nat : i = Waiting + 1 => Spot(i)' = head
      BY <2>2 DEF Index, Spot, Waiting
    <2>7. \A i \in 1 .. Waiting' : buf'[Spot(i)'] \in Key
      <3> SUFFICES ASSUME NEW i \in 1 .. Waiting' PROVE buf'[Spot(i)'] \in Key
        OBVIOUS
      <3>1. CASE i \in 1 .. Waiting
        BY <1>0, <2>5, <3>1 DEF RingInv
      <3>2. CASE i = Waiting + 1
        BY <2>3, <2>4, <2>6, <3>2
      <3> QED BY <2>3, <3>1, <3>2
    <2>8. Contents' = Append(Contents, k)
      <3>1. Contents' = [i \in 1 .. Waiting + 1 |-> IF i = Waiting + 1 THEN k ELSE buf[Spot(i)]]
        <4>1. \A i \in 1 .. Waiting + 1 : buf'[Spot(i)'] = IF i = Waiting + 1 THEN k ELSE buf[Spot(i)]
          BY <2>3, <2>4, <2>5, <2>6
        <4> QED BY <2>3, <4>1 DEF Contents
      <3> QED BY <3>1, <2>3 DEF Contents
    <2>9. head # tail => head' # tail /\ buf'[tail] = buf[tail]
      BY <1>0, <1>2, <2>1, <2>2 DEF InputTypeOK
    <2> QED BY <2>2, <2>3, <2>4, <2>7, <2>8, <2>9
  <1> QED BY <1>1, <1>2 DEF Push

(* Giving the first place back removes the first of what waits.            *)
LEMMA AdvanceRemoves ==
  ASSUME InputInv, head # tail, tail' = Succ(tail), UNCHANGED ring
  PROVE  /\ tail' \in Index
         /\ Contents # <<>> /\ Head(Contents) = buf[tail] /\ Contents' = Tail(Contents)
         /\ \A i \in 1 .. Waiting' : buf'[Spot(i)'] \in Key
         /\ buf[tail] \in Key
  <1>0. InputTypeOK /\ RingInv
    BY DEF InputInv
  <1>1. /\ head' = head /\ buf' = buf /\ head \in Index /\ tail \in Index /\ tail' \in Index
        /\ tail' = IF tail = N - 1 THEN 0 ELSE tail + 1
    BY <1>0, SuccIs DEF ring, InputTypeOK
  <1>2. Waiting \in Nat \ {0} /\ Waiting' = Waiting - 1 /\ Spot(1) = tail
    BY <1>1 DEF Waiting, Spot, Index
  <1>3. \A i \in 1 .. Waiting - 1 : Spot(i)' = Spot(i + 1)
    BY <1>1 DEF Waiting, Spot, Index
  <1>4. Len(Contents) = Waiting /\ Contents # <<>> /\ Head(Contents) = buf[tail]
    BY <1>2 DEF Contents
  <1>5. Contents' = Tail(Contents)
    <2>1. Contents' = [i \in 1 .. Waiting - 1 |-> buf[Spot(i + 1)]]
      BY <1>1, <1>2, <1>3 DEF Contents
    <2> QED BY <2>1, <1>2 DEF Contents
  <1>6. \A i \in 1 .. Waiting' : buf'[Spot(i)'] \in Key
    <2> SUFFICES ASSUME NEW i \in 1 .. Waiting' PROVE buf'[Spot(i)'] \in Key
      OBVIOUS
    <2>1. i \in 1 .. Waiting - 1 /\ i + 1 \in 1 .. Waiting
      BY <1>2
    <2> QED BY <2>1, <1>0, <1>1, <1>3 DEF RingInv
  <1>7. buf[tail] \in Key
    BY <1>0, <1>2 DEF RingInv
  <1> QED BY <1>1, <1>4, <1>5, <1>6, <1>7

LEMMA EditType ==
  ASSUME NEW l \in Seq(Key), NEW k \in Key
  PROVE  Edit(l, k) \in Seq(Key)
  BY InputAssumption DEF Edit, InputAssumption

(* Each step keeps the invariant and is a step of the queue or none.       *)
LEMMA InputStepInv ==
  ASSUME InputInv, [InputNext]_inputVars
  PROVE  InputInv' /\ [Queue!Next]_<<Contents, ch>>
  <1>0. InputTypeOK /\ RingInv
    BY DEF InputInv
  <1>1. ASSUME NEW sc \in Letter \cup {"newline", "backspace", "up", "e0"}, KeyboardHandler(sc)
        PROVE  InputInv' /\ [Queue!Next]_<<Contents, ch>>
    <2>1. ext' \in BOOLEAN /\ UNCHANGED <<tail, ch, line, typed, barred>>
      BY <1>0, <1>1 DEF KeyboardHandler, InputTypeOK
    <2>2. /\ pc' \in {"leave", "halt", "test", "take", "advance", "run"}
          /\ pc' \in {"take", "advance"} => pc' = pc
      BY <1>0, <1>1 DEF KeyboardHandler, Wake, InputTypeOK
    <2>3. UNCHANGED ring \/ \E k \in Key : Push(k)
      BY <1>1 DEF KeyboardHandler, Key
    <2>4. CASE UNCHANGED ring
      <3>1. UNCHANGED <<buf, head, tail, ch>>
        BY <2>1, <2>4 DEF ring
      <3>2. UNCHANGED Contents /\ Waiting' = Waiting /\ \A i \in 1 .. Waiting : Spot(i)' = Spot(i)
        BY <3>1 DEF Contents, Waiting, Spot
      <3> QED BY <1>0, <2>1, <2>2, <3>1, <3>2 DEF InputInv, InputTypeOK, RingInv
    <2>5. CASE \E k \in Key : Push(k)
      <3>1. PICK k \in Key : Push(k)
        BY <2>5
      <3>2. /\ buf' \in [Index -> Key \cup {NoKey}] /\ head' \in Index
            /\ \A i \in 1 .. Waiting' : buf'[Spot(i)'] \in Key
            /\ head # tail => head' # tail /\ buf'[tail] = buf[tail]
            /\ \/ UNCHANGED Contents
               \/ Waiting < N - 1 /\ Contents' = Append(Contents, k)
        BY <2>1, <3>1, PushAppends
      <3>3. InputInv'
        BY <1>0, <2>1, <2>2, <3>2 DEF InputInv, InputTypeOK, RingInv
      <3>4. Len(Contents) = Waiting
        BY <1>0, AtIs DEF Contents
      <3>5. [Queue!Next]_<<Contents, ch>>
        BY <2>1, <3>2, <3>4 DEF Queue!Next, Queue!Put
      <3> QED BY <3>3, <3>5
    <2> QED BY <2>3, <2>4, <2>5
  <1>2. ASSUME UNCHANGED <<ring, tail>>
        PROVE  /\ UNCHANGED <<buf, head, tail, Contents>>
               /\ \A i \in 1 .. Waiting' : buf'[Spot(i)'] \in Key
    <2>1. UNCHANGED <<buf, head, tail>>
      BY <1>2 DEF ring
    <2>2. Waiting' = Waiting /\ \A i \in 1 .. Waiting : Spot(i)' = Spot(i)
      BY <2>1 DEF Waiting, Spot
    <2> QED BY <1>0, <2>1, <2>2 DEF Contents, RingInv
  <1>3. CASE Tick
    BY <1>0, <1>2, <1>3 DEF Tick, Wake, InputInv, InputTypeOK, RingInv
  <1>9. ASSUME Shell PROVE UNCHANGED barred
    BY <1>9 DEF Shell
  <1>4. CASE UNCHANGED barred /\ Test
    BY <1>0, <1>2, <1>4 DEF Test, InputInv, InputTypeOK, RingInv
  <1>10. CASE UNCHANGED barred /\ Halt
    BY <1>0, <1>2, <1>10 DEF Halt, InputInv, InputTypeOK, RingInv
  <1>11. CASE Bar
    BY <1>0, <1>2, <1>11 DEF Bar, InputInv, InputTypeOK, RingInv
  <1>5. CASE UNCHANGED barred /\ Take
    <2>1. UNCHANGED <<ring, tail, ext, line, typed, barred>> /\ pc = "take" /\ pc' = "advance" /\ ch' = buf[tail]
      BY <1>5 DEF Take
    <2>2. head # tail
      BY <1>0, <2>1 DEF RingInv
    <2>3. Waiting \in Nat \ {0} /\ Spot(1) = tail
      BY <1>0, <2>2, AtIs
    <2>4. Contents # <<>> /\ Head(Contents) = buf[tail]
      BY <2>3 DEF Contents
    <2>5. InputInv'
      BY <1>0, <1>2, <2>1, <2>2 DEF InputInv, InputTypeOK, RingInv
    <2>6. Queue!Peek
      BY <1>2, <2>1, <2>4 DEF Queue!Peek
    <2> QED BY <2>5, <2>6 DEF Queue!Next
  <1>6. CASE UNCHANGED barred /\ Advance
    <2>1. /\ pc = "advance" /\ tail' = Succ(tail) /\ line' = Edit(line, ch) /\ typed' = Append(typed, ch)
          /\ pc' = AfterKey(ch) /\ UNCHANGED <<ext, ring, ch, barred>>
      BY <1>6 DEF Advance
    <2>2. head # tail /\ ch = buf[tail]
      BY <1>0, <2>1 DEF RingInv
    <2>3. /\ tail' \in Index /\ ch \in Key
          /\ Contents # <<>> /\ Head(Contents) = ch /\ Contents' = Tail(Contents)
          /\ \A i \in 1 .. Waiting' : buf'[Spot(i)'] \in Key
      BY <2>1, <2>2, AdvanceRemoves
    <2>4. line' \in Seq(Key) /\ typed' \in Seq(Key)
      BY <1>0, <2>1, <2>3, EditType DEF InputTypeOK
    <2>5. pc' \in {"run", "test"} /\ UNCHANGED <<ext, buf, head, ch, barred>>
      BY <2>1 DEF AfterKey, ring
    <2>6. InputInv'
      BY <1>0, <2>3, <2>4, <2>5 DEF InputInv, InputTypeOK, RingInv
    <2>7. Queue!Drop
      BY <2>3, <2>5 DEF Queue!Drop
    <2> QED BY <2>6, <2>7 DEF Queue!Next
  <1>7. CASE UNCHANGED barred /\ Run
    <2>1. <<>> \in Seq(Key)
      OBVIOUS
    <2> QED BY <1>0, <1>2, <1>7, <2>1 DEF Run, InputInv, InputTypeOK, RingInv
  <1>8. CASE UNCHANGED inputVars
    BY <1>0, <1>2, <1>8 DEF inputVars, InputInv, InputTypeOK, RingInv
  <1> QED BY <1>9, <1>1, <1>3, <1>4, <1>10, <1>11, <1>5, <1>6, <1>7, <1>8 DEF InputNext, Shell

(* The types of the ring, the line and the shell's position, for every     *)
(* size of the ring and of the line and every set of keys.                 *)
THEOREM InputTypes == InputSpec => []InputTypeOK
  <1>1. InputInit => InputInv
    BY InputInitInv
  <1>2. InputInv /\ [InputNext]_inputVars => InputInv'
    BY InputStepInv
  <1>3. InputInv => InputTypeOK
    BY DEF InputInv
  <1> QED BY <1>1, <1>2, <1>3, PTL DEF InputSpec

(* After each key the line is the one before, edited.                      *)
Runs(f, s, n) == f = [k \in 0 .. n |-> IF k = 0 THEN <<>> ELSE Edit(f[k - 1], s[k])]

(* A set of naturals that is not empty has a least member.                 *)
LEMMA LeastOf ==
  ASSUME NEW S \in SUBSET Nat, S # {}
  PROVE  \E m \in S : \A n \in S : m <= n
  <1> DEFINE below == {ss \in Nat \X Nat : ss[1] < ss[2]}
  <1>1. IsWellFoundedOn(below, Nat)
    BY NatLessThanWellFounded DEF OpToRel
  <1>2. PICK m \in S : \A n \in S : <<n, m>> \notin below
    <2> HIDE DEF below
    <2> QED BY <1>1, WFMin
  <1>3. ASSUME NEW n \in S PROVE m <= n
    <2>1. n \in Nat /\ m \in Nat /\ <<n, m>> \notin below
      BY <1>2
    <2>2. n < m => <<n, m>> \in below
      BY <2>1
    <2> HIDE DEF below
    <2> QED BY <2>1, <2>2
  <1> QED BY <1>3

(* The same keys give the same lines, ...                                  *)
LEMMA RunsAgree ==
  ASSUME NEW s, NEW t, NEW n \in Nat, NEW m \in Nat, n <= m, NEW f, NEW g, Runs(f, s, n), Runs(g, t, m),
         \A k \in 1 .. n : s[k] = t[k]
  PROVE  f[n] = g[n]
  <1> DEFINE Bad == {k \in 0 .. n : f[k] # g[k]}
  <1>1. SUFFICES ASSUME Bad # {} PROVE FALSE
    OBVIOUS
  <1>2. PICK k \in Bad : \A j \in Bad : k <= j
    <2>1. Bad \in SUBSET Nat
      OBVIOUS
    <2> HIDE DEF Bad
    <2> QED BY <1>1, <2>1, LeastOf
  <1>3. f[k] = (IF k = 0 THEN <<>> ELSE Edit(f[k - 1], s[k])) /\ g[k] = (IF k = 0 THEN <<>> ELSE Edit(g[k - 1], t[k]))
    BY DEF Runs
  <1>4. CASE k = 0
    BY <1>3, <1>4
  <1>5. CASE k # 0
    <2>1. k - 1 \in 0 .. n /\ k - 1 < k /\ k \in 1 .. n
      BY <1>5
    <2>2. f[k - 1] = g[k - 1]
      BY <1>2, <2>1
    <2> QED BY <1>3, <1>5, <2>1, <2>2
  <1> QED BY <1>4, <1>5

(* ... there are such lines, ...                                           *)
LEMMA RunsExist ==
  ASSUME NEW s, NEW n \in Nat
  PROVE  \E f : Runs(f, s, n)
  <1> DEFINE Bad == {k \in Nat : ~ \E f : Runs(f, s, k)}
  <1>1. SUFFICES ASSUME Bad # {} PROVE FALSE
    OBVIOUS
  <1>2. PICK k \in Bad : \A j \in Bad : k <= j
    <2>1. Bad \in SUBSET Nat
      OBVIOUS
    <2> HIDE DEF Bad
    <2> QED BY <1>1, <2>1, LeastOf
  <1>3. CASE k = 0
    <2>1. Runs([i \in 0 .. 0 |-> <<>>], s, 0)
      BY DEF Runs
    <2> QED BY <1>2, <1>3, <2>1
  <1>4. CASE k # 0
    <2>1. k - 1 \in Nat /\ k - 1 < k
      BY <1>2, <1>4
    <2>2. PICK f : Runs(f, s, k - 1)
      BY <1>2, <2>1
    <2> DEFINE g == [i \in 0 .. k |-> IF i = k THEN Edit(f[k - 1], s[k]) ELSE f[i]]
    <2>3. ASSUME NEW i \in 0 .. k PROVE g[i] = (IF i = 0 THEN <<>> ELSE Edit(g[i - 1], s[i]))
      <3>1. CASE i = k
        BY <1>4, <2>1, <3>1
      <3>2. CASE i # k
        <4>1. i \in 0 .. k - 1 /\ g[i] = f[i]
          BY <2>1, <3>2
        <4>2. f[i] = IF i = 0 THEN <<>> ELSE Edit(f[i - 1], s[i])
          BY <2>2, <4>1 DEF Runs
        <4>3. i # 0 => i - 1 \in 0 .. k /\ i - 1 # k
          BY <2>1, <4>1
        <4> QED BY <4>1, <4>2, <4>3
      <3> QED BY <3>1, <3>2
    <2>4. Runs(g, s, k)
      BY <2>3 DEF Runs
    <2> QED BY <1>2, <2>4
  <1> QED BY <1>3, <1>4

(* ... and Edited is the last of them: one more key edits it once more.    *)
LEMMA EditedIs ==
  ASSUME NEW s \in Seq(Key)
  PROVE  \E f : Runs(f, s, Len(s)) /\ Edited(s) = f[Len(s)]
  <1> DEFINE f == CHOOSE h : Runs(h, s, Len(s))
  <1>1. Runs(f, s, Len(s))
    BY RunsExist
  <1>2. Edited(s) = f[Len(s)]
    BY DEF Edited, Runs
  <1> QED BY <1>1, <1>2

LEMMA EditedAppend ==
  ASSUME NEW s \in Seq(Key), NEW k \in Key
  PROVE  Edited(Append(s, k)) = Edit(Edited(s), k)
  <1> DEFINE t == Append(s, k)
             n == Len(s)
  <1>1. n \in Nat /\ t \in Seq(Key) /\ Len(t) = n + 1 /\ t[n + 1] = k /\ \A i \in 1 .. n : s[i] = t[i]
    OBVIOUS
  <1>2. PICK f : Runs(f, s, n) /\ Edited(s) = f[n]
    BY EditedIs
  <1>3. PICK g : Runs(g, t, n + 1) /\ Edited(t) = g[n + 1]
    BY <1>1, EditedIs
  <1> HIDE DEF t, n
  <1>4. g[n] = f[n]
    BY <1>1, <1>2, <1>3, RunsAgree
  <1>5. g[n + 1] = Edit(g[n], t[n + 1])
    BY <1>1, <1>3 DEF Runs
  <1> QED BY <1>1, <1>2, <1>3, <1>4, <1>5 DEF t

LEMMA EditedNothing == Edited(<<>>) = <<>>
  <1>1. <<>> \in Seq(Key) /\ Len(<<>>) = 0
    OBVIOUS
  <1>2. PICK f : Runs(f, <<>>, 0) /\ Edited(<<>>) = f[0]
    BY <1>1, EditedIs
  <1> QED BY <1>2 DEF Runs

(* What the shell runs is the line that editing the keys typed since the   *)
(* command before, up to and with the first newline, leaves: CommandIsLine *)
(* for every size of the line.  It is so after every key.                  *)
THEOREM CommandIsLineHolds == InputSpec => []CommandIsLine
  <1> DEFINE Inv == InputInv /\ Unended /\ line = Edited(typed)
  <1>1. InputInit => Inv
    BY InputInitInv, EditedNothing DEF InputInit, Unended
  <1>2. Inv /\ [InputNext]_inputVars => Inv'
    <2> SUFFICES ASSUME InputInv, Unended, line = Edited(typed), [InputNext]_inputVars
                 PROVE  Unended' /\ (line = Edited(typed))'
      BY InputStepInv
    <2>1. ASSUME Advance PROVE Unended' /\ (line = Edited(typed))'
      <3>1. typed \in Seq(Key) /\ typed' = Append(typed, ch)
            /\ pc = "advance" /\ pc' = AfterKey(ch) /\ line' = Edit(line, ch)
        BY <2>1 DEF Advance, InputInv, InputTypeOK
      <3>2. /\ Len(typed') = Len(typed) + 1 /\ typed'[Len(typed) + 1] = ch
            /\ \A i \in 1 .. Len(typed) : typed'[i] = typed[i] /\ typed[i] # "newline"
            /\ Len(typed) \in Nat
        BY <3>1 DEF Unended
      <3>3. Unended'
        BY <3>1, <3>2 DEF Unended, AfterKey
      <3>4. ch \in Key
        BY <3>1, AtIs DEF InputInv, RingInv
      <3>5. Edited(Append(typed, ch)) = Edit(Edited(typed), ch)
        BY <3>1, <3>4, EditedAppend
      <3> QED BY <3>1, <3>3, <3>5
    <2>2. ASSUME Run PROVE Unended' /\ (line = Edited(typed))'
      BY <2>2, EditedNothing DEF Run, Unended
    <2>3. ASSUME UNCHANGED <<typed, line>>, pc = "run" <=> pc' = "run"
          PROVE  Unended' /\ (line = Edited(typed))'
      BY <2>3 DEF Unended
    <2> QED BY <2>1, <2>2, <2>3
      DEF InputNext, Shell, KeyboardHandler, Tick, Bar, Wake, Test, Take, Halt, inputVars
  <1>3. Inv => CommandIsLine
    BY DEF Unended, CommandIsLine
  <1> QED BY <1>1, <1>2, <1>3, PTL DEF InputSpec

(* The ring implements the queue: ImplementsQueue for every N.             *)
THEOREM RingIsQueue == InputSpec => ImplementsQueue
  <1>1. InputInit => InputInv /\ Queue!Init
    <2>1. ASSUME InputInit PROVE Queue!Init
      <3>1. Waiting = 0 /\ ch = NoKey
        BY <2>1 DEF InputInit, Waiting
      <3> QED BY <3>1 DEF Queue!Init, Contents
    <2> QED BY <2>1, InputInitInv
  <1>2. InputInv /\ [InputNext]_inputVars => InputInv' /\ [Queue!Next]_<<Contents, ch>>
    BY InputStepInv
  <1> QED BY <1>1, <1>2, PTL DEF InputSpec, ImplementsQueue, Queue!Spec

HIDE NPositive

-----------------------------------------------------------------------------
USE StorageAssumption DEF StorageAssumption

Inside == {"port", "slot", "fill", "issue", "poll", "away", "copy", "unlock"}

(* Commands in the list can be carried out, and harm no protected sector.  *)
CommandInv ==
  /\ busy # None => busy \in ci
  /\ \A s \in ci : table[s] \in Command /\ (table[s].w => table[s].lba \notin Protected)

(* What a call has been given, and that only the loop answers it.          *)
GivenInv ==
  \A c \in Caller :
    /\ call[c].pc # "idle" => call[c].lba \in Lba /\ (call[c].w => call[c].buf \in Data)
    /\ call[c].answered => call[c].pc \in {"copy", "unlock"}
    /\ call[c].pc = "fill" => call[c].w
    /\ call[c].pc = "copy" => ~call[c].w
    /\ call[c].pc \in {"lock", "port", "slot", "away"} => ~call[c].alone

(* Past the lock there is one caller, with a slot of its own.              *)
HoldInv ==
  \A c \in Caller :
    call[c].pc \in Inside =>
      /\ lock = c
      /\ call[c].pc # "unlock" /\ call[c].w => call[c].lba \notin Protected
      /\ call[c].pc \in {"fill", "issue", "poll"} => call[c].slot \in Slot
      /\ call[c].pc \in {"fill", "issue"} => call[c].slot \notin ci

(* Its command, when there is no other, on its way through the device.     *)
Underway(c) ==
  /\ ci \subseteq {call[c].slot}
  /\ call[c].slot \in ci =>
       /\ table[call[c].slot] = [w |-> call[c].w, lba |-> call[c].lba]
       /\ call[c].w => bounce = call[c].buf
  /\ call[c].slot \notin ci => disk[call[c].lba] = IF call[c].w THEN call[c].buf ELSE bounce

AloneInv ==
  \A c \in Caller :
    call[c].pc \in Inside /\ call[c].alone =>
      /\ ~abroad
      /\ call[c].pc \in {"fill", "issue"} => ci = {}
      /\ call[c].pc = "issue" /\ call[c].w => bounce = call[c].buf
      /\ call[c].pc = "poll" => Underway(c)
      /\ call[c].pc = "copy" /\ call[c].answered => ci = {} /\ bounce = disk[call[c].lba]
      /\ call[c].pc = "unlock" /\ call[c].answered => ci = {} /\ call[c].buf = disk[call[c].lba]

IInv == TypeOK /\ CommandInv /\ GivenInv /\ HoldInv /\ AloneInv

(* FirstOf picks the least slot of those it is given.                      *)
LEMMA FirstOfIn ==
  ASSUME NEW S \in SUBSET Slot, S # {}
  PROVE  FirstOf(S) \in S
  <1>1. S \in SUBSET Nat
    BY DEF Slot
  <1>2. \E s \in S : \A u \in S : s <= u
    BY <1>1, LeastOf
  <1> QED BY <1>2 DEF FirstOf

LEMMA InitInv == Init => IInv
  <1> SUFFICES ASSUME Init PROVE IInv
    OBVIOUS
  <1>1. Idle \in Call /\ Idle.pc = "idle" /\ ~Idle.answered /\ ~Idle.alone
    BY DEF Idle, Call
  <1>2. \A c \in Caller : call[c] = Idle
    BY DEF Init
  <1>3. TypeOK
    BY <1>1 DEF Init, TypeOK
  <1>4. CommandInv
    BY DEF Init, CommandInv
  <1>5. GivenInv /\ HoldInv /\ AloneInv
    BY <1>1, <1>2 DEF GivenInv, HoldInv, AloneInv, Inside
  <1> QED BY <1>3, <1>4, <1>5 DEF IInv

LEMMA StartInv ==
  ASSUME IInv, NEW c \in Caller, bdl_read(c) \/ bdl_write(c)
  PROVE  IInv'
  <1>1. UNCHANGED <<device, bounce, ci, table, abroad, lock>> /\ off' \in Caller \cup {None}
    BY DEF bdl_read, bdl_write, IInv, TypeOK
  <1>2. /\ call'[c].pc = "lock" /\ call'[c].lba \in Lba /\ (call'[c].w => call'[c].buf \in Data)
        /\ call'[c] \in Call /\ ~call'[c].answered /\ ~call'[c].alone
        /\ call' = [call EXCEPT ![c] = call'[c]]
    <2>1. Idle \in Call /\ call \in [Caller -> Call]
      BY DEF Idle, Call, IInv, TypeOK
    <2>2. CASE bdl_read(c)
      <3>1. PICK l \in Lba : call' = [call EXCEPT ![c] = [Idle EXCEPT !.pc = "lock", !.lba = l]]
        BY <2>2 DEF bdl_read
      <3> QED BY <2>1, <3>1 DEF Idle, Call
    <2>3. CASE bdl_write(c)
      <3>1. PICK l \in Lba, d \in Data :
              call' = [call EXCEPT ![c] =
                         [Idle EXCEPT !.pc = "lock", !.w = TRUE, !.lba = l, !.buf = d]]
        BY <2>3 DEF bdl_write
      <3> QED BY <2>1, <3>1 DEF Idle, Call
    <2> QED BY <2>2, <2>3
  <1>3. call'[c].pc \notin Inside /\ \A d \in Caller \ {c} : call'[d] = call[d]
    BY <1>2 DEF Inside, IInv, TypeOK
  <1>4. TypeOK' /\ CommandInv'
    BY <1>1, <1>2 DEF IInv, TypeOK, CommandInv, device
  <1>5. GivenInv' /\ HoldInv'
    BY <1>1, <1>2, <1>3 DEF IInv, GivenInv, HoldInv
  <1>6. AloneInv'
    BY <1>1, <1>3 DEF IInv, AloneInv, Underway, device
  <1> QED BY <1>4, <1>5, <1>6 DEF IInv

LEMMA LockInv ==
  ASSUME IInv, NEW c \in Caller, spin_lock(c) \/ spin_unlock(c)
  PROVE  IInv'
  <1>1. UNCHANGED <<device, bounce, ci, table, abroad>> /\ off' \in Caller \cup {None}
    BY DEF spin_lock, spin_unlock, IInv, TypeOK
  <1>2. CASE spin_lock(c)
    <2>1. \A d \in Caller : call[d].pc \notin Inside
      BY <1>2 DEF spin_lock, IInv, HoldInv
    <2> QED BY <1>1, <1>2, <2>1
      DEF spin_lock, At, Goto, IInv, TypeOK, CommandInv, GivenInv, HoldInv, AloneInv, Inside,
          device, Call
  <1>3. CASE spin_unlock(c)
    BY <1>1, <1>3
      DEF spin_unlock, At, IInv, TypeOK, CommandInv, GivenInv, HoldInv, AloneInv, Inside,
          device, Call, Idle
  <1> QED BY <1>2, <1>3

(* The other callers stay outside while the holder of the lock steps.      *)
LEMMA OnlyHolder ==
  ASSUME IInv, NEW c \in Caller, call[c].pc \in Inside
  PROVE  \A d \in Caller \ {c} : call[d].pc \notin Inside
  BY DEF IInv, HoldInv

(* A call that goes on to another place keeps what it was given.           *)
LEMMA GotoIs ==
  ASSUME call \in [Caller -> Call], NEW c \in Caller,
         NEW to \in {"slot", "issue", "away", "copy", "unlock"}, Goto(c, to)
  PROVE  /\ call' \in [Caller -> Call] /\ \A d \in Caller \ {c} : call'[d] = call[d]
         /\ call'[c].pc = to /\ call'[c].slot = call[c].slot
         /\ call'[c].w = call[c].w /\ call'[c].lba = call[c].lba /\ call'[c].buf = call[c].buf
         /\ call'[c].answered = call[c].answered /\ call'[c].alone = call[c].alone
  <1> DEFINE r == [call[c] EXCEPT !.pc = to, !.left = 0]
  <1>1. call' = [call EXCEPT ![c] = r] /\ call[c] \in Call
    BY DEF Goto
  <1>2. /\ r \in Call /\ r.pc = to /\ r.slot = call[c].slot /\ r.w = call[c].w
        /\ r.lba = call[c].lba /\ r.buf = call[c].buf
        /\ r.answered = call[c].answered /\ r.alone = call[c].alone
    BY <1>1 DEF Call
  <1> HIDE DEF r
  <1> QED BY <1>1, <1>2

LEMMA PortInv ==
  ASSUME IInv, NEW c \in Caller, ahci_find_free_port(c) \/ ahci_find_free_slot(c)
  PROVE  IInv'
  <1>1. UNCHANGED <<device, bounce, ci, table, abroad, lock, off>> /\ call[c].pc \in {"port", "slot"}
    BY DEF ahci_find_free_port, ahci_find_free_slot, At
  <1>2. \A d \in Caller \ {c} : call[d].pc \notin Inside
    BY <1>1, OnlyHolder DEF Inside
  <1>3. CASE ahci_find_free_port(c)
    <2>0. call[c].pc = "port" /\ call \in [Caller -> Call] /\ call[c] \in Call
      BY <1>3 DEF ahci_find_free_port, At, IInv, TypeOK
    <2>1. CASE call' = [call EXCEPT ![c].left = call[c].left - 1] /\ call[c].left > 1
      <3>1. /\ call' \in [Caller -> Call] /\ \A d \in Caller \ {c} : call'[d] = call[d]
            /\ call'[c].pc = call[c].pc /\ call'[c].slot = call[c].slot /\ call'[c].w = call[c].w
            /\ call'[c].lba = call[c].lba /\ call'[c].buf = call[c].buf
            /\ call'[c].answered = call[c].answered /\ call'[c].alone = call[c].alone
        BY <2>0, <2>1 DEF Call
      <3> HIDE <2>1
      <3> QED BY <1>1, <1>2, <2>0, <3>1
        DEF IInv, TypeOK, CommandInv, GivenInv, HoldInv, AloneInv, Inside, device
    <2>2. ASSUME NEW to \in {"slot", "unlock"}, Goto(c, to) PROVE IInv'
      <3>1. /\ call' \in [Caller -> Call] /\ \A d \in Caller \ {c} : call'[d] = call[d]
            /\ call'[c].pc = to /\ call'[c].slot = call[c].slot
            /\ call'[c].w = call[c].w /\ call'[c].lba = call[c].lba /\ call'[c].buf = call[c].buf
            /\ call'[c].answered = call[c].answered /\ call'[c].alone = call[c].alone
        BY <2>0, <2>2, GotoIs
      <3> HIDE <2>2
      <3> QED BY <1>1, <1>2, <2>0, <3>1
        DEF IInv, TypeOK, CommandInv, GivenInv, HoldInv, AloneInv, Inside, device
    <2> QED BY <1>3, <2>1, <2>2 DEF ahci_find_free_port
  <1>4. CASE ahci_find_free_slot(c) /\ FreeSlots = {}
    BY <1>1, <1>2, <1>4
      DEF ahci_find_free_slot, At, Goto, IInv, TypeOK, CommandInv, GivenInv, HoldInv, AloneInv,
          Inside, device, Call
  <1>5. CASE ahci_find_free_slot(c) /\ FreeSlots # {}
    <2> DEFINE s == FirstOf(FreeSlots)
               q == IF call[c].w THEN "fill" ELSE "issue"
               r == [call[c] EXCEPT !.pc = q, !.slot = s, !.alone = (ci = {} /\ ~abroad)]
    <2>1. s \in Slot \ ci
      BY <1>5, FirstOfIn DEF FreeSlots
    <2>2. call[c] \in Call /\ q \in {"fill", "issue"} /\ (q = "fill" <=> call[c].w)
      BY DEF IInv, TypeOK
    <2>3. call' = [call EXCEPT ![c] = r]
      BY <1>5 DEF ahci_find_free_slot
    <2> HIDE DEF s, q
    <2>4. /\ r \in Call /\ r.pc = q /\ r.slot = s /\ (r.alone => ci = {} /\ ~abroad)
          /\ r.w = call[c].w /\ r.lba = call[c].lba /\ r.buf = call[c].buf
          /\ r.answered = call[c].answered
      BY <2>1, <2>2 DEF Call
    <2> HIDE DEF r
    <2>5. call' \in [Caller -> Call] /\ call'[c] = r /\ \A d \in Caller \ {c} : call'[d] = call[d]
      BY <2>3, <2>4 DEF IInv, TypeOK
    <2>6. GivenInv' /\ HoldInv'
      BY <1>1, <1>2, <2>1, <2>2, <2>4, <2>5 DEF IInv, GivenInv, HoldInv, Inside
    <2>7. AloneInv'
      BY <1>1, <1>2, <2>1, <2>2, <2>4, <2>5 DEF IInv, AloneInv, Inside
    <2> QED BY <1>1, <2>5, <2>6, <2>7 DEF IInv, TypeOK, CommandInv, device
  <1> QED BY <1>3, <1>4, <1>5

LEMMA IssueInv ==
  ASSUME IInv, NEW c \in Caller, fill(c) \/ issue(c)
  PROVE  IInv'
  <1>1. UNCHANGED <<disk, busy, abroad, lock, off>> /\ call[c].pc \in {"fill", "issue"}
    BY DEF fill, issue, device, At
  <1>2. \A d \in Caller \ {c} : call[d].pc \notin Inside
    BY <1>1, OnlyHolder DEF Inside
  <1>3. CASE fill(c)
    <2>0. call[c].pc = "fill" /\ call \in [Caller -> Call] /\ Goto(c, "issue") /\ call[c] \in Call
      BY <1>3 DEF fill, At, IInv, TypeOK
    <2>1. /\ call' \in [Caller -> Call] /\ \A d \in Caller \ {c} : call'[d] = call[d]
          /\ call'[c].pc = "issue" /\ call'[c].slot = call[c].slot
          /\ call'[c].w = call[c].w /\ call'[c].lba = call[c].lba /\ call'[c].buf = call[c].buf
          /\ call'[c].answered = call[c].answered /\ call'[c].alone = call[c].alone
      BY <2>0, GotoIs
    <2>2. bounce' = call[c].buf /\ UNCHANGED <<device, ci, table, abroad, lock, off>> /\ call[c].w
      BY <1>3, <2>0 DEF fill, IInv, GivenInv
    <2>3. bounce' \in Data
      BY <2>0, <2>2 DEF IInv, GivenInv
    <2>4. TypeOK' /\ CommandInv' /\ GivenInv' /\ HoldInv'
      BY <1>2, <2>0, <2>1, <2>2, <2>3 DEF IInv, TypeOK, CommandInv, GivenInv, HoldInv, Inside, device
    <2>5. AloneInv'
      BY <1>2, <2>0, <2>1, <2>2 DEF IInv, AloneInv, Inside
    <2> QED BY <2>4, <2>5 DEF IInv
  <1>4. CASE issue(c)
    <2> DEFINE s == call[c].slot
               cmd == [w |-> call[c].w, lba |-> call[c].lba]
               r == [call[c] EXCEPT !.pc = "poll", !.left = MaxPolls]
    <2>1. /\ s \in Slot /\ s \notin ci /\ call[c].lba \in Lba /\ call[c] \in Call
          /\ call[c].w => call[c].lba \notin Protected
      BY <1>1 DEF IInv, TypeOK, HoldInv, GivenInv, Inside
    <2>2. cmd \in Command /\ cmd.w = call[c].w /\ cmd.lba = call[c].lba
      BY <2>1 DEF Command, Call
    <2>3. /\ r \in Call /\ r.pc = "poll" /\ r.slot = s /\ r.w = call[c].w /\ r.lba = call[c].lba
          /\ r.buf = call[c].buf /\ r.answered = call[c].answered /\ r.alone = call[c].alone
      BY <2>1 DEF Call
    <2>4. table' = [table EXCEPT ![s] = cmd] /\ ci' = ci \cup {s} /\ bounce' = bounce
      BY <1>4 DEF issue
    <2>5. call' = [call EXCEPT ![c] = r]
      BY <1>4 DEF issue
    <2> HIDE DEF cmd, r
    <2>6. /\ call' \in [Caller -> Call] /\ call'[c] = r
          /\ \A d \in Caller \ {c} : call'[d] = call[d]
      BY <2>3, <2>5 DEF IInv, TypeOK
    <2>7. TypeOK'
      BY <1>4, <2>1, <2>2, <2>4, <2>6 DEF IInv, TypeOK, issue, device
    <2>8. CommandInv'
      BY <1>1, <2>1, <2>2, <2>4 DEF IInv, TypeOK, CommandInv
    <2>9. GivenInv' /\ HoldInv'
      BY <1>1, <1>2, <2>1, <2>3, <2>6 DEF IInv, GivenInv, HoldInv, Inside
    <2>10. AloneInv'
      <3>1. ASSUME call[c].alone PROVE Underway(c)'
        <4>1. ci = {} /\ (call[c].w => bounce = call[c].buf)
          BY <1>4, <3>1 DEF IInv, AloneInv, Inside, issue, At
        <4> QED BY <2>1, <2>2, <2>3, <2>4, <2>6, <4>1 DEF Underway, cmd, IInv, TypeOK
      <3>2. call[c].alone => ~abroad'
        BY <1>1 DEF IInv, AloneInv, Inside
      <3> QED BY <1>2, <2>3, <2>6, <3>1, <3>2 DEF AloneInv, Inside
    <2> QED BY <2>7, <2>8, <2>9, <2>10 DEF IInv
  <1> QED BY <1>3, <1>4

LEMMA ElsewhereInv ==
  ASSUME IInv, NEW c \in Caller, elsewhere(c) \/ away(c)
  PROVE  IInv'
  <1>1. /\ UNCHANGED <<device, ci, table, lock, off>> /\ call[c].pc \in {"port", "away"}
        /\ bounce' \in Data /\ abroad' \in BOOLEAN
    BY DEF elsewhere, away, At, IInv, TypeOK, GivenInv
  <1>2. /\ \A d \in Caller \ {c} : call[d].pc \notin Inside
        /\ call[c] \in Call /\ call \in [Caller -> Call] /\ call[c].pc \in Inside
        /\ ~call[c].alone /\ ~call[c].answered
    BY <1>1, OnlyHolder DEF Inside, IInv, TypeOK, GivenInv
  <1>3. \E to \in {"away", "copy", "unlock"} : Goto(c, to) /\ (to = "copy" => ~call[c].w)
    BY DEF elsewhere, away, AfterLoop
  <1>4. /\ call' \in [Caller -> Call] /\ \A d \in Caller \ {c} : call'[d] = call[d]
        /\ call'[c].pc \in {"away", "copy", "unlock"} /\ (call'[c].pc = "copy" => ~call[c].w)
        /\ call'[c].w = call[c].w /\ call'[c].lba = call[c].lba /\ call'[c].buf = call[c].buf
        /\ ~call'[c].answered /\ ~call'[c].alone
    BY <1>2, <1>3, GotoIs
  <1>5. TypeOK' /\ CommandInv'
    BY <1>1, <1>4 DEF IInv, TypeOK, CommandInv, device
  <1>6. GivenInv' /\ HoldInv'
    BY <1>1, <1>2, <1>4 DEF IInv, GivenInv, HoldInv, Inside
  <1>7. AloneInv'
    BY <1>2, <1>4 DEF AloneInv
  <1> QED BY <1>5, <1>6, <1>7 DEF IInv

LEMMA PollInv ==
  ASSUME IInv, NEW c \in Caller, poll(c) \/ copy(c)
  PROVE  IInv'
  <1>1. UNCHANGED <<device, bounce, ci, table, abroad, lock, off>> /\ call[c].pc \in {"poll", "copy"}
    BY DEF poll, copy, At
  <1>2. /\ \A d \in Caller \ {c} : call[d].pc \notin Inside
        /\ call[c] \in Call /\ call \in [Caller -> Call] /\ bounce \in Data
    BY <1>1, OnlyHolder DEF Inside, IInv, TypeOK
  <1>3. CASE poll(c) /\ call[c].slot \notin ci
    <2>1. call' = [call EXCEPT ![c].pc = AfterLoop(c), ![c].left = 0, ![c].answered = TRUE]
      BY <1>3 DEF poll, Answer
    <2>2. call[c].alone => ~abroad /\ ci = {} /\ disk[call[c].lba] = IF call[c].w THEN call[c].buf ELSE bounce
      BY <1>3, ZenonT(40) DEF IInv, AloneInv, Underway, Inside, poll, At
    <2> DEFINE q == AfterLoop(c)
               r == [call[c] EXCEPT !.pc = q, !.left = 0, !.answered = TRUE]
    <2>3. q \in {"copy", "unlock"} /\ (q = "unlock" <=> call[c].w)
      BY <1>2 DEF AfterLoop, Call
    <2>4. call' = [call EXCEPT ![c] = r]
      BY <2>1
    <2> HIDE DEF q
    <2>5. /\ r \in Call /\ r.pc = q /\ r.slot = call[c].slot /\ r.w = call[c].w
          /\ r.lba = call[c].lba /\ r.buf = call[c].buf /\ r.alone = call[c].alone
      BY <1>2, <2>3 DEF Call
    <2> HIDE DEF r
    <2>6. call' \in [Caller -> Call] /\ call'[c] = r /\ \A d \in Caller \ {c} : call'[d] = call[d]
      BY <1>2, <2>4, <2>5
    <2>7. TypeOK' /\ CommandInv'
      BY <1>1, <2>6 DEF IInv, TypeOK, CommandInv, device
    <2>8. call[c].pc \in Inside
      BY <1>1 DEF Inside
    <2>9. GivenInv' /\ HoldInv'
      BY <1>1, <1>2, <2>3, <2>5, <2>6, <2>8 DEF IInv, GivenInv, HoldInv, Inside
    <2>10. AloneInv'
      BY <1>1, <1>2, <2>2, <2>3, <2>5, <2>6 DEF AloneInv, Inside, device
    <2> QED BY <2>7, <2>9, <2>10 DEF IInv
  <1>4. CASE poll(c) /\ call[c].slot \in ci
    <2>0. call[c].pc = "poll" /\ ~call[c].answered
      BY <1>4 DEF poll, At, IInv, GivenInv
    <2>1. CASE call' = [call EXCEPT ![c].left = call[c].left - 1] /\ call[c].left > 1
      <3>1. /\ call' \in [Caller -> Call] /\ \A d \in Caller \ {c} : call'[d] = call[d]
            /\ call'[c].pc = call[c].pc /\ call'[c].slot = call[c].slot /\ call'[c].w = call[c].w
            /\ call'[c].lba = call[c].lba /\ call'[c].buf = call[c].buf
            /\ call'[c].answered = call[c].answered /\ call'[c].alone = call[c].alone
        BY <1>2, <2>1 DEF Call
      <3> HIDE <2>1
      <3> QED BY <1>1, <1>2, <2>0, <3>1
        DEF IInv, TypeOK, CommandInv, GivenInv, HoldInv, AloneInv, Underway, Inside, device
    <2>2. CASE Goto(c, AfterLoop(c)) \/ Goto(c, "unlock")
      BY <1>1, <1>2, <2>0, <2>2
        DEF Goto, AfterLoop, IInv, TypeOK, CommandInv, GivenInv, HoldInv, AloneInv, Inside, device,
            Call
    <2> QED BY <1>4, <2>1, <2>2 DEF poll, CountDown
  <1>5. CASE copy(c)
    <2>1. call' = [call EXCEPT ![c].buf = bounce, ![c].pc = "unlock"] /\ call[c].pc = "copy"
      BY <1>5 DEF copy, At
    <2> QED BY <1>1, <1>2, <2>1
      DEF IInv, TypeOK, CommandInv, GivenInv, HoldInv, AloneInv, Inside, device, Call
  <1> QED BY <1>3, <1>4, <1>5

LEMMA DeviceInv ==
  ASSUME IInv, Device \/ ahci_interrupt_handler
  PROVE  IInv'
  <1>1. CASE DeviceStart
    BY <1>1 DEF DeviceStart, IInv, TypeOK, CommandInv, GivenInv, HoldInv, AloneInv, Underway
  <1>2. CASE DeviceDone
    <2> DEFINE cmd == table[busy]
    <2>1. /\ busy \in ci /\ busy \in Slot /\ cmd \in Command /\ (cmd.w => cmd.lba \notin Protected)
          /\ cmd.lba \in Lba /\ UNCHANGED <<abroad, lock, off, call>> /\ ci' = ci \ {busy}
          /\ table' = [table EXCEPT ![busy] = None]
      BY <1>2 DEF DeviceDone, IInv, TypeOK, CommandInv, Command
    <2>2. IF cmd.w THEN disk' = [disk EXCEPT ![cmd.lba] = bounce] /\ UNCHANGED bounce
                   ELSE bounce' = disk[cmd.lba] /\ UNCHANGED disk
      BY <1>2 DEF DeviceDone
    <2>3. TypeOK' /\ CommandInv' /\ GivenInv' /\ HoldInv'
      BY <1>2, <2>1, <2>2 DEF DeviceDone, IInv, TypeOK, CommandInv, GivenInv, HoldInv
    <2>4. ASSUME NEW c \in Caller, call[c].pc = "poll", call[c].alone
          PROVE  Underway(c)'
      <3>1. Underway(c)
        BY <2>4 DEF IInv, AloneInv, Inside
      <3>2. /\ call[c].slot = busy /\ ci' = {} /\ cmd.w = call[c].w /\ cmd.lba = call[c].lba
            /\ call[c].w => bounce = call[c].buf
        BY <2>1, <3>1 DEF Underway
      <3> QED BY <2>1, <2>2, <3>2 DEF Underway, IInv, TypeOK
    <2>5. AloneInv'
      BY <2>1, <2>4 DEF IInv, AloneInv
    <2> QED BY <2>3, <2>5 DEF IInv
  <1>3. CASE DeviceFail
    BY <1>3 DEF DeviceFail, IInv, TypeOK, CommandInv, GivenInv, HoldInv, AloneInv, Underway
  <1>4. CASE ahci_interrupt_handler
    BY <1>4
      DEF ahci_interrupt_handler, IInv, TypeOK, CommandInv, GivenInv, HoldInv, AloneInv, Underway
  <1>5. CASE OtherDone
    <2>1. \A c \in Caller : call[c].pc \in Inside => ~call[c].alone
      BY <1>5 DEF OtherDone, IInv, AloneInv
    <2>2. AloneInv'
      BY <1>5, <2>1 DEF OtherDone, AloneInv, device
    <2> QED BY <1>5, <2>2 DEF OtherDone, device, IInv, TypeOK, CommandInv, GivenInv, HoldInv
  <1> QED BY <1>1, <1>2, <1>3, <1>4, <1>5 DEF Device

LEMMA StepInv == IInv /\ [Next]_vars => IInv'
  <1> SUFFICES ASSUME IInv, [Next]_vars PROVE IInv'
    OBVIOUS
  <1>1. ASSUME NEW c \in Caller, bdl_read(c) \/ bdl_write(c) \/ Step(c) PROVE IInv'
    BY <1>1, StartInv, LockInv, PortInv, IssueInv, ElsewhereInv, PollInv DEF Step
  <1>2. CASE Device \/ ahci_interrupt_handler
    BY <1>2, DeviceInv
  <1>3. CASE UNCHANGED vars \/ Spin
    BY <1>3
      DEF vars, Spin, IInv, TypeOK, CommandInv, GivenInv, HoldInv, AloneInv, Underway
  <1> QED BY <1>1, <1>2, <1>3 DEF Next

LEMMA Inductive == Spec => []IInv
  BY InitInv, StepInv, PTL DEF Spec

(* Every variable keeps its type.                                          *)
THEOREM TypeCorrect == Spec => []TypeOK
  <1>1. IInv => TypeOK
    BY DEF IInv
  <1> QED BY <1>1, Inductive, PTL

(* A call the device has answered did what it was asked (ahci_read_sector, *)
(* ahci_write_sector), unless a command that an earlier caller had given   *)
(* up on was outstanding when it took its slot.                            *)
THEOREM Answered == Spec => []AnsweredIsDone
  <1>1. IInv => AnsweredIsDone
    BY DEF IInv, AloneInv, Inside, AnsweredIsDone, At
  <1> QED BY <1>1, Inductive, PTL

(* ahci_find_free_slot never hands out the slot of an outstanding command. *)
THEOREM SlotsStay == Spec => SlotIntact
  <1>1. IInv /\ [Next]_vars => [\A s \in ci \cap ci' : table'[s] = table[s]]_vars
    <2> SUFFICES ASSUME IInv, Next, NEW s \in ci \cap ci' PROVE table'[s] = table[s]
      OBVIOUS
    <2>1. ASSUME NEW c \in Caller, issue(c) PROVE table'[s] = table[s]
      BY <2>1 DEF issue, At, IInv, TypeOK, HoldInv, Inside
    <2>2. CASE UNCHANGED table
      BY <2>2
    <2>3. CASE DeviceDone
      <3>1. s # busy /\ table \in [Slot -> Command \cup {None}] /\ s \in Slot
        BY <2>3 DEF DeviceDone, IInv, TypeOK
      <3> QED BY <2>3, <3>1 DEF DeviceDone
    <2> QED BY <2>1, <2>2, <2>3
      DEF Next, Step, Device, bdl_read, bdl_write, spin_lock, spin_unlock, ahci_find_free_port,
          ahci_find_free_slot, fill, elsewhere, away, poll, copy, Spin, vars, DeviceStart, DeviceFail,
          OtherDone, ahci_interrupt_handler
  <1> QED BY <1>1, Inductive, PTL DEF Spec, SlotIntact

(* No call, and no command that was left behind, changes a sector that     *)
(* check_write_safety refuses (bdl_write).                                 *)
THEOREM ProtectedStays == Spec => ProtectedIntact
  <1>1. IInv /\ [Next]_vars => [\A l \in Protected : disk'[l] = disk[l]]_vars
    <2> SUFFICES ASSUME IInv, Next, NEW l \in Protected PROVE disk'[l] = disk[l]
      OBVIOUS
    <2>1. CASE DeviceDone
      BY <2>1 DEF DeviceDone, IInv, TypeOK, CommandInv, Command
    <2>2. CASE UNCHANGED disk
      BY <2>2
    <2> QED BY <2>1, <2>2
      DEF Next, Step, Device, device, bdl_read, bdl_write, spin_lock, spin_unlock,
          ahci_find_free_port, ahci_find_free_slot, fill, issue, elsewhere, away, poll, copy, Spin, vars,
          DeviceStart, DeviceFail, OtherDone, ahci_interrupt_handler
  <1> QED BY <1>1, Inductive, PTL DEF Spec, ProtectedIntact

-----------------------------------------------------------------------------
(* The RAM disk: the structs have ranks that grow along the lists, up to   *)
(* m, and a list each.  What is allocated is the first of its list or the  *)
(* next of another, and of no more than one.                               *)
Linked(up, home, m) ==
  /\ up \in [Node -> Nat] /\ home \in [Node -> Nat] /\ m \in Nat
  /\ \A x \in live : up[x] <= m /\ home[x] \in Bucket
  /\ \A x \in live : next[x] # NULL => /\ next[x] \in live /\ up[x] < up[next[x]]
                                       /\ home[next[x]] = home[x] /\ next[x] # files_table[home[x]]
  /\ \A x, y \in live : next[x] = next[y] /\ next[x] # NULL => x = y
  /\ \A x \in Node \ live : next[x] = NULL
  /\ \A b \in Bucket : files_table[b] # NULL => files_table[b] \in live /\ home[files_table[b]] = b
  /\ \A x \in live : x = files_table[home[x]] \/ \E w \in live : next[w] = x

(* The list of a file, or of the file that is being made, is the one its   *)
(* name has.                                                               *)
Sorted(home) ==
  /\ \A x \in Node \ live : file[x] = NULL
  /\ \A x \in live : Whole(x) => home[x] = hash[file[x].name]
  /\ hand.at # "idle" => home[hand.node] = hash[hand.name]

RamInv ==
  /\ RamTypeOK /\ OnlyMidway
  /\ \E up, home, m : Linked(up, home, m) /\ Sorted(home)

LEMMA LeastNode ==
  ASSUME NEW up \in [Node -> Nat], NEW S \in SUBSET Node, S # {}
  PROVE  \E x \in S : \A y \in S : up[x] <= up[y]
  <1> DEFINE R == {up[x] : x \in S}
  <1>1. R \in SUBSET Nat /\ R # {}
    OBVIOUS
  <1>2. PICK r \in R : \A q \in R : r <= q
    <2> HIDE DEF R
    <2> QED BY <1>1, LeastOf
  <1> QED BY <1>2

(* A walk stays among the allocated structs of its list, and goes on along *)
(* next.                                                                   *)
LEMMA FromIn ==
  ASSUME NEW up, NEW home, NEW m, Linked(up, home, m), live \subseteq Node, NEW e \in live
  PROVE  /\ e \in From(e) /\ From(e) \subseteq {x \in live : home[x] = home[e]}
         /\ \A x \in From(e) : next[x] # NULL => next[x] \in From(e)
  <1> DEFINE C == {S \in SUBSET Node : e \in S /\ \A x \in S : next[x] # NULL => next[x] \in S}
             F == {x \in Node : \A S \in C : x \in S}
             H == {x \in live : home[x] = home[e]}
  <1>1. From(e) = F
    BY DEF From
  <1>2. H \in C
    BY DEF Linked
  <1>3. e \in F
    OBVIOUS
  <1>4. F \subseteq H
    BY <1>2
  <1>5. ASSUME NEW x \in F, next[x] # NULL PROVE next[x] \in F
    <2>1. next[x] \in Node
      <3>1. x \in live
        BY <1>4
      <3> QED BY <1>5, <3>1 DEF Linked
    <2>2. \A S \in C : next[x] \in S
      BY <1>5
    <2> QED BY <2>1, <2>2
  <1> HIDE DEF F, C
  <1> QED BY <1>1, <1>3, <1>4, <1>5

(* A list holds the structs that are meant for it, ...                     *)
LEMMA ChainIs ==
  ASSUME NEW up, NEW home, NEW m, Linked(up, home, m), live \subseteq Node, NULL \notin Node, NEW b \in Bucket
  PROVE  Chain(b) = {x \in live : home[x] = b}
  <1>1. Chain(b) \subseteq {x \in live : home[x] = b}
    <2>1. CASE files_table[b] = NULL
      BY <2>1 DEF Chain, From
    <2>2. CASE files_table[b] # NULL
      <3>1. files_table[b] \in live /\ home[files_table[b]] = b
        BY <2>2 DEF Linked
      <3> QED BY <3>1, FromIn DEF Chain
    <2> QED BY <2>1, <2>2
  <1> DEFINE Bad == {x \in live : home[x] = b /\ x \notin Chain(b)}
  <1>2. SUFFICES ASSUME Bad # {} PROVE FALSE
    BY <1>1
  <1>3. PICK x \in Bad : \A y \in Bad : up[x] <= up[y]
    <2>1. Bad \in SUBSET Node /\ up \in [Node -> Nat]
      BY DEF Linked
    <2> HIDE DEF Bad
    <2> QED BY <1>2, <2>1, LeastNode
  <1>4. x # files_table[b]
    <2>1. x \in live => x \in From(x)
      BY FromIn
    <2> QED BY <2>1, <1>3 DEF Chain
  <1>5. PICK w \in live : next[w] = x
    BY <1>3, <1>4 DEF Linked
  <1>6. x # NULL /\ up[w] < up[x] /\ home[w] = b /\ up[w] \in Nat /\ up[x] \in Nat
    BY <1>3, <1>5 DEF Linked
  <1>7. w \in Chain(b)
    BY <1>3, <1>6
  <1>8. files_table[b] \in live
    BY <1>7 DEF Chain, From, Linked
  <1>9. next[w] \in Chain(b)
    BY <1>5, <1>6, <1>7, <1>8, FromIn DEF Chain
  <1> QED BY <1>3, <1>5, <1>9

(* ... and comes to an end.                                                *)
LEMMA EndIs ==
  ASSUME NEW up, NEW home, NEW m, Linked(up, home, m), live \subseteq Node, NULL \notin Node, NEW b \in Bucket,
         files_table[b] # NULL
  PROVE  Ends(b) # {}
  <1> DEFINE down == [x \in Node |-> IF up[x] <= m THEN m - up[x] ELSE 0]
  <1>1. down \in [Node -> Nat] /\ \A x \in live : up[x] <= m /\ up[x] \in Nat /\ m \in Nat
    BY DEF Linked
  <1>2. Chain(b) \in SUBSET Node /\ Chain(b) # {}
    <2>1. Chain(b) = {x \in live : home[x] = b}
      BY ChainIs
    <2>2. files_table[b] \in live /\ home[files_table[b]] = b
      BY DEF Linked
    <2> QED BY <2>1, <2>2
  <1>3. PICK l \in Chain(b) : \A y \in Chain(b) : down[l] <= down[y]
    <2> HIDE DEF down
    <2> QED BY <1>1, <1>2, LeastNode
  <1>4. l \in live /\ home[l] = b
    BY ChainIs
  <1>5. next[l] = NULL
    <2>1. SUFFICES ASSUME next[l] # NULL PROVE FALSE
      OBVIOUS
    <2>2. next[l] \in live /\ home[next[l]] = b /\ up[l] < up[next[l]]
      BY <1>4, <2>1 DEF Linked
    <2>3. next[l] \in Chain(b)
      BY <2>2, ChainIs
    <2>4. down[l] <= down[next[l]]
      BY <1>3, <2>3
    <2>5. down[l] = m - up[l] /\ down[next[l]] = m - up[next[l]]
      BY <1>1, <1>4, <2>2
    <2> QED BY <1>1, <1>4, <2>2, <2>4, <2>5
  <1> QED BY <1>3, <1>5 DEF Ends

(* What a lookup finds is allocated, and called so.                        *)
LEMMA HitIs ==
  ASSUME NEW e, NEW n, NEW x \in Hit(e, n)
  PROVE  x \in live /\ Whole(x) /\ file[x].name = n /\ x \in From(e)
  BY DEF Hit, Met, Stops

LEMMA RamInitInv == RamInit => RamInv
  <1> SUFFICES ASSUME RamInit PROVE RamInv
    OBVIOUS
  <1>1. RamTypeOK
    BY DEF RamInit, RamTypeOK
  <1>2. OnlyMidway
    BY DEF RamInit, OnlyMidway
  <1> DEFINE zero == [x \in Node |-> 0]
  <1>3. zero \in [Node -> Nat] /\ 0 \in Nat
    OBVIOUS
  <1>4. Linked(zero, zero, 0) /\ Sorted(zero)
    <2> HIDE DEF zero
    <2> QED BY <1>3 DEF RamInit, Linked, Sorted, Resting
  <1> HIDE DEF zero
  <1> QED BY <1>1, <1>2, <1>4 DEF RamInv

(* A step that goes wrong leaves the structs alone, and only a listing     *)
(* meets a half made entry.                                                *)
LEMMA DownInv ==
  ASSUME RamInv, NEW kind \in {"end", "half", "loop"}, kind = "half" => failed \/ hand.at # "idle", Down(kind)
  PROVE  RamInv'
  <1>1. RamTypeOK'
    BY DEF RamInv, RamTypeOK, Down, lists
  <1>2. OnlyMidway'
    BY DEF RamInv, OnlyMidway, Down, lists, Whole
  <1>3. PICK up, home, m : Linked(up, home, m) /\ Sorted(home)
    BY DEF RamInv
  <1>4. Linked(up, home, m)' /\ Sorted(home)'
    BY <1>3 DEF Down, lists, Linked, Sorted, Whole
  <1> QED BY <1>1, <1>2, <1>4 DEF RamInv

LEMMA MissInv ==
  ASSUME RamInv, NEW e, NEW n, hand.at = "idle", Miss(e, n)
  PROVE  RamInv'
  <1>1. CASE Down("end")
    BY <1>1, DownInv
  <1>2. CASE Met(e, {n}) # {} /\ Hit(e, n) = {} /\ Down("half")
    <2>1. PICK x \in live : ~Whole(x)
      BY <1>2 DEF Met, Stops, Hit
    <2>2. failed
      BY <2>1 DEF RamInv, OnlyMidway
    <2> QED BY <1>2, <2>2, DownInv
  <1> QED BY <1>1, <1>2 DEF Miss

LEMMA CreateInv ==
  ASSUME RamInv, NEW n \in Name, NEW d \in BOOLEAN, Create(n, d)
  PROVE  RamInv'
  <1> DEFINE b == hash[n]
  <1>1. b \in Bucket
    BY RamdiskAssumption DEF RamdiskAssumption
  <1>2. PICK e \in Node \ live : /\ Link(e, b)
                                /\ live' = live \cup {e}
                                /\ hand' = [at |-> "file", node |-> e, name |-> n, dir |-> d]
    BY DEF Create
  <1>3. UNCHANGED <<file, failed, fault>> /\ fault = "none"
    BY DEF Create
  <1>4. PICK up, home, m : Linked(up, home, m) /\ Sorted(home)
    BY DEF RamInv
  <1>5. live \subseteq Node /\ NULL \notin Node /\ RamTypeOK
    BY RamdiskAssumption DEF RamInv, RamTypeOK, RamdiskAssumption
  <1> HIDE DEF b
  <1> DEFINE up1 == [up EXCEPT ![e] = m + 1]
             home1 == [home EXCEPT ![e] = b]
  <1>6. /\ up1 \in [Node -> Nat] /\ home1 \in [Node -> Nat] /\ m + 1 \in Nat
        /\ up1[e] = m + 1 /\ home1[e] = b
        /\ \A x \in Node \ {e} : up1[x] = up[x] /\ home1[x] = home[x]
    BY <1>1, <1>4, RamdiskAssumption DEF Linked, RamdiskAssumption
  <1> HIDE DEF up1, home1
  <1>7. Linked(up1, home1, m + 1)' /\ next' \in [Node -> Node \cup {NULL}] /\ files_table' \in [Bucket -> Node \cup {NULL}]
    <2>1. CASE files_table[b] = NULL /\ files_table' = [files_table EXCEPT ![b] = e] /\ UNCHANGED next
      <3>1. \A x \in live : home[x] # b
        <4>1. Chain(b) = {}
          BY <2>1, <1>5 DEF Chain, From
        <4> QED BY <4>1, <1>1, <1>4, <1>5, ChainIs
      <3>2. files_table'[b] = e /\ \A c \in Bucket \ {b} : files_table'[c] = files_table[c]
        BY <1>1, <2>1, <1>5 DEF RamTypeOK
      <3>3. \A x \in live : x # e /\ next'[x] = next[x] /\ next[x] # e
        BY <1>2, <2>1, <1>4, <1>5 DEF Linked
      <3>4. next'[e] = NULL
        BY <1>2, <2>1, <1>4 DEF Linked
      <3>5. files_table' \in [Bucket -> Node \cup {NULL}]
        BY <2>1, <1>2, <1>5 DEF RamTypeOK
      <3>6. /\ \A x \in live' : up1[x] <= m + 1 /\ home1[x] \in Bucket
            /\ \A x \in live' : next'[x] # NULL => /\ next'[x] \in live' /\ up1[x] < up1[next'[x]]
                                                  /\ home1[next'[x]] = home1[x] /\ next'[x] # files_table'[home1[x]]
        BY <1>1, <1>2, <1>4, <1>5, <1>6, <3>1, <3>2, <3>3, <3>4 DEF Linked
      <3>7. /\ \A x, y \in live' : next'[x] = next'[y] /\ next'[x] # NULL => x = y
            /\ \A x \in Node \ live' : next'[x] = NULL
        BY <1>2, <1>4, <3>3, <3>4, <2>1 DEF Linked
      <3>8. /\ \A c \in Bucket : files_table'[c] # NULL => files_table'[c] \in live' /\ home1[files_table'[c]] = c
            /\ \A x \in live' : x = files_table'[home1[x]] \/ \E w \in live' : next'[w] = x
        <4>1. \A c \in Bucket : files_table'[c] # NULL => files_table'[c] \in live' /\ home1[files_table'[c]] = c
          BY <1>2, <1>4, <1>5, <1>6, <3>2 DEF Linked
        <4>2. ASSUME NEW x \in live' PROVE x = files_table'[home1[x]] \/ \E w \in live' : next'[w] = x
          BY <1>2, <1>4, <1>5, <1>6, <3>1, <3>2, <3>3 DEF Linked
        <4> QED BY <4>1, <4>2
      <3> QED BY <1>5, <1>6, <2>1, <3>5, <3>6, <3>7, <3>8 DEF Linked, RamTypeOK
    <2>2. CASE files_table[b] # NULL /\ UNCHANGED files_table /\ \E l \in Ends(b) : next' = [next EXCEPT ![l] = e]
      <3>1. PICK l \in Ends(b) : next' = [next EXCEPT ![l] = e]
        BY <2>2
      <3>2. l \in live /\ home[l] = b /\ next[l] = NULL
        BY <1>1, <1>4, <1>5, <3>1, ChainIs DEF Ends
      <3>3. next' \in [Node -> Node \cup {NULL}] /\ next'[l] = e /\ \A x \in Node \ {l} : next'[x] = next[x]
        BY <1>2, <1>5, <3>1, <3>2 DEF RamTypeOK
      <3>4. \A x \in live : x # e /\ next[x] # e
        BY <1>2, <1>4, <1>5 DEF Linked
      <3>5. next'[e] = NULL
        BY <1>2, <1>4, <3>3, <3>4, <3>2 DEF Linked
      <3>6. /\ \A x \in live' : up1[x] <= m + 1 /\ home1[x] \in Bucket
            /\ \A x \in live' : next'[x] # NULL => /\ next'[x] \in live' /\ up1[x] < up1[next'[x]]
                                                  /\ home1[next'[x]] = home1[x] /\ next'[x] # files_table'[home1[x]]
        <4>1. \A x \in live' : up1[x] <= m + 1 /\ home1[x] \in Bucket
          BY <1>1, <1>2, <1>4, <1>5, <1>6 DEF Linked
        <4>2. ASSUME NEW x \in live', next'[x] # NULL
              PROVE  next'[x] \in live' /\ up1[x] < up1[next'[x]] /\ home1[next'[x]] = home1[x] /\ next'[x] # files_table'[home1[x]]
          <5>1. CASE x = l
            BY <1>2, <1>4, <1>5, <1>6, <2>2, <3>2, <3>3, <3>4, <5>1 DEF Linked
          <5>2. CASE x # l
            <6>1. x \in live /\ next'[x] = next[x]
              BY <1>2, <1>5, <3>3, <3>5, <4>2, <5>2
            <6>2. /\ next[x] \in live /\ up[x] < up[next[x]]
                  /\ home[next[x]] = home[x] /\ next[x] # files_table[home[x]]
              BY <1>4, <4>2, <6>1 DEF Linked
            <6>3. next[x] # e /\ x # e
              BY <3>4, <6>1
            <6> QED BY <1>2, <1>5, <1>6, <2>2, <6>1, <6>2, <6>3
          <5> QED BY <5>1, <5>2
        <4> QED BY <4>1, <4>2
      <3>7. /\ \A x, y \in live' : next'[x] = next'[y] /\ next'[x] # NULL => x = y
            /\ \A x \in Node \ live' : next'[x] = NULL
        <4>1. \A x \in Node \ live' : next'[x] = NULL
          BY <1>2, <1>4, <3>2, <3>3 DEF Linked
        <4>2. ASSUME NEW x \in live', NEW y \in live', next'[x] = next'[y], next'[x] # NULL PROVE x = y
          BY <1>2, <1>4, <1>5, <3>2, <3>3, <3>4, <3>5, <4>2 DEF Linked
        <4> QED BY <4>1, <4>2
      <3>8. /\ \A c \in Bucket : files_table'[c] # NULL => files_table'[c] \in live' /\ home1[files_table'[c]] = c
            /\ \A x \in live' : x = files_table'[home1[x]] \/ \E w \in live' : next'[w] = x
        <4>1. \A c \in Bucket : files_table'[c] # NULL => files_table'[c] \in live' /\ home1[files_table'[c]] = c
          BY <1>2, <1>4, <1>5, <1>6, <2>2 DEF Linked
        <4>2. ASSUME NEW x \in live' PROVE x = files_table'[home1[x]] \/ \E w \in live' : next'[w] = x
          <5>1. CASE x = e
            BY <1>2, <3>2, <3>3, <5>1
          <5>2. CASE x # e
            <6>1. x \in live /\ home1[x] = home[x]
              BY <1>2, <1>5, <1>6, <5>2
            <6>2. ASSUME NEW w \in live, next[w] = x PROVE w # l /\ next'[w] = x
              BY <1>5, <3>2, <3>3, <6>1, <6>2
            <6> QED BY <1>2, <1>4, <2>2, <6>1, <6>2 DEF Linked
          <5> QED BY <5>1, <5>2
        <4> QED BY <4>1, <4>2
      <3> QED BY <1>5, <1>6, <2>2, <3>3, <3>6, <3>7, <3>8 DEF Linked, RamTypeOK
    <2> QED BY <1>2, <2>1, <2>2 DEF Link
  <1>8. Sorted(home1)'
    <2>1. hand'.node = e /\ hand'.name = n
      BY <1>2
    <2>2. ASSUME NEW x \in live', Whole(x)' PROVE home1[x] = hash[file'[x].name]
      <3>1. CASE x = e
        BY <1>2, <1>3, <1>4, <2>2, <3>1 DEF Sorted, Whole
      <3>2. CASE x # e
        BY <1>2, <1>3, <1>4, <1>5, <1>6, <2>2, <3>2 DEF Sorted, Whole
      <3> QED BY <3>1, <3>2
    <2>3. \A x \in Node \ live' : file'[x] = NULL
      BY <1>2, <1>3, <1>4 DEF Sorted
    <2> QED BY <1>6, <2>1, <2>2, <2>3 DEF Sorted, b
  <1>9. RamTypeOK'
    BY <1>2, <1>3, <1>5, <1>7 DEF RamTypeOK
  <1>10. OnlyMidway'
    <2>1. hand.at = "idle" /\ hand'.at = "file" /\ hand'.node = e
      BY <1>2 DEF Create
    <2>2. ~failed => \A x \in live : Whole(x)
      BY <2>1 DEF RamInv, OnlyMidway
    <2>3. \A x \in live : Whole(x)' = Whole(x)
      BY <1>3 DEF Whole
    <2> QED BY <1>2, <1>3, <2>1, <2>2, <2>3 DEF OnlyMidway
  <1> QED BY <1>7, <1>8, <1>9, <1>10 DEF RamInv

LEMMA CreateFileInv ==
  ASSUME RamInv, CreateFile
  PROVE  RamInv'
  <1>1. UNCHANGED <<files_table, next, live, fault>> /\ fault = "none" /\ hand.at = "file"
    BY DEF CreateFile, lists
  <1>2. PICK up, home, m : Linked(up, home, m) /\ Sorted(home)
    BY DEF RamInv
  <1>3. Linked(up, home, m)'
    BY <1>1, <1>2 DEF Linked
  <1>4. RamTypeOK /\ OnlyMidway /\ hand.node \in live /\ live \subseteq Node /\ hand \in [at : {"file", "name"}, node : live, name : Name, dir : BOOLEAN]
    BY <1>1 DEF RamInv, RamTypeOK, Resting
  <1>5. CASE /\ file' = [file EXCEPT ![hand.node] = Zeroed]
             /\ hand' = [hand EXCEPT !.at = "name"]
             /\ UNCHANGED failed
    <2>1. Zeroed \in File /\ Zeroed.name = NULL
      BY DEF Zeroed, Made, File
    <2>2. hand' \in [at : {"file", "name"}, node : live, name : Name, dir : BOOLEAN]
      BY <1>4, <1>5
    <2>3. hand'.at = "name" /\ hand'.node = hand.node /\ hand'.name = hand.name
      BY <1>4, <1>5
    <2>4. file' \in [Node -> File \cup {NULL}] /\ file'[hand.node] = Zeroed /\ \A x \in Node \ {hand.node} : file'[x] = file[x]
      BY <1>4, <1>5, <2>1 DEF RamTypeOK
    <2>5. RamTypeOK'
      BY <1>1, <1>4, <1>5, <2>2, <2>4 DEF RamTypeOK
    <2>6. OnlyMidway'
      BY <1>1, <1>4, <1>5, <2>3, <2>4 DEF OnlyMidway, Whole
    <2>7. Sorted(home)'
      BY <1>1, <1>2, <1>4, <2>1, <2>3, <2>4 DEF Sorted, Whole
    <2> QED BY <1>3, <2>5, <2>6, <2>7 DEF RamInv
  <1>6. CASE failed' = TRUE /\ hand' = Resting /\ UNCHANGED file
    <2>1. RamTypeOK'
      BY <1>1, <1>4, <1>6 DEF RamTypeOK
    <2>2. OnlyMidway' /\ Sorted(home)'
      BY <1>1, <1>2, <1>6 DEF OnlyMidway, Sorted, Whole, Resting
    <2> QED BY <1>3, <2>1, <2>2 DEF RamInv
  <1> QED BY <1>5, <1>6 DEF CreateFile

LEMMA CreateNameInv ==
  ASSUME RamInv, CreateName
  PROVE  RamInv'
  <1>1. UNCHANGED <<files_table, next, live, fault>> /\ fault = "none" /\ hand.at = "name" /\ hand' = Resting
    BY DEF CreateName, lists
  <1>2. PICK up, home, m : Linked(up, home, m) /\ Sorted(home)
    BY DEF RamInv
  <1>3. Linked(up, home, m)'
    BY <1>1, <1>2 DEF Linked
  <1>4. RamTypeOK /\ OnlyMidway /\ hand.node \in live /\ live \subseteq Node /\ hand \in [at : {"file", "name"}, node : live, name : Name, dir : BOOLEAN]
    BY <1>1 DEF RamInv, RamTypeOK, Resting
  <1>5. PICK n \in {hand.name, NULL} :
           /\ file' = [file EXCEPT ![hand.node] = Made(n, hand.dir)]
           /\ failed' = (failed \/ n = NULL)
    BY DEF CreateName
  <1> DEFINE f == Made(n, hand.dir)
  <1>6. f \in File /\ f.name = n /\ f # NULL
    <2>1. n \in Name \cup {NULL} /\ hand.dir \in BOOLEAN /\ <<>> \in Seq(Char)
      BY <1>4
    <2>2. f \in File /\ f.name = n
      BY <2>1 DEF Made, File
    <2> QED BY <2>2, RamdiskAssumption DEF RamdiskAssumption
  <1>7. file' \in [Node -> File \cup {NULL}] /\ file'[hand.node] = f /\ \A x \in Node \ {hand.node} : file'[x] = file[x]
    BY <1>4, <1>5, <1>6 DEF RamTypeOK
  <1> HIDE DEF f
  <1>9. RamTypeOK'
    BY <1>1, <1>4, <1>5, <1>7 DEF RamTypeOK
  <1>10. OnlyMidway'
    BY <1>1, <1>4, <1>5, <1>6, <1>7 DEF OnlyMidway, Whole
  <1>11. Sorted(home)'
    BY <1>1, <1>2, <1>4, <1>5, <1>6, <1>7 DEF Sorted, Whole, Resting
  <1> QED BY <1>3, <1>9, <1>10, <1>11 DEF RamInv

(* Texts stay texts.                                                       *)
LEMMA OverIs ==
  ASSUME NEW old \in Seq(Char), NEW t \in Texts
  PROVE  Over(old, t) \in Seq(Char)
  <1>1. t \in Seq(Char) /\ Len(t) + 1 \in Nat \ {0} /\ Len(old) \in Nat
    BY RamdiskAssumption DEF RamdiskAssumption
  <1>2. SubSeq(old, Len(t) + 1, Len(old)) \in Seq(Char)
    <2>1. \A i \in Len(t) + 1 .. Len(old) : i \in 1 .. Len(old)
      BY <1>1
    <2>2. \A i \in Len(t) + 1 .. Len(old) : old[i] \in Char
      BY <2>1
    <2> QED BY <1>1, <2>1
  <1> QED BY <1>1, <1>2 DEF Over

LEMMA WriteInv ==
  ASSUME RamInv, NEW n \in Name, NEW t \in Texts, ramdisk_write(n, t)
  PROVE  RamInv'
  <1>1. UNCHANGED <<files_table, next, live, hand, failed, fault>>
    BY DEF ramdisk_write, lists
  <1>2. PICK e \in Hit(files_table[hash[n]], n) : file' = [file EXCEPT ![e].text = Over(@, t)]
    BY DEF ramdisk_write
  <1>3. PICK up, home, m : Linked(up, home, m) /\ Sorted(home)
    BY DEF RamInv
  <1>4. e \in live /\ Whole(e) /\ RamTypeOK /\ OnlyMidway
    BY HitIs DEF RamInv
  <1>5. file[e] \in File /\ e \in Node
    BY <1>4 DEF Whole, RamTypeOK
  <1>6. Over(file[e].text, t) \in Seq(Char)
    BY <1>5, OverIs DEF File
  <1> DEFINE f == [file[e] EXCEPT !.text = Over(file[e].text, t)]
  <1>7. f \in File /\ f.name = file[e].name /\ f # NULL
    BY <1>5, <1>6, RamdiskAssumption DEF File, RamdiskAssumption
  <1>8. file' = [file EXCEPT ![e] = f]
    BY <1>2
  <1> HIDE DEF f
  <1>9. file' \in [Node -> File \cup {NULL}] /\ file'[e] = f /\ \A x \in Node \ {e} : file'[x] = file[x]
    BY <1>4, <1>5, <1>7, <1>8 DEF RamTypeOK
  <1>10. \A x \in Node : Whole(x)' = Whole(x) /\ (Whole(x) => file'[x].name = file[x].name)
    BY <1>4, <1>7, <1>9 DEF Whole
  <1>11. RamTypeOK'
    BY <1>1, <1>4, <1>9 DEF RamTypeOK
  <1>12. OnlyMidway'
    BY <1>1, <1>4, <1>10 DEF OnlyMidway, RamTypeOK
  <1>13. Linked(up, home, m)' /\ Sorted(home)'
    BY <1>1, <1>3, <1>4, <1>9, <1>10 DEF Linked, Sorted, RamTypeOK
  <1> QED BY <1>11, <1>12, <1>13 DEF RamInv

(* What a removal leaves of the files.                                     *)
LEMMA ReleaseIs ==
  ASSUME RamInv, NEW e \in live, hand.at = "idle", Release(e), NEW home, Sorted(home)
  PROVE  /\ live' = live \ {e} /\ UNCHANGED <<hand, failed, fault>>
         /\ file' \in [Node -> File \cup {NULL}] /\ hand' = Resting
         /\ Sorted(home)' /\ OnlyMidway'
  <1>1. live' = live \ {e} /\ file' = [file EXCEPT ![e] = NULL] /\ UNCHANGED <<hand, failed, fault>> /\ RamTypeOK /\ OnlyMidway
    BY DEF Release, RamInv
  <1>2. file' \in [Node -> File \cup {NULL}] /\ file'[e] = NULL /\ \A x \in Node \ {e} : file'[x] = file[x]
    BY <1>1 DEF RamTypeOK
  <1>3. hand' = Resting
    BY <1>1 DEF RamTypeOK
  <1>4. Sorted(home)'
    BY <1>1, <1>2 DEF Sorted, Whole, RamTypeOK
  <1>5. OnlyMidway'
    BY <1>1, <1>2 DEF OnlyMidway, Whole, RamTypeOK
  <1> QED BY <1>1, <1>2, <1>3, <1>4, <1>5

LEMMA RemoveOnlyInv ==
  ASSUME RamInv, NEW b \in Bucket, hand.at = "idle", files_table[b] # NULL, next[files_table[b]] = NULL, RemoveOnly(b)
  PROVE  RamInv'
  <1>1. PICK up, home, m : Linked(up, home, m) /\ Sorted(home)
    BY DEF RamInv
  <1> DEFINE e == files_table[b]
  <1>2. e \in live /\ home[e] = b /\ live \subseteq Node /\ RamTypeOK
    BY <1>1 DEF Linked, RamInv, RamTypeOK
  <1>3. files_table' = [files_table EXCEPT ![b] = NULL] /\ Release(e) /\ UNCHANGED next
    BY DEF RemoveOnly
  <1>4. Chain(b) = {e}
    <2>1. {e} \in {S \in SUBSET Node : e \in S /\ \A x \in S : next[x] # NULL => next[x] \in S}
      BY <1>2
    <2>2. Chain(b) \subseteq {e}
      BY <2>1 DEF Chain, From
    <2>3. e \in Chain(b)
      BY <1>1, <1>2, FromIn DEF Chain
    <2> QED BY <2>2, <2>3
  <1>5. \A x \in live : home[x] = b => x = e
    BY <1>1, <1>2, <1>4, RamdiskAssumption, ChainIs DEF RamdiskAssumption
  <1>6. /\ files_table' \in [Bucket -> Node \cup {NULL}] /\ files_table'[b] = NULL
        /\ \A c \in Bucket \ {b} : files_table'[c] = files_table[c]
    BY <1>2, <1>3 DEF RamTypeOK
  <1> HIDE DEF e
  <1>7. /\ live' = live \ {e} /\ UNCHANGED <<hand, failed, fault>>
        /\ file' \in [Node -> File \cup {NULL}] /\ hand' = Resting
        /\ Sorted(home)' /\ OnlyMidway'
    BY <1>1, <1>2, <1>3, ReleaseIs
  <1>8. RamTypeOK'
    BY <1>2, <1>3, <1>6, <1>7 DEF RamTypeOK
  <1>9. next[e] = NULL
    BY DEF e
  <1>10. Linked(up, home, m)'
    <2>1. \A x \in live' : next'[x] # NULL => /\ next'[x] \in live' /\ up[x] < up[next'[x]]
                                            /\ home[next'[x]] = home[x] /\ next'[x] # files_table'[home[x]]
      BY <1>1, <1>2, <1>3, <1>5, <1>6, <1>7 DEF Linked
    <2>2. \A c \in Bucket : files_table'[c] # NULL => files_table'[c] \in live' /\ home[files_table'[c]] = c
      BY <1>1, <1>2, <1>6, <1>7 DEF Linked
    <2>3. ASSUME NEW x \in live' PROVE x = files_table'[home[x]] \/ \E w \in live' : next'[w] = x
      <3>1. x \in live /\ home[x] # b /\ home[x] \in Bucket
        BY <1>1, <1>5, <1>7 DEF Linked
      <3>2. files_table'[home[x]] = files_table[home[x]]
        BY <1>6, <3>1
      <3>3. x # NULL
        BY <1>2, <3>1, RamdiskAssumption DEF RamdiskAssumption
      <3> QED BY <1>1, <1>3, <1>7, <1>9, <3>1, <3>2, <3>3 DEF Linked
    <2>4. \A x \in Node \ live' : next'[x] = NULL
      BY <1>1, <1>3, <1>7, <1>9 DEF Linked
    <2>5. /\ up \in [Node -> Nat] /\ home \in [Node -> Nat] /\ m \in Nat
          /\ \A x \in live' : up[x] <= m /\ home[x] \in Bucket
          /\ \A x, y \in live' : next'[x] = next'[y] /\ next'[x] # NULL => x = y
      BY <1>1, <1>3, <1>7 DEF Linked
    <2> QED BY <2>1, <2>2, <2>3, <2>4, <2>5 DEF Linked
  <1> QED BY <1>7, <1>8, <1>10 DEF RamInv

LEMMA RemoveBehindInv ==
  ASSUME RamInv, NEW b \in Bucket, NEW n, hand.at = "idle", files_table[b] # NULL, next[files_table[b]] # NULL,
         RemoveBehind(b, n)
  PROVE  RamInv'
  <1>1. PICK up, home, m : Linked(up, home, m) /\ Sorted(home)
    BY DEF RamInv
  <1>2. live \subseteq Node /\ NULL \notin Node /\ RamTypeOK
    BY RamdiskAssumption DEF RamInv, RamTypeOK, RamdiskAssumption
  <1>3. PICK p \in Chain(b), e \in Hit(next[files_table[b]], n) :
           /\ next[p] = e
           /\ next' = [next EXCEPT ![p] = next[e], ![e] = NULL]
           /\ Release(e)
           /\ UNCHANGED files_table
    BY DEF RemoveBehind
  <1>4. e \in live /\ p \in live /\ home[p] = b
    BY <1>1, <1>2, <1>3, HitIs, ChainIs
  <1>5. e # NULL /\ e # p /\ home[e] = b /\ up[p] < up[e] /\ e # files_table[b]
    BY <1>1, <1>2, <1>3, <1>4 DEF Linked
  <1>6. /\ live' = live \ {e} /\ UNCHANGED <<hand, failed, fault>>
        /\ file' \in [Node -> File \cup {NULL}] /\ hand' = Resting
        /\ Sorted(home)' /\ OnlyMidway'
    BY <1>1, <1>3, <1>4, ReleaseIs
  <1>7. /\ next' \in [Node -> Node \cup {NULL}] /\ next'[p] = next[e] /\ next'[e] = NULL
        /\ \A x \in Node \ {p, e} : next'[x] = next[x]
    BY <1>2, <1>3, <1>4, <1>5 DEF RamTypeOK
  <1>8. RamTypeOK'
    BY <1>2, <1>3, <1>6, <1>7 DEF RamTypeOK
  <1>9. Linked(up, home, m)'
    <2>1. ASSUME NEW x \in live', next'[x] # NULL
          PROVE  /\ next'[x] \in live' /\ up[x] < up[next'[x]]
                 /\ home[next'[x]] = home[x] /\ next'[x] # files_table'[home[x]]
      <3>1. CASE x = p
        <4>1. /\ next[e] # NULL /\ next[e] \in live /\ up[e] < up[next[e]]
              /\ home[next[e]] = home[e] /\ next[e] # files_table[home[e]]
          BY <1>1, <1>4, <1>7, <2>1, <3>1 DEF Linked
        <4>2. up[p] \in Nat /\ up[e] \in Nat /\ up[next[e]] \in Nat
          BY <1>1, <1>2, <1>4, <4>1 DEF Linked
        <4>3. next[e] # e
          BY <4>1, <4>2
        <4> QED BY <1>3, <1>4, <1>5, <1>6, <1>7, <3>1, <4>1, <4>2, <4>3
      <3>2. CASE x # p
        <4>1. x \in live /\ x # e /\ next'[x] = next[x]
          BY <1>2, <1>6, <1>7, <3>2
        <4>2. next[x] # e
          BY <1>1, <1>3, <1>4, <1>5, <3>2, <4>1 DEF Linked
        <4> QED BY <1>1, <1>3, <1>6, <2>1, <4>1, <4>2 DEF Linked
      <3> QED BY <3>1, <3>2
    <2>2. \A c \in Bucket : files_table'[c] # NULL => files_table'[c] \in live' /\ home[files_table'[c]] = c
      BY <1>1, <1>3, <1>5, <1>6 DEF Linked
    <2>3. ASSUME NEW x \in live' PROVE x = files_table'[home[x]] \/ \E w \in live' : next'[w] = x
      <3>1. x \in live /\ x # e
        BY <1>6
      <3>2. CASE x = next[e]
        BY <1>4, <1>5, <1>6, <1>7, <3>2
      <3>3. CASE x # next[e]
        <4>1. ASSUME NEW w \in live, next[w] = x PROVE w \in live' /\ next'[w] = x
          BY <1>2, <1>3, <1>6, <1>7, <3>1, <3>3, <4>1
        <4> QED BY <1>1, <1>3, <3>1, <4>1 DEF Linked
      <3> QED BY <3>2, <3>3
    <2>4. \A x \in Node \ live' : next'[x] = NULL
      BY <1>1, <1>2, <1>4, <1>6, <1>7 DEF Linked
    <2>5. ASSUME NEW x \in live', NEW y \in live', next'[x] = next'[y], next'[x] # NULL PROVE x = y
      <3>1. x \in live /\ y \in live /\ x # e /\ y # e
        BY <1>6
      <3>2. CASE x = p /\ y # p
        <4>1. next[e] = next[y] /\ next[e] # NULL
          BY <1>2, <1>7, <2>5, <3>1, <3>2
        <4> QED BY <1>1, <1>4, <3>1, <4>1 DEF Linked
      <3>3. CASE y = p /\ x # p
        <4>1. next[e] = next[x] /\ next[e] # NULL
          BY <1>2, <1>7, <2>5, <3>1, <3>3
        <4> QED BY <1>1, <1>4, <3>1, <4>1 DEF Linked
      <3>4. CASE x # p /\ y # p
        <4>1. next[x] = next[y] /\ next[x] # NULL
          BY <1>2, <1>7, <2>5, <3>1, <3>4
        <4> QED BY <1>1, <3>1, <4>1 DEF Linked
      <3> QED BY <3>2, <3>3, <3>4
    <2>6. /\ up \in [Node -> Nat] /\ home \in [Node -> Nat] /\ m \in Nat
          /\ \A x \in live' : up[x] <= m /\ home[x] \in Bucket
      BY <1>1, <1>6 DEF Linked
    <2> QED BY <2>1, <2>2, <2>3, <2>4, <2>5, <2>6 DEF Linked
  <1> QED BY <1>6, <1>8, <1>9 DEF RamInv

LEMMA RemoveInv ==
  ASSUME RamInv, NEW n \in Name, ramdisk_remove(n)
  PROVE  RamInv'
  <1> DEFINE b == hash[n]
             h == files_table[b]
  <1>1. b \in Bucket /\ hand.at = "idle" /\ h # NULL
    BY RamdiskAssumption DEF RamdiskAssumption, ramdisk_remove, Ready
  <1>2. CASE next[h] = NULL /\ RemoveOnly(b)
    BY <1>1, <1>2, RemoveOnlyInv
  <1>3. CASE next[h] = NULL /\ file[h] = NULL /\ Down("half")
    <2>1. h \in live /\ ~Whole(h)
      BY <1>1, <1>3 DEF RamInv, Linked, Whole
    <2>2. failed
      BY <1>1, <2>1 DEF RamInv, OnlyMidway
    <2> QED BY <1>3, <2>2, DownInv
  <1>4. CASE next[h] # NULL /\ RemoveBehind(b, n)
    BY <1>1, <1>4, RemoveBehindInv
  <1>5. CASE Miss(next[h], n)
    BY <1>1, <1>5, MissInv
  <1> QED BY <1>2, <1>3, <1>4, <1>5 DEF ramdisk_remove

LEMMA GetallInv ==
  ASSUME RamInv, NEW p \in Path, ramdisk_getall(p)
  PROVE  RamInv'
  <1>1. PICK b \in Bucket : \E e \in Met(files_table[b], Trap[p]) :
                               /\ \A c \in Bucket : c < b => Met(files_table[c], Trap[p]) = {}
                               /\ \/ ~Whole(e) /\ Down("half")
                                  \/ Whole(e) /\ Down("loop")
    BY Zenon DEF ramdisk_getall
  <1>2. PICK e \in Met(files_table[b], Trap[p]) :
           \/ ~Whole(e) /\ Down("half")
           \/ Whole(e) /\ Down("loop")
    BY <1>1
  <1>3. e \in live
    BY DEF Met, Stops
  <1>4. ~Whole(e) => failed \/ hand.at # "idle"
    BY <1>3 DEF RamInv, OnlyMidway
  <1> QED BY <1>2, <1>4, DownInv

LEMMA RamStepInv == RamInv /\ [RamNext]_ramVars => RamInv'
  <1> SUFFICES ASSUME RamInv, [RamNext]_ramVars PROVE RamInv'
    OBVIOUS
  <1>1. ASSUME NEW n \in Name, ramdisk_get(n) PROVE RamInv'
    BY <1>1, MissInv DEF ramdisk_get, Ready
  <1>2. ASSUME NEW n \in Name, ramdisk_remove(n) PROVE RamInv'
    BY <1>2, RemoveInv
  <1>3. ASSUME NEW n \in Name, NEW d \in BOOLEAN, Create(n, d) PROVE RamInv'
    BY <1>3, CreateInv
  <1>4. ASSUME NEW n \in Name, NEW t \in Texts, ramdisk_write(n, t) PROVE RamInv'
    BY <1>4, WriteInv
  <1>5. CASE CreateFile
    BY <1>5, CreateFileInv
  <1>6. CASE CreateName
    BY <1>6, CreateNameInv
  <1>7. ASSUME NEW p \in Path, ramdisk_getall(p) PROVE RamInv'
    BY <1>7, GetallInv
  <1>8. CASE UNCHANGED ramVars
    <2>1. UNCHANGED <<files_table, next, live, file, hand, failed, fault>>
      BY <1>8 DEF ramVars, lists
    <2>2. RamTypeOK' /\ OnlyMidway'
      BY <2>1 DEF RamInv, RamTypeOK, OnlyMidway, Whole
    <2>3. PICK up, home, m : Linked(up, home, m) /\ Sorted(home)
      BY DEF RamInv
    <2>4. Linked(up, home, m)' /\ Sorted(home)'
      BY <2>1, <2>3 DEF Linked, Sorted, Whole
    <2> QED BY <2>2, <2>4 DEF RamInv
  <1> QED BY <1>1, <1>2, <1>3, <1>4, <1>5, <1>6, <1>7, <1>8 DEF RamNext

LEMMA RamInductive == RamSpec => []RamInv
  BY RamInitInv, RamStepInv, PTL DEF RamSpec

(* The shell's place in a creation is a struct that is allocated, with a   *)
(* name; links lead to structs or end (create_new_ramdisk_file 116-153).   *)
THEOREM RamTypes == RamSpec => []RamTypeOK
  <1>1. RamInv => RamTypeOK
    BY DEF RamInv
  <1> QED BY <1>1, RamInductive, PTL

(* A listing in the middle of a creation is the only one to meet a half    *)
(* made entry, unless an allocation failed (141-150, 216, 229).            *)
THEOREM OnlyMidwayHolds == RamSpec => []OnlyMidway
  <1>1. RamInv => OnlyMidway
    BY DEF RamInv
  <1> QED BY <1>1, RamInductive, PTL

(* The lists are whole and apart, whatever is created and removed, and in  *)
(* the middle of it (130-139, 251-261).                                    *)
THEOREM ChainsIntactHolds == RamSpec => []ChainsIntact
  <1>1. ASSUME RamInv PROVE ChainsIntact
    <2>1. PICK up, home, m : Linked(up, home, m) /\ Sorted(home)
      BY <1>1 DEF RamInv
    <2>2. live \subseteq Node /\ NULL \notin Node
      BY <1>1, RamdiskAssumption DEF RamInv, RamTypeOK, RamdiskAssumption
    <2>3. \A b \in Bucket : Chain(b) = {x \in live : home[x] = b}
      BY <2>1, <2>2, ChainIs
    <2>4. \A x \in live : home[x] \in Bucket
      BY <2>1 DEF Linked
    <2>5. \A b \in Bucket : files_table[b] # NULL => Ends(b) # {}
      BY <2>1, <2>2, EndIs
    <2>6. live = UNION {Chain(b) : b \in Bucket}
      BY <2>3, <2>4
    <2>7. \A e \in live : Whole(e) => e \in Chain(hash[file[e].name])
      BY <2>1, <2>3, <2>4 DEF Sorted
    <2>8. RamTypeOK
      BY <1>1 DEF RamInv
    <2> QED BY <2>3, <2>5, <2>6, <2>7, <2>8 DEF ChainsIntact
  <1> QED BY <1>1, RamInductive, PTL

(* A write to one name leaves the files of all others alone (188-206), and *)
(* so does a removal, but for the only one of its list (242-266).          *)
THEOREM OthersKeptHolds == RamSpec => OthersKept
  <1> DEFINE Kept == \A n \in Name, e \in live :
                        e \notin live' \/ file'[e] # file[e] =>
                          /\ (\E t \in Texts : ramdisk_write(n, t)) => file[e].name = n
                          /\ ramdisk_remove(n) => file[e].name = n \/ Chain(hash[n]) = {e}
  <1>1. ASSUME RamInv, [RamNext]_ramVars PROVE [Kept]_ramVars
    <2> SUFFICES ASSUME NEW n \in Name, NEW e \in live, e \notin live' \/ file'[e] # file[e]
                 PROVE  /\ (\E t \in Texts : ramdisk_write(n, t)) => file[e].name = n
                        /\ ramdisk_remove(n) => file[e].name = n \/ Chain(hash[n]) = {e}
      OBVIOUS
    <2> DEFINE b == hash[n]
               h == files_table[b]
    <2>1. e \in Node /\ file \in [Node -> File \cup {NULL}] /\ live \subseteq Node
      BY <1>1 DEF RamInv, RamTypeOK
    <2>2. ASSUME NEW x, Release(x) PROVE x = e
      BY <2>1, <2>2 DEF Release
    <2>3. ASSUME NEW kind, Down(kind) PROVE FALSE
      BY <2>3 DEF Down, lists
    <2>4. ASSUME NEW t \in Texts, ramdisk_write(n, t) PROVE file[e].name = n
      <3>1. PICK x \in Hit(h, n) : file' = [file EXCEPT ![x].text = Over(@, t)]
        BY <2>4 DEF ramdisk_write
      <3>2. live' = live
        BY <2>4 DEF ramdisk_write, lists
      <3>3. x = e
        BY <2>1, <3>1, <3>2
      <3> QED BY <3>1, <3>3, HitIs
    <2>5. ASSUME next[h] = NULL, RemoveOnly(b) PROVE Chain(b) = {e}
      <3>1. h = e
        BY <2>2, <2>5 DEF RemoveOnly
      <3>2. {e} \in {S \in SUBSET Node : e \in S /\ \A x \in S : next[x] # NULL => next[x] \in S}
        BY <2>1, <2>5, <3>1
      <3>3. Chain(b) \subseteq {e}
        BY <3>1, <3>2 DEF Chain, From
      <3>4. e \in Chain(b)
        BY <2>1, <3>1 DEF Chain, From
      <3> QED BY <3>3, <3>4
    <2>6. ASSUME RemoveBehind(b, n) PROVE file[e].name = n
      <3>1. PICK x \in Hit(next[h], n) : Release(x)
        BY <2>6 DEF RemoveBehind
      <3> QED BY <2>2, <3>1, HitIs
    <2>7. ASSUME NEW x, Miss(x, n) PROVE FALSE
      BY <2>3, <2>7 DEF Miss
    <2>8. ramdisk_remove(n) => Chain(b) = {e} \/ file[e].name = n
      BY <2>3, <2>5, <2>6, <2>7 DEF ramdisk_remove, Ready
    <2> QED BY <2>4, <2>8
  <1> QED BY <1>1, RamInductive, PTL DEF RamSpec, OthersKept

=============================================================================
