---------------------------- MODULE TasksProofs ----------------------------
(***************************************************************************)
(* Theorems about the task tree, for any number of tasks and any bound on  *)
(* creations.                                                              *)
(***************************************************************************)
EXTENDS Tasks, TLAPS

USE TaskAssumption DEF Unlinked

Local == [new : Ptr, head : Ptr, last : Ptr]

LEMMA NoLocalType == NoLocal \in Local
  BY DEF NoLocal, Local, Ptr

(* Where schedule() goes is a struct, and what it writes is a pointer. *)
LEMMA TargetType ==
  ASSUME NEW c \in Task, NEW nx \in [Task -> Ptr], NEW nb \in [Task -> Ptr]
  PROVE  Target(c, nx) \in Task /\ Rotate(c, nx, nb) \in [Task -> Ptr]
  BY DEF Target, Rotate, Stays, Ptr

LEMMA NextWithoutType ==
  ASSUME TypeOK, NEW t \in Task
  PROVE  NextWithout(t) \in [Task -> Ptr]
  BY DEF TypeOK, NextWithout, InRing, Ptr

LEMMA KillWithType ==
  ASSUME TypeOK, fault = "none", NEW c \in Task, NEW t \in Task,
         NEW nb \in [Task -> Ptr], KillWith(c, t, nb)
  PROVE  TypeOK'
  <1> USE DEF TypeOK, KillWith, Remove
  <1>1. /\ Target(c, NextWithout(t)) \in Task
        /\ NextWithout(t) \in [Task -> Ptr]
        /\ Rotate(c, NextWithout(t), nb) \in [Task -> Ptr]
    BY TargetType, NextWithoutType
  <1>2. /\ next' \in [Task -> Ptr]
        /\ current' \in Task
        /\ fault' \in {"none", "unbuilt", "hang"}
    BY <1>1 DEF SwitchTo
  <1>3. torn' \in BOOLEAN
    OBVIOUS
  <1> QED BY <1>2, <1>3

LEMMA InitType == Init => TypeOK
  <1> SUFFICES ASSUME Init PROVE TypeOK
    OBVIOUS
  <1>1. ready \in [Task -> BOOLEAN] /\ torn \in BOOLEAN
    BY Zenon DEF Init
  <1>2. loc \in [Task -> Local]
    BY NoLocalType DEF Init
  <1>3. parent \in [Task -> Ptr] /\ next \in [Task -> Ptr] /\ neighbor \in [Task -> Ptr]
    BY DEF Init, Ptr
  <1> QED BY <1>1, <1>2, <1>3 DEF Init, TypeOK, PcValues, Local, Kinds

LEMMA StepType == TypeOK /\ [Next]_vars => TypeOK'
  <1> SUFFICES ASSUME TypeOK, [Next]_vars
               PROVE  TypeOK'
    OBVIOUS
  <1> USE DEF TypeOK, PcValues, Running, tree
  <1>1. ASSUME NEW c \in Task, NEW t \in Task, NEW k \in Kinds,
               CreateAlloc(c, t, k)
        PROVE  TypeOK'
    <2>1. loc' \in [Task -> Local]
      BY NoLocalType, <1>1 DEF CreateAlloc, NoLocal, Local, Ptr
    <2>2. ready' \in [Task -> BOOLEAN]
      BY <1>1 DEF CreateAlloc
    <2>3. parent' \in [Task -> Ptr] /\ next' \in [Task -> Ptr] /\ neighbor' \in [Task -> Ptr]
      BY <1>1 DEF CreateAlloc, Ptr
    <2>4. live' \subseteq Task /\ nextPid' \in Nat /\ pc' \in [Task -> PcValues]
      BY <1>1 DEF CreateAlloc
    <2>5. state' \in [Task -> {"READY", "DEAD"}] /\ kind' \in [Task -> Kinds]
      BY <1>1 DEF CreateAlloc
    <2>6. \A d \in Task : /\ pc'[d] \notin {"run", "dead"} => loc'[d].new \in Task
                          /\ pc'[d] \in {"walk", "join"} => loc'[d].last \in Task
      BY <1>1 DEF CreateAlloc, NoLocal
    <2> QED BY <2>1, <2>2, <2>3, <2>4, <2>5, <2>6, <1>1 DEF CreateAlloc, Local
  <1>2. ASSUME NEW c \in Task, CreateFirst(c) PROVE TypeOK'
    BY <1>2 DEF CreateFirst, Ptr, Local
  <1>3. ASSUME NEW c \in Task, CreateWalk(c) PROVE TypeOK'
    <2>1. CASE UNCHANGED <<loc, fault>> /\ pc' = [pc EXCEPT ![c] = "join"]
      BY <1>3, <2>1 DEF CreateWalk
    <2>2. CASE WalkOn(c) /\ UNCHANGED pc
      <3>1. CASE UNCHANGED loc
        BY <1>3, <2>2, <3>1 DEF CreateWalk, WalkOn
      <3>2. CASE neighbor[loc[c].last] # NULL /\ loc' = [loc EXCEPT ![c].last = neighbor[@]]
        <4>1. loc[c].last \in Task /\ neighbor[loc[c].last] \in Task
          BY <1>3, <3>2 DEF CreateWalk, Ptr
        <4>2. loc' \in [Task -> Local]
          BY <3>2, <4>1 DEF Local, Ptr
        <4>3. /\ \A d \in Task : loc'[d].new = loc[d].new
              /\ \A d \in Task \ {c} : loc'[d] = loc[d]
              /\ loc'[c].last \in Task
          BY <3>2, <4>1 DEF Local
        <4>4. UNCHANGED <<tree, current, nextPid, torn, orphans, pc, fault>>
          BY <1>3, <2>2, <3>2 DEF CreateWalk, WalkOn
        <4> QED BY <4>2, <4>3, <4>4 DEF Local
      <3> QED BY <2>2, <3>1, <3>2 DEF WalkOn
    <2> QED BY <1>3, <2>1, <2>2 DEF CreateWalk
  <1>4. ASSUME NEW c \in Task, CreateJoin(c) PROVE TypeOK'
    BY <1>4 DEF CreateJoin, Ptr, Local
  <1>5. ASSUME NEW c \in Task, CreateClose(c) PROVE TypeOK'
    BY <1>5 DEF CreateClose, Ptr, Local
  <1>6. ASSUME NEW c \in Task, CreateStack(c) PROVE TypeOK'
    BY <1>6 DEF CreateStack, Ptr, Local
  <1>7. ASSUME NEW c \in Task, CreateList(c) PROVE TypeOK'
    <2>1. reg' \subseteq Task
      BY <1>7 DEF CreateList
    <2>2. CASE kind[loc[c].new] = "user"
      BY <1>7, <2>1, <2>2 DEF CreateList
    <2>3. CASE kind[loc[c].new] # "user"
      <3>1. loc' \in [Task -> Local] /\ pc' \in [Task -> PcValues]
        BY <1>7, <2>3, NoLocalType, SMTT(30) DEF CreateList, Local
      <3>2. \A d \in Task : pc'[d] \notin {"run", "dead"} => loc'[d].new \in Task
        BY <1>7, <2>3 DEF CreateList
      <3> QED BY <1>7, <2>1, <3>1, <3>2 DEF CreateList, Local
    <2> QED BY <2>2, <2>3
  <1>8. ASSUME NEW c \in Task, ExecMap(c) PROVE TypeOK'
    BY <1>8, NoLocalType DEF ExecMap, Ptr, Local
  <1>9. ASSUME NEW c \in Task, TaskReturn(c) PROVE TypeOK'
    BY <1>9 DEF TaskReturn
  <1>10. ASSUME Schedule PROVE TypeOK'
    BY <1>10, TargetType DEF Schedule, SwitchTo
  <1>11. ASSUME NEW c \in Task, NEW t \in Task, Kill(c, t) PROVE TypeOK'
    <2>1. CASE KillWith(c, t, neighbor)
      BY <1>11, <2>1, KillWithType DEF Kill, MayKillNow
    <2>2. ASSUME NEW p \in Prev(t),
                 KillWith(c, t, [neighbor EXCEPT ![p] = neighbor[t]])
          PROVE  TypeOK'
      <3>1. [neighbor EXCEPT ![p] = neighbor[t]] \in [Task -> Ptr]
        OBVIOUS
      <3> QED BY <1>11, <2>2, <3>1, KillWithType DEF Kill, MayKillNow
    <2> QED BY <1>11, <2>1, <2>2 DEF Kill
  <1>12. ASSUME NEW c \in Task, NEW t \in Task, KillHang(c, t) PROVE TypeOK'
    BY <1>12 DEF KillHang
  <1>13. ASSUME NEW c \in Task, CreateTest(c) PROVE TypeOK'
    BY <1>13 DEF CreateTest
  <1>14. ASSUME NEW c \in Task, CreateHead(c) PROVE TypeOK'
    <2>1. CASE UNCHANGED <<pc, loc>>
      BY <1>14, <2>1, ZenonT(30) DEF CreateHead
    <2>2. CASE next[c] # NULL
      <3>1. next[c] \in Task
        BY <2>2 DEF Ptr
      <3> DEFINE r == [loc[c] EXCEPT !.head = next[c], !.last = next[c]]
      <3>2. r \in Local /\ r.new = loc[c].new /\ r.last = next[c]
        <4>1. loc[c] \in Local
          BY DEF Local
        <4> QED BY <3>1, <4>1 DEF Local, Ptr
      <3>3. loc' = [loc EXCEPT ![c] = r]
        <4>1. loc' = [loc EXCEPT ![c].head = next[c], ![c].last = next[c]]
          BY <1>14, <2>2 DEF CreateHead
        <4>2. [loc EXCEPT ![c].head = next[c], ![c].last = next[c]] = [loc EXCEPT ![c] = r]
          OBVIOUS
        <4> QED BY <4>1, <4>2
      <3> HIDE DEF r
      <3>4. loc' \in [Task -> Local]
        BY <3>2, <3>3 DEF Local
      <3>5. /\ \A d \in Task : loc'[d].new = loc[d].new
            /\ \A d \in Task \ {c} : loc'[d] = loc[d]
            /\ loc'[c].last \in Task
        BY <3>1, <3>2, <3>3
      <3>6. /\ pc' = [pc EXCEPT ![c] = "walk"]
            /\ UNCHANGED <<tree, current, nextPid, torn, orphans, fault>>
            /\ pc[c] = "head"
        BY <1>14, <2>2 DEF CreateHead
      <3> QED BY <3>4, <3>5, <3>6 DEF Local
    <2> QED BY <1>14, <2>1, <2>2 DEF CreateHead
  <1>15. CASE UNCHANGED vars
    BY <1>15 DEF vars
  <1> QED
    BY <1>1, <1>2, <1>3, <1>4, <1>5, <1>6, <1>7, <1>8, <1>9, <1>10, <1>11,
       <1>12, <1>13, <1>14, <1>15 DEF Next, Advance

(* Every variable keeps its type, and a create_task under way its struct. *)
THEOREM TypeCorrect == Spec => []TypeOK
  BY InitType, StepType, PTL DEF Spec

-----------------------------------------------------------------------------
(***************************************************************************)
(* The inductive invariant behind SiblingRings, NextChild and CurrentAlive *)
(* adds what the locals of a create_task under way stand for, and that the *)
(* task lists only name linked tasks, so that kill_task always finds its   *)
(* target in a ring.                                                       *)
(***************************************************************************)
Creation(c) ==
  /\ pc[c] \notin {"run", "dead"} => loc[c].new \in live /\ parent[loc[c].new] = c
  /\ pc[c] \in Unlinked \cup {"close"} => neighbor[loc[c].new] = NULL
  /\ pc[c] = "head" => next[c] # NULL
  /\ pc[c] \in {"walk", "join", "close"} => loc[c].head \in Linked /\ parent[loc[c].head] = c
  /\ pc[c] \in {"walk", "join"} => loc[c].last \in Linked /\ parent[loc[c].last] = c
  /\ pc[c] = "join" => neighbor[loc[c].last] = loc[c].head

Lineage(t) == parent[t] # t /\ (t # main => parent[t] # NULL)

InRings(t) ==
  /\ Follower(t) \in Linked
  /\ parent[Follower(t)] = parent[t]
  /\ \A u \in Linked : Follower(u) = Follower(t) => u = t

OwnChild(p) == next[p] # NULL => next[p] \in Linked /\ parent[next[p]] = p

Shape ==
  /\ main \in live /\ parent[main] = NULL
  /\ current \in live
  /\ reg \subseteq Linked \cup {main}
  /\ \A t \in live : Lineage(t) /\ Creation(t) /\ OwnChild(t)
  /\ \A t \in Linked : InRings(t)

TreeInv == TypeOK /\ (~torn => Shape)

LEMMA TreeInvSuffices == TreeInv => SiblingRings /\ NextChild /\ CurrentAlive
  BY DEF TreeInv, Shape, InRings, OwnChild, SiblingRings, NextChild, CurrentAlive

(* A walk along neighbor stays in a set it starts in and never leaves. *)
LEMMA OrbitIn ==
  ASSUME NEW f, NEW t, NEW S \in SUBSET Task,
         t \in S, \A v \in S : f[v] \in S \cup {NULL}
  PROVE  Orbit(f, t) \subseteq S
  BY DEF Orbit

(* Where the ring of t is not being extended, the walk finds a sibling.    *)
LEMMA WalkFindsSibling ==
  ASSUME TypeOK, Shape, NEW t \in Linked, NEW goal,
         ~(parent[t] \in live /\ pc[parent[t]] = "close"),
         NEW u \in WalkTo(t, goal)
  PROVE  /\ u \in Linked
         /\ parent[u] = parent[t]
         /\ Follower(u) = goal
         /\ neighbor[u] = goal
  <1> DEFINE S == {v \in Linked : parent[v] = parent[t]}
  <1>1. \A v \in S : Follower(v) = neighbor[v]
    BY DEF Follower, Building
  <1>2. \A v \in S : neighbor[v] \in S
    BY <1>1 DEF Shape, InRings
  <1>3. S \in SUBSET Task
    BY DEF TypeOK, Linked
  <1>4. Orbit(neighbor, t) \subseteq S
    BY <1>2, <1>3, OrbitIn
  <1>5. u \in S /\ neighbor[u] = goal
    BY <1>4 DEF WalkTo
  <1> QED BY <1>1, <1>5

(* Steps that touch neither the tree nor a creation under way.             *)
LEMMA TreeKept ==
  ASSUME Shape, UNCHANGED <<live, parent, next, neighbor, reg, current, pc, loc>>
  PROVE  Shape'
  <1>1. /\ live' = live /\ parent' = parent /\ next' = next /\ neighbor' = neighbor
        /\ reg' = reg /\ current' = current /\ pc' = pc /\ loc' = loc
    OBVIOUS
  <1>2. Linked' = Linked
    BY <1>1 DEF Linked, Building
  <1>3. \A u \in Linked : Follower(u)' = Follower(u)
    BY <1>1 DEF Follower, Building
  <1>4. \A u \in Linked' : InRings(u)'
    BY <1>1, <1>2, <1>3 DEF Shape, InRings
  <1>5. \A u \in live' : Lineage(u)' /\ OwnChild(u)'
    BY <1>1, <1>2 DEF Shape, Lineage, OwnChild
  <1>6. \A u \in live' : Creation(u)'
    BY <1>1, <1>2 DEF Shape, Creation
  <1> QED BY <1>1, <1>2, <1>4, <1>5, <1>6 DEF Shape

LEMMA InitTree == Init => TreeInv
  <1> SUFFICES ASSUME Init PROVE Shape
    BY InitType DEF TreeInv
  <1>1. Linked = {}
    BY DEF Init, Linked
  <1> QED BY <1>1 DEF Init, Shape, Lineage, Creation, OwnChild

LEMMA AllocTree ==
  ASSUME TypeOK, Shape, NEW c \in Task, NEW t \in Task, NEW k \in Kinds,
         CreateAlloc(c, t, k)
  PROVE  Shape'
  <1> USE DEF TypeOK, CreateAlloc, Running
  <1>1. c \in live /\ t # c /\ t # main
    BY DEF Shape
  <1>2. /\ loc' = [loc EXCEPT ![c] = [NoLocal EXCEPT !.new = t], ![t] = NoLocal]
        /\ loc'[c].new = t
        /\ \A d \in Task \ {c, t} : loc'[d] = loc[d]
    BY <1>1 DEF NoLocal
  <1>3. \A u \in live : Building(u, Unlinked)' <=> Building(u, Unlinked)
    BY <1>1, <1>2 DEF Building, Shape, Creation
  <1>4. Building(t, Unlinked)'
    BY <1>1, <1>2 DEF Building
  <1>5. Linked' = Linked
    BY <1>1, <1>3, <1>4 DEF Linked, Shape
  <1>6. \A u \in live : Building(u, {"close"})' <=> Building(u, {"close"})
    BY <1>1, <1>2 DEF Building, Shape, Creation
  <1>7. \A u \in Linked : Follower(u)' = Follower(u)
    BY <1>1, <1>2, <1>6 DEF Follower, Linked, Building
  <1>8. \A u \in Linked : InRings(u)'
    BY <1>1, <1>5, <1>7 DEF Shape, InRings, Linked
  <1>9. \A u \in live' : Lineage(u)'
    BY <1>1 DEF Shape, Lineage
  <1>10. \A u \in live' : OwnChild(u)'
    BY <1>1, <1>5 DEF Shape, OwnChild, Linked
  <1>11. \A u \in live' : Creation(u)'
    BY <1>1, <1>2, <1>5 DEF Shape, Creation, Linked
  <1> QED BY <1>1, <1>5, <1>8, <1>9, <1>10, <1>11 DEF Shape

LEMMA FirstTree ==
  ASSUME TypeOK, Shape, NEW c \in Task, CreateFirst(c)
  PROVE  Shape'
  <1> DEFINE n == loc[c].new
  <1> USE DEF TypeOK, CreateFirst, Running
  <1>1. /\ c \in live /\ n \in live /\ parent[n] = c /\ n # c /\ n # main
        /\ n \notin Linked
    BY DEF Shape, Creation, Lineage, Linked, Building
  <1>2. Linked' = Linked \cup {n}
    BY <1>1 DEF Linked, Building, Shape
  <1>3. \A u \in Linked : Building(u, {"close"})' <=> Building(u, {"close"})
    BY <1>1 DEF Building, Linked
  <1>4. \A u \in Linked : Follower(u)' = Follower(u)
    BY <1>1, <1>3 DEF Follower, Linked
  <1>5. Follower(n)' = n
    BY <1>1 DEF Follower, Building
  <1>6. \A u \in Linked' : InRings(u)'
    BY <1>1, <1>2, <1>4, <1>5 DEF Shape, InRings
  <1>7. \A u \in live' : Lineage(u)' /\ OwnChild(u)'
    BY <1>1, <1>2 DEF Shape, Lineage, OwnChild
  <1>8. \A u \in live' : Creation(u)'
    BY <1>1, <1>2 DEF Shape, Creation
  <1> QED BY <1>1, <1>2, <1>6, <1>7, <1>8 DEF Shape

(* A step that moves task c on inside create_task before its first store.  *)
LEMMA WithinTree ==
  ASSUME TypeOK, Shape, NEW c \in live,
         UNCHANGED <<live, parent, next, neighbor, reg, current>>,
         \A d \in Task : d # c => loc'[d] = loc[d] /\ pc'[d] = pc[d],
         pc[c] \in Unlinked, pc'[c] \in Unlinked, loc'[c].new = loc[c].new,
         pc'[c] = "head" => next[c] # NULL,
         pc'[c] \in {"walk", "join"} =>
            /\ loc'[c].head \in Linked /\ parent[loc'[c].head] = c
            /\ loc'[c].last \in Linked /\ parent[loc'[c].last] = c,
         pc'[c] = "join" => neighbor[loc'[c].last] = loc'[c].head
  PROVE  Shape'
  <1> USE DEF TypeOK
  <1>1. Linked' = Linked
    BY DEF Linked, Building
  <1>2. \A u \in Linked : Follower(u)' = Follower(u)
    BY DEF Follower, Building, Linked
  <1>3. \A u \in Linked : InRings(u)'
    BY <1>1, <1>2 DEF Shape, InRings
  <1>4. \A u \in live' : Lineage(u)' /\ OwnChild(u)'
    BY <1>1 DEF Shape, Lineage, OwnChild
  <1>5. \A u \in live' : Creation(u)'
    BY <1>1 DEF Shape, Creation
  <1> QED BY <1>1, <1>3, <1>4, <1>5 DEF Shape

(* The child a create_task comes to is a linked child, too.                *)
LEMMA WalkStands ==
  ASSUME TypeOK, Shape, NEW c \in live, pc[c] = "walk"
  PROVE  /\ loc[c].last \in Linked /\ parent[loc[c].last] = c
         /\ loc[c].head \in Linked /\ parent[loc[c].head] = c
         /\ neighbor[loc[c].last] = Follower(loc[c].last)
         /\ neighbor[loc[c].last] \in Linked /\ parent[neighbor[loc[c].last]] = c
         /\ neighbor[loc[c].last] # NULL
  <1>1. /\ loc[c].last \in Linked /\ parent[loc[c].last] = c
        /\ loc[c].head \in Linked /\ parent[loc[c].head] = c
    BY DEF Shape, Creation
  <1>2. neighbor[loc[c].last] = Follower(loc[c].last)
    BY <1>1 DEF Follower, Building
  <1> QED BY <1>1, <1>2 DEF Shape, InRings, Linked, TypeOK

LEMMA SearchTree ==
  ASSUME TypeOK, Shape, NEW c \in Task, CreateTest(c) \/ CreateHead(c) \/ CreateWalk(c)
  PROVE  Shape' /\ fault' = "none"
  <1> USE DEF Running
  <1>1. /\ c \in live /\ current = c /\ fault = "none"
        /\ live' = live /\ parent' = parent /\ next' = next /\ neighbor' = neighbor
        /\ reg' = reg /\ current' = current
    BY DEF Shape, CreateTest, CreateHead, CreateWalk, tree
  <1>2. CASE CreateTest(c)
    <2>1. /\ pc[c] = "link" /\ pc'[c] = "head" /\ next[c] # NULL /\ loc' = loc /\ fault' = fault
          /\ \A d \in Task : d # c => pc'[d] = pc[d]
      BY <1>2 DEF CreateTest, TypeOK
    <2> QED BY <1>1, <2>1, WithinTree
  <1>3. CASE CreateHead(c)
    <2>1. pc[c] = "head" /\ next[c] # NULL
      BY <1>1, <1>3 DEF CreateHead, Shape, Creation
    <2>2. next[c] \in Linked /\ parent[next[c]] = c
      BY <1>1, <2>1 DEF Shape, OwnChild
    <2>3. /\ pc' = [pc EXCEPT ![c] = "walk"] /\ fault' = fault
          /\ loc' = [loc EXCEPT ![c].head = next[c], ![c].last = next[c]]
      BY <1>3, <2>1 DEF CreateHead
    <2>4. /\ pc'[c] = "walk" /\ loc'[c].head = next[c] /\ loc'[c].last = next[c]
          /\ loc'[c].new = loc[c].new
          /\ \A d \in Task : d # c => pc'[d] = pc[d] /\ loc'[d] = loc[d]
      BY <2>3 DEF TypeOK
    <2> QED BY <1>1, <2>1, <2>2, <2>3, <2>4, WithinTree
  <1>4. CASE CreateWalk(c)
    <2>1. pc[c] = "walk"
      BY <1>4 DEF CreateWalk
    <2> DEFINE l == loc[c].last
               h == loc[c].head
    <2>2. /\ l \in Linked /\ parent[l] = c /\ h \in Linked /\ parent[h] = c
          /\ neighbor[l] \in Linked /\ parent[neighbor[l]] = c /\ neighbor[l] # NULL
      BY <1>1, <2>1, WalkStands
    <2>3. CASE WalkOver(c) /\ pc' = [pc EXCEPT ![c] = "join"] /\ UNCHANGED <<loc, fault>>
      <3>1. pc'[c] = "join" /\ loc' = loc /\ neighbor[l] = h /\ fault' = fault
            /\ \A d \in Task : d # c => pc'[d] = pc[d]
        BY <2>3 DEF WalkOver, TypeOK
      <3> QED BY <1>1, <2>1, <2>2, <3>1, WithinTree
    <2>4. CASE WalkOn(c) /\ UNCHANGED pc
      <3>1. loc' = [loc EXCEPT ![c].last = neighbor[@]] /\ fault' = fault
        BY <2>2, <2>4 DEF WalkOn
      <3>2. /\ loc'[c].last = neighbor[l] /\ loc'[c].head = h /\ loc'[c].new = loc[c].new
            /\ \A d \in Task : d # c => loc'[d] = loc[d]
        BY <3>1 DEF TypeOK
      <3>3. pc' = pc
        BY <2>4
      <3> QED BY <1>1, <2>1, <2>2, <3>1, <3>2, <3>3, WithinTree
    <2> QED BY <1>4, <2>3, <2>4 DEF CreateWalk
  <1> QED BY <1>2, <1>3, <1>4

LEMMA JoinTree ==
  ASSUME TypeOK, Shape, NEW c \in Task, CreateJoin(c)
  PROVE  Shape'
  <1> DEFINE n == loc[c].new
             h == loc[c].head
             l == loc[c].last
  <1> USE DEF TypeOK, CreateJoin, Running
  <1>1. /\ c \in live /\ n \in live /\ parent[n] = c /\ n # c /\ n # main
        /\ n \notin Linked
        /\ h \in Linked /\ parent[h] = c
        /\ l \in Linked /\ parent[l] = c /\ neighbor[l] = h
        /\ Follower(l) = h
        /\ neighbor[n] = NULL
    BY DEF Shape, Creation, Lineage, Linked, Building, Follower
  <1>2. Linked' = Linked \cup {n}
    BY <1>1 DEF Linked, Building, Shape
  <1>3. \A u \in Linked : Building(u, {"close"})' <=> Building(u, {"close"})
    BY <1>1 DEF Building, Linked
  <1>4. \A u \in Linked : u # l => Follower(u)' = Follower(u)
    BY <1>1, <1>3 DEF Follower, Linked
  <1>5. Follower(l)' = n /\ Follower(n)' = h
    BY <1>1, <1>3 DEF Follower, Building, Linked
  <1>6. \A u \in Linked : u # l => Follower(u) # h /\ Follower(u) # n
    BY <1>1 DEF Shape, InRings
  <1>7. \A u \in Linked' : InRings(u)'
    BY <1>1, <1>2, <1>4, <1>5, <1>6, SMTT(30) DEF Shape, InRings
  <1>8. \A u \in live' : Lineage(u)' /\ OwnChild(u)'
    BY <1>1, <1>2 DEF Shape, Lineage, OwnChild
  <1>9. \A u \in live' : Creation(u)'
    BY <1>1, <1>2 DEF Shape, Creation, Linked
  <1> QED BY <1>1, <1>2, <1>7, <1>8, <1>9 DEF Shape

LEMMA CloseTree ==
  ASSUME TypeOK, Shape, NEW c \in Task, CreateClose(c)
  PROVE  Shape'
  <1> DEFINE n == loc[c].new
  <1> USE DEF TypeOK, CreateClose, Running
  <1>1. /\ c \in live /\ n \in Linked /\ parent[n] = c /\ n # c
        /\ loc[c].head \in Linked
    BY DEF Shape, Creation, Lineage, Linked, Building
  <1>2. Linked' = Linked
    BY <1>1 DEF Linked, Building, Shape
  <1>3. \A u \in Linked : u # n => (Building(u, {"close"})' <=> Building(u, {"close"}))
    BY <1>1 DEF Building, Linked
  <1>4. \A u \in Linked : Follower(u)' = Follower(u)
    BY <1>1, <1>3 DEF Follower, Linked, Building
  <1>5. \A u \in Linked : InRings(u)'
    BY <1>2, <1>4 DEF Shape, InRings
  <1>6. \A u \in live' : Lineage(u)' /\ OwnChild(u)'
    BY <1>2 DEF Shape, Lineage, OwnChild
  <1>7. \A u \in live' : Creation(u)'
    BY <1>1, <1>2 DEF Shape, Creation, Linked, Building
  <1> QED BY <1>1, <1>2, <1>5, <1>6, <1>7 DEF Shape

(* The rest of create_task, and a task's return, change no pointer. *)
LEMMA FinishTree ==
  ASSUME TypeOK, Shape, NEW c \in Task,
         CreateStack(c) \/ CreateList(c) \/ ExecMap(c) \/ TaskReturn(c)
  PROVE  Shape'
  <1> USE DEF TypeOK, CreateStack, CreateList, ExecMap, TaskReturn, Running
  <1>1. /\ c \in live
        /\ live' = live /\ parent' = parent /\ next' = next /\ neighbor' = neighbor
        /\ current' = current
        /\ \A d \in Task \ {c} : pc'[d] = pc[d] /\ loc'[d] = loc[d]
        /\ pc[c] \notin Unlinked \cup {"close"} /\ pc'[c] \notin Unlinked \cup {"close"}
        /\ loc'[c] = loc[c] \/ pc'[c] = "run"
        /\ pc[c] = "run" => pc'[c] \in {"run", "dead"}
    BY DEF Shape
  <1>2. Linked' = Linked
    BY <1>1 DEF Linked, Building
  <1>3. \A u \in Linked : Follower(u)' = Follower(u)
    BY <1>1 DEF Follower, Building
  <1>4. \A u \in Linked : InRings(u)'
    BY <1>1, <1>2, <1>3 DEF Shape, InRings
  <1>5. \A u \in live' : Lineage(u)' /\ OwnChild(u)' /\ Creation(u)'
    BY <1>1, <1>2 DEF Shape, Lineage, OwnChild, Creation
  <1>6. reg' \subseteq Linked
            \cup {main}
    <2>1. pc[c] = "list" => loc[c].new \in Linked
      BY <1>1 DEF Shape, Creation, Linked, Building
    <2> QED BY <2>1 DEF Shape
  <1> QED BY <1>1, <1>2, <1>4, <1>5, <1>6 DEF Shape

(* schedule() goes to init or to a child, and moves one next pointer along *)
(* the ring of its children.                                               *)
LEMMA ScheduleTree ==
  ASSUME TypeOK, Shape, Schedule
  PROVE  Shape'
  <1> DEFINE c == current
  <1> USE DEF TypeOK, Schedule
  <1>1. /\ Linked' = Linked
        /\ \A u \in Linked : Follower(u)' = Follower(u)
    BY DEF Linked, Building, Follower
  <1>2. \A u \in Linked : InRings(u)'
    BY <1>1 DEF Shape, InRings
  <1>3. next[c] # NULL =>
          /\ next[c] \in Linked /\ parent[next[c]] = c
          /\ neighbor[next[c]] # NULL =>
               neighbor[next[c]] \in Linked /\ parent[neighbor[next[c]]] = c
    <2> SUFFICES ASSUME next[c] # NULL
                 PROVE  /\ next[c] \in Linked /\ parent[next[c]] = c
                        /\ neighbor[next[c]] # NULL =>
                             /\ neighbor[next[c]] \in Linked
                             /\ parent[neighbor[next[c]]] = c
      OBVIOUS
    <2>1. next[c] \in Linked /\ parent[next[c]] = c /\ c \in live
      BY DEF Shape, OwnChild
    <2>2. CASE Building(next[c], {"close"})
      BY <2>1, <2>2 DEF Shape, Creation, Building
    <2>3. CASE ~Building(next[c], {"close"})
      BY <2>1, <2>3 DEF Shape, InRings, Follower
    <2> QED BY <2>1, <2>2, <2>3
  <1>4. current' \in live
    BY <1>3 DEF SwitchTo, Target, Stays, Shape, Linked
  <1>5. \A u \in live : OwnChild(u)'
    BY <1>1, <1>3 DEF Rotate, Stays, Shape, OwnChild
  <1>6. pc[c] = "head" /\ next[c] # NULL => next'[c] # NULL
    <2> SUFFICES ASSUME pc[c] = "head", next[c] # NULL PROVE next'[c] # NULL
      OBVIOUS
    <2>1. Follower(next[c]) = neighbor[next[c]] /\ Follower(next[c]) \in Linked
      BY <1>3 DEF Follower, Building, Shape, InRings
    <2>2. neighbor[next[c]] # NULL
      BY <2>1 DEF Linked
    <2> QED BY <2>2 DEF Rotate
  <1>7. \A u \in live : Lineage(u)' /\ Creation(u)'
    <2>1. \A u \in live : u # c => next'[u] = next[u]
      BY DEF Rotate
    <2> QED BY <1>1, <1>6, <2>1 DEF Shape, Lineage, Creation
  <1> QED BY <1>1, <1>2, <1>4, <1>5, <1>7 DEF Shape

(* What a kill that tears nothing finds, and what it does to the rings.    *)
KillFits(c, t) ==
  /\ c \in live /\ current = c /\ t \in Linked /\ t # main
  /\ pc[t] \in {"run", "dead"}
  /\ \A d \in live : pc[d] # "run" => loc[d].new # t
  /\ \A d \in live : /\ pc[d] = "head" => ~(next[d] = t /\ neighbor[t] = t)
                     /\ pc[d] \in {"walk", "join"} => t # loc[d].head /\ t # loc[d].last
  /\ ~(parent[t] \in live /\ pc[parent[t]] = "close")
  /\ InRing(t)

CutAfter(p, t) ==
  /\ Follower(t) = neighbor[t] /\ neighbor[t] \in Linked /\ parent[neighbor[t]] = parent[t]
  /\ parent[p] = parent[t] /\ neighbor[p] = t /\ Follower(p) = t
  /\ p # t => neighbor[t] # t
  /\ \A u \in Linked : u # p => Follower(u) # t
  /\ live' = live \ {t} /\ reg' = reg \ {t} /\ pc' = pc /\ loc' = loc /\ parent' = parent
  /\ ready' = ready
  /\ orphans' = (orphans \cup {u \in live : parent[u] = t}) \ {t}
  /\ neighbor' = [neighbor EXCEPT ![p] = neighbor[t]]
  /\ Linked' = Linked \ {t}
  /\ \A u \in Linked' : u # p => Follower(u)' = Follower(u)
  /\ p # t => Follower(p)' = Follower(t)
  /\ \A u \in live' : next'[u] = NextWithout(t)[u]
  /\ current' \in {current, Target(t, NextWithout(t))}
  /\ current' = current => t # current \/ Target(t, NextWithout(t)) = current

LEMMA KillCuts ==
  ASSUME TypeOK, Shape, NEW c \in Task, NEW t \in Task, Kill(c, t), ~torn'
  PROVE  KillFits(c, t) /\ \E p \in Linked : CutAfter(p, t)
  <1> USE DEF TypeOK
  <1>1. KillFits(c, t)
    BY DEF KillFits, Kill, MayKillNow, Running, KillWith, Remove, Tears, Shape, Linked, InRing,
           PcValues
  <1> USE DEF KillFits
  <1>2. PICK p \in Prev(t) : KillWith(c, t, [neighbor EXCEPT ![p] = neighbor[t]])
    BY <1>1 DEF Kill
  <1>3. Follower(t) = neighbor[t] /\ neighbor[t] \in Linked /\ parent[neighbor[t]] = parent[t]
    BY <1>1 DEF Shape, InRings, Follower, Building
  <1>4. p \in Linked /\ parent[p] = parent[t] /\ neighbor[p] = t /\ Follower(p) = t
    BY <1>1, <1>3, WalkFindsSibling DEF Prev
  <1>5. /\ live' = live \ {t} /\ reg' = reg \ {t} /\ pc' = pc /\ loc' = loc /\ parent' = parent
        /\ neighbor' = [neighbor EXCEPT ![p] = neighbor[t]] /\ ready' = ready
        /\ orphans' = (orphans \cup {u \in live : parent[u] = t}) \ {t}
    BY <1>2 DEF KillWith, Remove
  <1>6. Linked' = Linked \ {t}
    BY <1>1, <1>5 DEF Linked, Building
  <1>7. \A u \in Linked' : u # p => Follower(u)' = Follower(u)
    BY <1>1, <1>5, <1>6 DEF Follower, Building, Linked
  <1>8. p # t => Follower(p)' = Follower(t)
    BY <1>1, <1>3, <1>4, <1>5 DEF Follower, Building, Linked
  <1>9. \A u \in Linked : u # p => Follower(u) # t
    BY <1>4 DEF Shape, InRings
  <1>10. p # t => neighbor[t] # t
    BY <1>1, <1>3, <1>4 DEF Shape, InRings
  <1>11. /\ \A u \in live' : next'[u] = NextWithout(t)[u]
         /\ current' \in {current, Target(t, NextWithout(t))}
         /\ current' = current => t # current \/ Target(t, NextWithout(t)) = current
    <2>1. CASE t # c
      BY <1>1, <1>2, <2>1 DEF KillWith
    <2>2. CASE t = c
      <3>1. NextWithout(t) \in [Task -> Ptr]
        BY NextWithoutType
      <3> HIDE DEF TypeOK
      <3>2. /\ next' = Rotate(c, NextWithout(t), [neighbor EXCEPT ![p] = neighbor[t]])
            /\ current' = Target(t, NextWithout(t))
        BY <1>2, <2>2 DEF KillWith, SwitchTo
      <3>3. live' \subseteq Task \ {c}
        BY <1>5, <2>2 DEF TypeOK
      <3> QED BY <2>2, <3>1, <3>2, <3>3 DEF Rotate
    <2> QED BY <2>1, <2>2
  <1> QED BY <1>1, <1>3, <1>4, <1>5, <1>6, <1>7, <1>8, <1>9, <1>10, <1>11 DEF CutAfter

(* A kill that tears nothing takes t out of its ring, and the rest stays.  *)
LEMMA KillTree ==
  ASSUME TypeOK, Shape, NEW c \in Task, NEW t \in Task, Kill(c, t), ~torn'
  PROVE  Shape'
  <1> USE DEF TypeOK
  <1>1. /\ c \in live /\ current = c /\ t \in Linked /\ t # main
        /\ pc[t] \in {"run", "dead"}
        /\ \A d \in live : pc[d] # "run" => loc[d].new # t
        /\ \A d \in live : /\ pc[d] = "head" => ~(next[d] = t /\ neighbor[t] = t)
                           /\ pc[d] \in {"walk", "join"} => t # loc[d].head /\ t # loc[d].last
        /\ ~(parent[t] \in live /\ pc[parent[t]] = "close")
        /\ InRing(t)
    BY KillCuts DEF KillFits
  <1>2. PICK p \in Linked : CutAfter(p, t)
    BY KillCuts
  <1>3. Follower(t) = neighbor[t] /\ neighbor[t] \in Linked /\ parent[neighbor[t]] = parent[t]
    BY <1>2 DEF CutAfter
  <1>4. p \in Linked /\ parent[p] = parent[t] /\ neighbor[p] = t /\ Follower(p) = t
    BY <1>2 DEF CutAfter
  <1>5. /\ live' = live \ {t} /\ reg' = reg \ {t} /\ pc' = pc /\ loc' = loc /\ parent' = parent
        /\ neighbor' = [neighbor EXCEPT ![p] = neighbor[t]]
    BY <1>2 DEF CutAfter
  <1>6. Linked' = Linked \ {t} /\ \A u \in live' : next'[u] = NextWithout(t)[u]
    BY <1>2 DEF CutAfter
  <1>7. \A u \in Linked' : u # p => Follower(u)' = Follower(u)
    BY <1>2 DEF CutAfter
  <1>8. p # t => Follower(p)' = Follower(t)
    BY <1>2 DEF CutAfter
  <1>9. \A u \in Linked : u # p => Follower(u) # t
    BY <1>2 DEF CutAfter
  <1>10. p # t => neighbor[t] # t
    BY <1>2 DEF CutAfter
  <1>11. \A u \in Linked' : InRings(u)'
    <2> SUFFICES ASSUME NEW u \in Linked' PROVE InRings(u)'
      OBVIOUS
    <2>1. CASE u = p
      BY <1>1, <1>3, <1>4, <1>5, <1>6, <1>7, <1>8, <1>10, <2>1 DEF Shape, InRings
    <2>2. CASE u # p
      BY <1>1, <1>3, <1>4, <1>5, <1>6, <1>7, <1>8, <1>9, <2>2 DEF Shape, InRings
    <2> QED BY <2>1, <2>2
  <1>12. \A u \in live' : LET n == NextWithout(t)[u]
                          IN  n # NULL => n \in Linked' /\ parent[n] = u
    <2> SUFFICES ASSUME NEW u \in live', NextWithout(t)[u] # NULL
                 PROVE  NextWithout(t)[u] \in Linked' /\ parent[NextWithout(t)[u]] = u
      OBVIOUS
    <2>1. CASE u = parent[t] /\ next[u] = t
      BY <1>1, <1>3, <1>5, <1>6, <2>1 DEF NextWithout
    <2>2. CASE ~(u = parent[t] /\ next[u] = t)
      BY <1>1, <1>5, <1>6, <2>2 DEF NextWithout, Shape, OwnChild
    <2> QED BY <2>1, <2>2
  <1>13. parent[t] # t /\ NextWithout(t)[t] = next[t]
    BY <1>1 DEF Shape, Lineage, Linked, NextWithout
  <1>14. (\A u \in live' : OwnChild(u)') /\ current' \in live'
    <2>1. \A u \in live' : OwnChild(u)'
      BY <1>5, <1>6, <1>12 DEF OwnChild
    <2>2. next[t] # NULL => next[t] \in live /\ next[t] # t
      BY <1>1, <1>13 DEF Shape, OwnChild, Linked
    <2>3. Target(t, NextWithout(t)) \in live'
      BY <1>1, <1>5, <1>13, <2>2 DEF Target, Stays, Shape
    <2>4. /\ current' \in {c, Target(t, NextWithout(t))}
          /\ current' = c => t # c \/ Target(t, NextWithout(t)) = c
      BY <1>1, <1>2 DEF CutAfter
    <2> QED BY <1>1, <1>5, <2>1, <2>3, <2>4
  <1>15. \A u \in live' : Lineage(u)'
    BY <1>5 DEF Shape, Lineage
  <1>16. \A u \in live' : Creation(u)'
    <2> SUFFICES ASSUME NEW u \in live' PROVE Creation(u)'
      OBVIOUS
    <2>1. u \in live /\ u # t /\ Creation(u)
      BY <1>5 DEF Shape
    <2>2. pc[u] \in {"walk", "join", "close"} => loc[u].head # t
      BY <1>1, <2>1 DEF Creation
    <2>3. /\ pc[u] \in {"walk", "join"} => loc[u].last # t
          /\ pc[u] = "join" => loc[u].last # p
      BY <1>1, <1>4, <2>1 DEF Creation
    <2>4. pc[u] \in Unlinked \cup {"close"} => loc[u].new # p
      BY <1>1, <1>4, <2>1 DEF Creation, Shape, Linked, Building
    <2>5. pc[u] = "head" => next'[u] # NULL
      <3> SUFFICES ASSUME pc[u] = "head" PROVE NextWithout(t)[u] # NULL
        BY <1>6
      <3>1. u \in Task /\ next[u] # NULL
        <4> HIDE DEF TypeOK
        <4>1. u \in live /\ live \subseteq Task /\ Creation(u)
          BY <2>1 DEF TypeOK
        <4> QED BY <4>1 DEF Creation
      <3>2. ~(next[u] = t /\ neighbor[t] = t)
        BY <1>1, <2>1
      <3>3. neighbor[t] # NULL /\ parent[t] \in Ptr
        BY <1>1, <1>3 DEF Linked
      <3> QED BY <3>1, <3>2, <3>3 DEF NextWithout
    <2> QED BY <1>1, <1>5, <1>6, <2>1, <2>2, <2>3, <2>4, <2>5 DEF Creation, PcValues
  <1>17. reg' \subseteq Linked' \cup {main}
    BY <1>5, <1>6 DEF Shape
  <1> QED BY <1>1, <1>5, <1>11, <1>14, <1>15, <1>16, <1>17 DEF Shape

LEMMA StepTree == TreeInv /\ [Next]_vars => TreeInv'
  <1> SUFFICES ASSUME TreeInv, [Next]_vars, ~torn'
               PROVE  Shape'
    BY StepType DEF TreeInv
  <1>1. CASE UNCHANGED vars
    BY <1>1, TreeKept DEF TreeInv, vars, tree
  <1>2. ASSUME NEW c \in Task, NEW t \in Task, KillHang(c, t)
        PROVE  Shape'
    <2>1. ~torn /\ UNCHANGED <<tree, current, pc, loc>>
      BY <1>2 DEF KillHang
    <2> QED BY <2>1, TreeKept DEF TreeInv, tree
  <1>3. ASSUME NEW c \in Task, NEW t \in Task, Kill(c, t)
        PROVE  Shape'
    <2>1. ~torn
      BY <1>3 DEF Kill, KillWith, Remove
    <2> QED BY <1>3, <2>1, KillTree DEF TreeInv
  <1>4. ASSUME NEW c \in Task, NEW t \in Task, NEW k \in Kinds, CreateAlloc(c, t, k)
        PROVE  Shape'
    BY <1>4, AllocTree DEF TreeInv, CreateAlloc
  <1>5. ASSUME NEW c \in Task, Advance(c) \/ TaskReturn(c)
        PROVE  Shape'
    <2>1. ~torn
      BY <1>5 DEF Advance, TaskReturn, CreateFirst, CreateTest, CreateHead, CreateWalk,
                  CreateJoin, CreateClose, CreateStack, CreateList, ExecMap
    <2> QED BY <1>5, <2>1, FirstTree, SearchTree, JoinTree, CloseTree, FinishTree
            DEF TreeInv, Advance
  <1>6. CASE Schedule
    BY <1>6, ScheduleTree DEF TreeInv, Schedule
  <1> QED BY <1>1, <1>2, <1>3, <1>4, <1>5, <1>6 DEF Next

(* Siblings form rings, however creations, kills and timer interrupts      *)
(* interleave and however many tasks there are.                            *)
THEOREM RingsCorrect == Spec => []SiblingRings
  BY InitTree, StepTree, TreeInvSuffices, PTL DEF Spec

(* schedule() and create_task start from a living child of the task.       *)
THEOREM NextChildCorrect == Spec => []NextChild
  BY InitTree, StepTree, TreeInvSuffices, PTL DEF Spec

(* The CPU never stays on a freed task struct.                             *)
THEOREM CurrentAliveCorrect == Spec => []CurrentAlive
  BY InitTree, StepTree, TreeInvSuffices, PTL DEF Spec

-----------------------------------------------------------------------------
(***************************************************************************)
(* The inductive invariant behind NoTaskLost: every ring leads back to     *)
(* where one starts, and the children a living parent can reach are never  *)
(* in one ring with those a killed parent left behind.  A creation between *)
(* its two stores leaves its ring open; the timer cannot take the parent   *)
(* past the gap, because the new task has no stack and the machine goes    *)
(* down instead.                                                           *)
(***************************************************************************)
Ring == [u \in Task |-> Follower(u)]

Reached(t) == /\ t \in Orbit(Ring, Follower(t))
              /\ Follower(t) \in orphans <=> t \in orphans
              /\ t \notin orphans => /\ parent[t] \in live
                                     /\ next[parent[t]] # NULL
                                     /\ t \in Orbit(Ring, next[parent[t]])

Fresh(c) == /\ next[c] \notin orphans
            /\ pc[c] \notin {"run", "dead"} => loc[c].new \notin orphans
            /\ pc[c] \in {"walk", "join", "close"} => loc[c].head \notin orphans
            /\ pc[c] = "walk" => loc[c].last \notin orphans
            /\ pc[c] \in Unlinked \cup {"close"} => ~ready[loc[c].new]

Whole == /\ orphans \subseteq live
         /\ \A t \in Linked : Reached(t)
         /\ \A c \in live : Fresh(c)

RingInv == TreeInv /\ (~torn => fault # "hang" /\ (fault = "none" => Whole))

(* The tasks met from t, and how a change of f moves them.                 *)
LEMMA OrbitIs ==
  ASSUME NEW f, NEW t \in Task
  PROVE  /\ t \in Orbit(f, t) /\ Orbit(f, t) \subseteq Task
         /\ \A v \in Orbit(f, t) : f[v] \in Task => f[v] \in Orbit(f, t)
  BY DEF Orbit

LEMMA OrbitKept ==
  ASSUME NEW f, NEW g, NEW t \in Task,
         \A v \in Orbit(f, t) : g[v] = f[v] /\ f[v] \in Task
  PROVE  Orbit(f, t) \subseteq Orbit(g, t)
  <1> SUFFICES ASSUME NEW S \in SUBSET Task, t \in S, \A v \in S : g[v] \in S \cup {NULL}
               PROVE  Orbit(f, t) \subseteq S
    BY DEF Orbit
  <1> DEFINE T == S \cap Orbit(f, t)
  <1>1. T \in SUBSET Task /\ t \in T /\ \A v \in T : f[v] \in T \cup {NULL}
    BY OrbitIs
  <1> HIDE DEF T
  <1>2. Orbit(f, t) \subseteq T
    BY <1>1, OrbitIn
  <1> QED BY <1>2 DEF T

(* A task n put in after l.                                                *)
LEMMA OrbitInserted ==
  ASSUME NEW f, NEW g, NEW t \in Task, NEW l, NEW n \in Task,
         \A v \in Orbit(f, t) : f[v] \in Task /\ (v # l => g[v] = f[v]),
         g[l] = n, g[n] = f[l]
  PROVE  Orbit(f, t) \subseteq Orbit(g, t)
  <1> SUFFICES ASSUME NEW S \in SUBSET Task, t \in S, \A v \in S : g[v] \in S \cup {NULL}
               PROVE  Orbit(f, t) \subseteq S
    BY DEF Orbit
  <1> DEFINE T == S \cap Orbit(f, t)
  <1>1. ASSUME NEW v \in T PROVE f[v] \in T \cup {NULL}
    <2>1. f[v] \in Orbit(f, t) /\ v \in S
      BY OrbitIs
    <2>2. CASE v = l
      BY <2>1, <2>2
    <2>3. CASE v # l
      BY <2>1, <2>3
    <2> QED BY <2>2, <2>3
  <1>2. T \in SUBSET Task /\ t \in T
    BY OrbitIs
  <1> HIDE DEF T
  <1>3. Orbit(f, t) \subseteq T
    BY <1>1, <1>2, OrbitIn
  <1> QED BY <1>3 DEF T

(* A task x taken out after p.                                             *)
LEMMA OrbitRemoved ==
  ASSUME NEW f, NEW g, NEW t \in Task, NEW p, NEW x, t # x,
         \A v \in Orbit(f, t) : /\ f[v] \in Task
                                /\ v # p => f[v] # x
                                /\ v # p /\ v # x => g[v] = f[v],
         f[p] = x, g[p] = f[x]
  PROVE  Orbit(f, t) \ {x} \subseteq Orbit(g, t)
  <1> SUFFICES ASSUME NEW S \in SUBSET Task, t \in S, \A v \in S : g[v] \in S \cup {NULL}
               PROVE  Orbit(f, t) \subseteq S \cup {x}
    BY DEF Orbit
  <1>0. t \in Orbit(f, t) /\ Orbit(f, t) \subseteq Task
        /\ \A v \in Orbit(f, t) : f[v] \in Orbit(f, t)
    BY OrbitIs
  <1>1. CASE p \in S
    <2> DEFINE T == (S \cup {x}) \cap Orbit(f, t)
    <2>1. ASSUME NEW v \in T PROVE f[v] \in T \cup {NULL}
      <3>1. CASE v = x
        BY <1>0, <1>1, <3>1
      <3>2. CASE v = p
        BY <1>0, <1>1, <3>2
      <3>3. CASE v # x /\ v # p
        BY <1>0, <3>3
      <3> QED BY <3>1, <3>2, <3>3
    <2>2. T \in SUBSET Task /\ t \in T
      BY <1>0
    <2> HIDE DEF T
    <2>3. Orbit(f, t) \subseteq T
      BY <2>1, <2>2, OrbitIn
    <2> QED BY <2>3 DEF T
  <1>2. CASE p \notin S
    <2> DEFINE T == (S \cap Orbit(f, t)) \ {x}
    <2>1. \A v \in T : f[v] \in T \cup {NULL}
      BY <1>0, <1>2
    <2>2. T \in SUBSET Task /\ t \in T
      BY <1>0
    <2> HIDE DEF T
    <2>3. Orbit(f, t) \subseteq T
      BY <2>1, <2>2, OrbitIn
    <2> QED BY <2>3 DEF T
  <1> QED BY <1>1, <1>2

(* Where f leads back to h, something before h is met.                     *)
LEMMA OrbitReturns ==
  ASSUME NEW f, NEW h, f[h] \in Task, h \in Orbit(f, f[h]),
         \A v \in Orbit(f, f[h]) : f[v] \in Task
  PROVE  \E x \in Orbit(f, f[h]) : f[x] = h
  <1> SUFFICES ASSUME \A x \in Orbit(f, f[h]) : f[x] # h
               PROVE  FALSE
    OBVIOUS
  <1> DEFINE T == Orbit(f, f[h]) \ {h}
  <1>1. f[h] # h
    OBVIOUS
  <1>2. T \in SUBSET Task /\ f[h] \in T /\ \A v \in T : f[v] \in T \cup {NULL}
    BY <1>1, OrbitIs
  <1> HIDE DEF T
  <1>3. Orbit(f, f[h]) \subseteq T
    BY <1>2, OrbitIn
  <1> QED BY <1>3 DEF T

LEMMA RingIs ==
  ASSUME TypeOK, Shape, NEW t \in Linked
  PROVE  /\ t \in Task /\ t \in Orbit(Ring, t)
         /\ \A v \in Orbit(Ring, t) :
              /\ v \in Linked /\ parent[v] = parent[t]
              /\ Ring[v] = Follower(v) /\ Ring[v] \in Linked /\ Ring[v] \in Task
              /\ Ring[v] \in Orbit(Ring, t)
  <1> DEFINE S == {v \in Linked : parent[v] = parent[t]}
  <1>1. Linked \subseteq Task /\ t \in S /\ S \in SUBSET Task
    BY DEF TypeOK, Linked
  <1>2. \A v \in S : Ring[v] = Follower(v) /\ Ring[v] \in S
    BY <1>1 DEF Ring, Shape, InRings
  <1>3. Orbit(Ring, t) \subseteq S
    BY <1>1, <1>2, OrbitIn
  <1>4. \A v \in Orbit(Ring, t) : Ring[v] \in Task => Ring[v] \in Orbit(Ring, t)
    BY <1>1, OrbitIs
  <1> QED BY <1>1, <1>2, <1>3, <1>4, OrbitIs

(* Steps that leave every ring as it is.                                   *)
LEMMA RingsKept ==
  ASSUME TypeOK, Shape, Whole,
         Linked' = Linked, orphans' = orphans, live \subseteq live',
         \A u \in Linked : Follower(u)' = Follower(u) /\ parent'[u] = parent[u],
         \A u \in Linked \ orphans : next'[parent[u]] = next[parent[u]]
  PROVE  \A t \in Linked' : Reached(t)'
  <1> SUFFICES ASSUME NEW t \in Linked PROVE Reached(t)'
    OBVIOUS
  <1>1. Reached(t)
    BY DEF Whole
  <1>2. ASSUME NEW x \in Linked PROVE Orbit(Ring, x) \subseteq Orbit(Ring', x)
    <2>1. \A v \in Orbit(Ring, x) : Ring'[v] = Ring[v]
      BY <1>2, RingIs DEF Ring
    <2> QED BY <1>2, <2>1, RingIs, OrbitKept
  <1>3. Follower(t) \in Linked
    BY DEF Shape, InRings
  <1>4. t \notin orphans => next[parent[t]] \in Linked
    BY <1>1 DEF Reached, Shape, OwnChild
  <1> QED BY <1>1, <1>2, <1>3, <1>4 DEF Reached

LEMMA AllocRing ==
  ASSUME TypeOK, Shape, Whole, NEW c \in Task, NEW t \in Task, NEW k \in Kinds,
         CreateAlloc(c, t, k)
  PROVE  Whole'
  <1>1. /\ c \in live /\ t # c /\ t \notin live /\ t \notin orphans /\ pc[c] = "run"
    BY DEF Shape, CreateAlloc, Running, Whole
  <1>2. /\ live' = live \cup {t} /\ orphans' = orphans
        /\ parent' = [parent EXCEPT ![t] = c] /\ next' = [next EXCEPT ![t] = NULL]
        /\ neighbor' = [neighbor EXCEPT ![t] = NULL] /\ ready' = [ready EXCEPT ![t] = FALSE]
        /\ pc' = [pc EXCEPT ![c] = "link", ![t] = "run"]
        /\ loc' = [loc EXCEPT ![c] = [NoLocal EXCEPT !.new = t], ![t] = NoLocal]
    BY DEF CreateAlloc
  <1>3. loc'[c].new = t /\ \A d \in Task \ {c, t} : loc'[d] = loc[d] /\ pc'[d] = pc[d]
    BY <1>1, <1>2 DEF TypeOK, NoLocal
  <1>4. pc'[c] = "link" /\ pc'[t] = "run"
    BY <1>1, <1>2 DEF TypeOK
  <1>5. /\ \A u \in Task \ {t} : parent'[u] = parent[u] /\ next'[u] = next[u]
                                /\ neighbor'[u] = neighbor[u]
        /\ parent'[t] = c /\ next'[t] = NULL
    BY <1>2 DEF TypeOK
  <1>6. ~ready'[t] /\ \A u \in Task \ {t} : ~ready[u] => ~ready'[u]
    BY <1>2 DEF TypeOK
  <1>7. \A d \in live : d # c => loc'[d] = loc[d] /\ pc'[d] = pc[d]
    BY <1>1, <1>3 DEF TypeOK
  <1>8. live \subseteq Task /\ Linked \subseteq live /\ t \notin Linked
    BY <1>1 DEF TypeOK, Linked
  <1>9. \A d \in live : pc[d] \notin {"run", "dead"} => loc[d].new \in live
    BY DEF Shape, Creation
  <1>10. ASSUME NEW u \in live
         PROVE  /\ Building(u, Unlinked)' <=> Building(u, Unlinked)
                /\ Building(u, {"close"})' <=> Building(u, {"close"})
    <2>0. u \in Task \ {t} /\ parent'[u] = parent[u]
      BY <1>1, <1>5, <1>8
    <2>1. CASE parent[u] = t
      BY <1>1, <1>4, <2>0, <2>1 DEF Building
    <2>2. CASE parent[u] = c
      BY <1>1, <1>3, <1>4, <2>0, <2>2 DEF Building
    <2>3. CASE parent[u] # t /\ parent[u] # c
      <3>1. parent[u] \in live' <=> parent[u] \in live
        BY <1>2, <2>3
      <3>2. parent[u] \in live => pc'[parent[u]] = pc[parent[u]] /\ loc'[parent[u]] = loc[parent[u]]
        BY <1>7, <2>3
      <3> QED BY <2>0, <3>1, <3>2 DEF Building
    <2> QED BY <2>1, <2>2, <2>3
  <1>11. Linked' = Linked
    <2>1. \A u \in live : Building(u, Unlinked)' <=> Building(u, Unlinked)
      BY <1>10
    <2>2. parent'[t] = c /\ c \in live' /\ pc'[c] = "link" /\ loc'[c].new = t
      <3>1. c \in live'
        BY <1>1, <1>2
      <3> QED BY <1>3, <1>4, <1>5, <3>1
    <2>3. Building(t, Unlinked)'
      BY <2>2 DEF Building
    <2> QED BY <1>1, <1>2, <1>5, <1>8, <2>1, <2>3 DEF Linked
  <1>12. \A u \in Linked : Follower(u)' = Follower(u) /\ parent'[u] = parent[u]
    <2>1. \A u \in live : Building(u, {"close"})' <=> Building(u, {"close"})
      BY <1>10
    <2>2. \A u \in live : Building(u, {"close"}) => loc'[parent[u]] = loc[parent[u]]
      BY <1>1, <1>7 DEF Building
    <2> QED BY <1>5, <1>8, <2>1, <2>2 DEF Follower
  <1>13. \A u \in Linked \ orphans : next'[parent[u]] = next[parent[u]]
    BY <1>1, <1>5, <1>8 DEF Whole, Reached
  <1>14. \A u \in Linked' : Reached(u)'
    BY <1>2, <1>11, <1>12, <1>13, RingsKept
  <1>15. \A d \in live' : Fresh(d)'
    <2>1. NULL \notin orphans
      BY DEF Whole, TypeOK
    <2>2. ASSUME NEW d \in live, d # c PROVE Fresh(d)'
      <3>1. Fresh(d) /\ d # t /\ d \in Task
        BY <1>1, <1>8 DEF Whole
      <3>2. pc[d] \in Unlinked \cup {"close"} => loc[d].new # t /\ loc[d].new \in Task
        BY <1>1, <1>8, <1>9
      <3>3. pc'[d] = pc[d] /\ loc'[d] = loc[d] /\ next'[d] = next[d] /\ orphans' = orphans
        BY <1>2, <1>5, <1>7, <2>2, <3>1
      <3>4. pc[d] \in Unlinked \cup {"close"} => ~ready'[loc[d].new]
        BY <1>6, <3>1, <3>2 DEF Fresh
      <3> QED BY <3>1, <3>3, <3>4 DEF Fresh
    <2>3. Fresh(c)'
      <3>1. next[c] \notin orphans /\ next'[c] = next[c]
        BY <1>1, <1>5 DEF Whole, Fresh
      <3>2. loc'[c].new = t /\ t \notin orphans /\ orphans' = orphans /\ ~ready'[t]
        BY <1>1, <1>2, <1>3, <1>6
      <3> QED BY <1>4, <3>1, <3>2 DEF Fresh
    <2>4. Fresh(t)'
      BY <1>2, <1>4, <1>5, <2>1 DEF Fresh
    <2> QED BY <1>2, <2>2, <2>3, <2>4
  <1> QED BY <1>2, <1>14, <1>15 DEF Whole

LEMMA FirstRing ==
  ASSUME TypeOK, Shape, Whole, NEW c \in Task, CreateFirst(c)
  PROVE  Whole'
  <1>0. PICK n \in Task : n = loc[c].new
    BY DEF CreateFirst, Running, TypeOK
  <1>1. /\ live' = live /\ orphans' = orphans /\ parent' = parent /\ ready' = ready /\ loc' = loc
        /\ neighbor' = [neighbor EXCEPT ![n] = n] /\ next' = [next EXCEPT ![c] = n]
        /\ pc' = [pc EXCEPT ![c] = "stack"] /\ pc[c] = "link" /\ next[c] = NULL
    BY <1>0 DEF CreateFirst, Running
  <1>2. c \in live /\ n \in live /\ parent[n] = c /\ n # c /\ n \notin Linked /\ n \notin orphans
    BY <1>0, <1>1 DEF CreateFirst, Running, Shape, Creation, Lineage, Linked, Building, Whole, Fresh
  <1>3. Linked \subseteq live /\ live \subseteq Task
    BY DEF Linked, TypeOK
  <1>4. /\ neighbor'[n] = n /\ \A u \in Task \ {n} : neighbor'[u] = neighbor[u]
        /\ next'[c] = n /\ \A u \in Task \ {c} : next'[u] = next[u]
        /\ pc'[c] = "stack" /\ \A u \in Task \ {c} : pc'[u] = pc[u]
    BY <1>1 DEF TypeOK
  <1>5. Linked' = Linked \cup {n}
    BY <1>0, <1>1, <1>2, <1>3, <1>4 DEF Linked, Building, Shape
  <1>6. \A u \in Linked : Follower(u)' = Follower(u)
    <2>1. \A u \in live : Building(u, {"close"})' <=> Building(u, {"close"})
      BY <1>1, <1>3, <1>4 DEF Building
    <2> QED BY <1>1, <1>2, <1>3, <1>4, <2>1 DEF Follower
  <1>7. Follower(n)' = n
    BY <1>1, <1>2, <1>4 DEF Follower, Building
  <1>8. ASSUME NEW x \in Linked PROVE Orbit(Ring, x) \subseteq Orbit(Ring', x)
    <2>1. \A v \in Orbit(Ring, x) : Ring'[v] = Ring[v]
      BY <1>6, <1>8, RingIs DEF Ring
    <2> QED BY <1>8, <2>1, RingIs, OrbitKept
  <1>9. ASSUME NEW t \in Linked PROVE Reached(t)'
    <2>1. Reached(t) /\ Follower(t) \in Linked
      BY DEF Whole, Shape, InRings
    <2>2. t \notin orphans => next[parent[t]] \in Linked /\ next'[parent[t]] = next[parent[t]]
      BY <1>1, <1>3, <1>4, <2>1 DEF Reached, Shape, OwnChild
    <2> QED BY <1>1, <1>6, <1>8, <2>1, <2>2 DEF Reached
  <1>10. Reached(n)'
    <2>1. n \in Orbit(Ring', n)
      BY OrbitIs
    <2> QED BY <1>1, <1>2, <1>4, <1>7, <2>1, TaskAssumption DEF Reached
  <1>11. ASSUME NEW d \in live PROVE Fresh(d)'
    <2>1. Fresh(d) /\ d \in Task
      BY <1>3 DEF Whole
    <2> QED BY <1>0, <1>1, <1>2, <1>4, <2>1 DEF Fresh
  <1> QED BY <1>1, <1>5, <1>9, <1>10, <1>11 DEF Whole

(* In a ring that is not open, a walk along neighbor that starts at a task *)
(* or behind it comes to the one before it.                                *)
LEMMA WalkEnds ==
  ASSUME TypeOK, Shape, Whole, NEW h \in Linked,
         ~(parent[h] \in live /\ pc[parent[h]] = "close")
  PROVE  WalkTo(h, h) # {} /\ WalkTo(neighbor[h], h) # {}
  <1>1. /\ Follower(h) \in Linked /\ parent[Follower(h)] = parent[h]
        /\ h \in Orbit(Ring, Follower(h))
    BY DEF Whole, Reached, Shape, InRings
  <1>2. PICK g \in Linked : g = Follower(h) /\ parent[g] = parent[h]
    BY <1>1
  <1>3. Ring[h] = g
    BY <1>2, RingIs
  <1>4. \E x \in Orbit(Ring, g) : Ring[x] = h
    BY <1>1, <1>2, <1>3, RingIs, OrbitReturns
  <1>5. Orbit(Ring, g) \subseteq Orbit(Ring, h)
    <2>1. /\ Orbit(Ring, h) \in SUBSET Task /\ g \in Orbit(Ring, h)
          /\ \A v \in Orbit(Ring, h) : Ring[v] \in Orbit(Ring, h) \cup {NULL}
      BY <1>3, RingIs
    <2> QED BY <2>1, OrbitIn
  <1>6. \A v \in Orbit(Ring, h) : neighbor[v] = Ring[v]
    BY RingIs DEF Follower, Building
  <1>7. Orbit(Ring, h) \subseteq Orbit(neighbor, h)
    BY <1>6, RingIs, OrbitKept
  <1>8. Orbit(Ring, g) \subseteq Orbit(neighbor, g)
    BY <1>2, <1>5, <1>6, RingIs, OrbitKept
  <1>9. neighbor[h] = g
    BY <1>3, <1>6, RingIs
  <1> QED BY <1>4, <1>5, <1>6, <1>7, <1>8, <1>9 DEF WalkTo

(* From wherever it stands, the walk of create_task comes to the child     *)
(* before head: both are in the one ring that next leads into.             *)
LEMMA WalkReturns ==
  ASSUME TypeOK, Shape, Whole, NEW c \in live, pc[c] = "walk"
  PROVE  WalkTo(loc[c].last, loc[c].head) # {}
  <1>1. PICK l \in Linked, h \in Linked :
          /\ l = loc[c].last /\ h = loc[c].head /\ parent[l] = c /\ parent[h] = c
          /\ l \notin orphans /\ h \notin orphans
    BY WalkStands DEF Whole, Fresh
  <1>2. PICK x \in Linked : x = next[c] /\ parent[x] = c
                            /\ l \in Orbit(Ring, x) /\ h \in Orbit(Ring, x)
    BY <1>1 DEF Whole, Reached, Shape, OwnChild
  <1> DEFINE S == Orbit(Ring, l)
  <1>3. /\ l \in Task /\ l \in S /\ S \in SUBSET Task /\ S \subseteq Linked
        /\ \A v \in S : /\ parent[v] = c /\ Ring[v] = Follower(v)
                        /\ Ring[v] \in Task /\ Ring[v] \in S
    BY <1>1, RingIs, OrbitIs
  <1>4. ASSUME NEW w \in S PROVE \E v \in S : Ring[v] = w
    <2>1. CASE w = l
      <3>1. Ring[l] \in Linked /\ Ring[l] \in Task /\ l \in Orbit(Ring, Ring[l])
        BY <1>1, <1>3, RingIs DEF Whole, Reached
      <3>2. \A v \in Orbit(Ring, Ring[l]) : Ring[v] \in Task
        BY <3>1, RingIs
      <3>3. \E v \in Orbit(Ring, Ring[l]) : Ring[v] = l
        BY <3>1, <3>2, OrbitReturns
      <3>4. Orbit(Ring, Ring[l]) \subseteq S
        <4> HIDE DEF S
        <4> QED BY <1>3, OrbitIn
      <3> QED BY <2>1, <3>3, <3>4
    <2>2. CASE w # l
      <3> SUFFICES ASSUME \A v \in S : Ring[v] # w PROVE FALSE
        OBVIOUS
      <3> DEFINE U == S \ {w}
      <3>1. U \in SUBSET Task /\ l \in U /\ \A v \in U : Ring[v] \in U \cup {NULL}
        BY <1>3, <2>2
      <3> HIDE DEF U
      <3>2. Orbit(Ring, l) \subseteq U
        BY <3>1, OrbitIn
      <3> QED BY <3>2 DEF U
    <2> QED BY <2>1, <2>2
  <1>5. x \in S
    <2> SUFFICES ASSUME x \notin S PROVE FALSE
      OBVIOUS
    <2> DEFINE U == Orbit(Ring, x) \ S
    <2>1. /\ x \in Orbit(Ring, x) /\ Orbit(Ring, x) \subseteq Linked
          /\ \A v \in Orbit(Ring, x) : Ring[v] = Follower(v) /\ Ring[v] \in Orbit(Ring, x)
      BY RingIs
    <2>2. ASSUME NEW v \in U PROVE Ring[v] \in U
      <3> SUFFICES ASSUME Ring[v] \in S PROVE FALSE
        BY <2>1
      <3>1. PICK w \in S : Ring[w] = Ring[v]
        BY <1>4
      <3> HIDE DEF S
      <3>2. w = v
        BY <1>3, <2>1, <3>1 DEF Shape, InRings
      <3> QED BY <3>2
    <2>3. U \in SUBSET Task /\ x \in U /\ \A v \in U : Ring[v] \in U \cup {NULL}
      BY <2>1, <2>2 DEF Linked, TypeOK
    <2>4. l \in S
      BY <1>3
    <2> HIDE DEF U
    <2>5. Orbit(Ring, x) \subseteq U
      BY <2>3, OrbitIn
    <2>6. l \in U
      BY <1>2, <2>5
    <2> QED BY <2>4, <2>6 DEF U
  <1>6. h \in S
    <2> HIDE DEF S
    <2>1. Orbit(Ring, x) \subseteq S
      BY <1>3, <1>5, OrbitIn
    <2> QED BY <1>2, <2>1
  <1>7. PICK v \in S : Ring[v] = h
    BY <1>4, <1>6
  <1>8. \A u \in S : neighbor[u] = Ring[u]
    BY <1>3 DEF Follower, Building
  <1>9. S \subseteq Orbit(neighbor, l)
    BY <1>3, <1>8, OrbitKept
  <1> QED BY <1>1, <1>7, <1>8, <1>9 DEF WalkTo

(* The search for the last child changes no ring.                          *)
LEMMA SearchRing ==
  ASSUME TypeOK, Shape, Whole, NEW c \in Task, CreateTest(c) \/ CreateHead(c) \/ CreateWalk(c),
         fault' = "none"
  PROVE  Whole'
  <1>1. /\ c \in live /\ pc[c] \in Unlinked /\ pc'[c] \in Unlinked
        /\ live' = live /\ parent' = parent /\ next' = next /\ neighbor' = neighbor
        /\ orphans' = orphans /\ ready' = ready
        /\ loc'[c].new = loc[c].new
        /\ \A d \in Task \ {c} : loc'[d] = loc[d] /\ pc'[d] = pc[d]
    BY DEF Shape, Running, CreateTest, CreateHead, CreateWalk, WalkOn, tree, TypeOK
  <1>2. Linked' = Linked
    BY <1>1 DEF Linked, Building, TypeOK
  <1>3. \A u \in Linked : Follower(u)' = Follower(u)
    BY <1>1 DEF Follower, Building, Linked, TypeOK
  <1>4. \A u \in Linked' : Reached(u)'
    BY <1>1, <1>2, <1>3, RingsKept
  <1>5. /\ pc'[c] \in {"walk", "join"} => loc'[c].head \notin orphans
        /\ pc'[c] = "walk" => loc'[c].last \notin orphans
    <2>1. Fresh(c)
      BY <1>1 DEF Whole
    <2>2. CASE CreateTest(c)
      BY <2>2 DEF CreateTest, TypeOK
    <2>3. CASE CreateHead(c)
      BY <2>1, <2>3 DEF CreateHead, Running, TypeOK, Fresh
    <2>4. CASE CreateWalk(c)
      <3>1. pc[c] = "walk" /\ loc[c].head \notin orphans /\ loc[c].last \notin orphans
        BY <2>1, <2>4 DEF CreateWalk, Running, Fresh
      <3>2. neighbor[loc[c].last] \notin orphans
        BY <1>1, <3>1, WalkStands DEF Whole, Reached
      <3> QED BY <2>4, <3>1, <3>2 DEF CreateWalk, WalkOn, TypeOK
    <2> QED BY <2>2, <2>3, <2>4
  <1>6. ASSUME NEW d \in live PROVE Fresh(d)'
    <2>1. Fresh(d) /\ d \in Task
      BY DEF Whole, TypeOK
    <2>2. CASE d = c
      BY <1>1, <1>5, <2>1, <2>2 DEF Fresh
    <2>3. CASE d # c
      BY <1>1, <2>1, <2>3 DEF Fresh
    <2> QED BY <2>2, <2>3
  <1> QED BY <1>1, <1>4, <1>6 DEF Whole

LEMMA JoinRing ==
  ASSUME TypeOK, Shape, Whole, NEW c \in Task, CreateJoin(c)
  PROVE  Whole'
  <1>0. /\ pc[c] = "join" /\ c \in live
        /\ loc[c].new \in live /\ parent[loc[c].new] = c
        /\ loc[c].head \in Linked /\ parent[loc[c].head] = c /\ loc[c].last \in Linked
        /\ parent[loc[c].last] = c /\ neighbor[loc[c].last] = loc[c].head
    BY DEF CreateJoin, Running, Shape, Creation
  <1>1. PICK n \in live, h \in Linked, l \in Linked :
          n = loc[c].new /\ h = loc[c].head /\ l = loc[c].last
    BY <1>0
  <1>2. /\ live' = live /\ orphans' = orphans /\ parent' = parent /\ ready' = ready /\ loc' = loc
        /\ next' = next /\ neighbor' = [neighbor EXCEPT ![l] = n]
        /\ pc' = [pc EXCEPT ![c] = "close"]
    BY <1>1 DEF CreateJoin
  <1>3. /\ parent[n] = c /\ n # c /\ n # main /\ n \notin Linked /\ n \notin orphans
        /\ h \notin orphans /\ parent[h] = c /\ parent[l] = c /\ Follower(l) = h
    BY <1>0, <1>1 DEF Shape, Lineage, Linked, Building, Follower, Whole, Fresh
  <1>4. Linked \subseteq live /\ live \subseteq Task
    BY DEF Linked, TypeOK
  <1>5. /\ neighbor'[l] = n /\ \A u \in Task \ {l} : neighbor'[u] = neighbor[u]
        /\ pc'[c] = "close" /\ \A u \in Task \ {c} : pc'[u] = pc[u]
    BY <1>2, <1>4 DEF TypeOK
  <1>6. Linked' = Linked \cup {n}
    BY <1>0, <1>1, <1>2, <1>3, <1>4, <1>5 DEF Linked, Building, Shape
  <1>7. \A u \in Linked : Building(u, {"close"})' <=> Building(u, {"close"})
    BY <1>0, <1>1, <1>2, <1>3, <1>4, <1>5 DEF Building
  <1>8. \A u \in Linked : u # l => Follower(u)' = Follower(u)
    BY <1>2, <1>4, <1>5, <1>7 DEF Follower
  <1>9. Follower(l)' = n
    <2>1. ~Building(l, {"close"})
      BY <1>0, <1>3 DEF Building
    <2> QED BY <1>5, <1>7, <2>1 DEF Follower
  <1>10. Follower(n)' = h
    BY <1>0, <1>1, <1>2, <1>3, <1>5 DEF Follower, Building
  <1>11. /\ Ring'[l] = n /\ Ring'[n] = h /\ Ring[l] = h
         /\ \A u \in Linked : u # l => Ring'[u] = Ring[u]
    BY <1>3, <1>4, <1>8, <1>9, <1>10 DEF Ring
  <1>12. ASSUME NEW x \in Linked PROVE Orbit(Ring, x) \subseteq Orbit(Ring', x)
    <2>1. \A v \in Orbit(Ring, x) : Ring[v] \in Task /\ (v # l => Ring'[v] = Ring[v])
      BY <1>11, <1>12, RingIs
    <2>2. x \in Task /\ n \in Task
      BY <1>4
    <2> QED BY <1>11, <2>1, <2>2, OrbitInserted
  <1>13. /\ l \notin orphans /\ next[c] \in Linked /\ next[c] # NULL
         /\ l \in Orbit(Ring, next[c]) /\ l \in Orbit(Ring, h)
    BY <1>3 DEF Whole, Reached, Shape, OwnChild
  <1>14. \A x \in Task : l \in Orbit(Ring', x) => n \in Orbit(Ring', x)
    BY <1>4, <1>11, OrbitIs
  <1>15. h \in Task /\ n \in Task /\ l \in Orbit(Ring', h) /\ n \in Orbit(Ring', h)
    BY <1>4, <1>12, <1>13, <1>14
  <1>16. Orbit(Ring', h) \subseteq Orbit(Ring', n)
    <2>1. \A S \in SUBSET Task :
            n \in S /\ (\A v \in S : Ring'[v] \in S \cup {NULL}) => h \in S
      BY <1>3, <1>11, <1>15, TaskAssumption
    <2> QED BY <2>1 DEF Orbit
  <1>17. ASSUME NEW t \in Linked PROVE Reached(t)'
    <2>1. Reached(t) /\ Follower(t) \in Linked
      BY DEF Whole, Shape, InRings
    <2>2. t \notin orphans => next[parent[t]] \in Linked
      BY <2>1 DEF Reached, Shape, OwnChild
    <2>3. t \notin orphans => /\ parent'[t] \in live' /\ next'[parent'[t]] # NULL
                              /\ t \in Orbit(Ring', next'[parent'[t]])
      BY <1>2, <1>12, <2>1, <2>2 DEF Reached
    <2>4. CASE t = l
      BY <1>2, <1>3, <1>9, <1>13, <1>15, <1>16, <2>3, <2>4 DEF Reached
    <2>5. CASE t # l
      BY <1>2, <1>8, <1>12, <2>1, <2>3, <2>5 DEF Reached
    <2> QED BY <2>4, <2>5
  <1>18. Reached(n)'
    <2>1. l \in Orbit(Ring', next[c]) /\ next[c] \in Task
      BY <1>4, <1>12, <1>13
    <2>2. n \in Orbit(Ring', next[c])
      BY <1>14, <2>1
    <2> QED BY <1>0, <1>2, <1>3, <1>10, <1>13, <1>15, <2>2 DEF Reached
  <1>19. ASSUME NEW d \in live PROVE Fresh(d)'
    <2>1. Fresh(d) /\ d \in Task /\ Fresh(c)
      BY <1>0, <1>4 DEF Whole
    <2> QED BY <1>0, <1>2, <1>5, <2>1 DEF Fresh
  <1> QED BY <1>2, <1>6, <1>17, <1>18, <1>19 DEF Whole

LEMMA CloseRing ==
  ASSUME TypeOK, Shape, Whole, NEW c \in Task, CreateClose(c)
  PROVE  Whole'
  <1>0. PICK n \in Task : n = loc[c].new
    BY DEF CreateClose, Running, TypeOK
  <1>1. /\ live' = live /\ orphans' = orphans /\ parent' = parent /\ ready' = ready /\ loc' = loc
        /\ next' = next /\ neighbor' = [neighbor EXCEPT ![n] = loc[c].head]
        /\ pc' = [pc EXCEPT ![c] = "stack"] /\ pc[c] = "close"
    BY <1>0 DEF CreateClose, Running
  <1>2. c \in live /\ parent[n] = c
    BY <1>0, <1>1 DEF CreateClose, Running, Shape, Creation
  <1>3. Linked \subseteq live /\ live \subseteq Task
    BY DEF Linked, TypeOK
  <1>4. /\ neighbor'[n] = loc[c].head /\ \A u \in Task \ {n} : neighbor'[u] = neighbor[u]
        /\ pc'[c] = "stack" /\ \A u \in Task \ {c} : pc'[u] = pc[u]
    BY <1>1 DEF TypeOK
  <1>5. Linked' = Linked
    BY <1>1, <1>2, <1>3, <1>4 DEF Linked, Building
  <1>6. \A u \in Linked : Follower(u)' = Follower(u)
    BY <1>0, <1>1, <1>2, <1>3, <1>4 DEF Follower, Building
  <1>7. \A u \in Linked' : Reached(u)'
    BY <1>1, <1>5, <1>6, RingsKept
  <1>8. ASSUME NEW d \in live PROVE Fresh(d)'
    <2>1. Fresh(d) /\ d \in Task
      BY <1>3 DEF Whole
    <2> QED BY <1>1, <1>4, <2>1 DEF Fresh
  <1> QED BY <1>1, <1>7, <1>8 DEF Whole

LEMMA FinishRing ==
  ASSUME TypeOK, Shape, Whole, NEW c \in Task,
         CreateStack(c) \/ CreateList(c) \/ ExecMap(c) \/ TaskReturn(c)
  PROVE  Whole'
  <1>1. /\ c \in live
        /\ live' = live /\ parent' = parent /\ next' = next /\ neighbor' = neighbor
        /\ orphans' = orphans
        /\ \A d \in Task \ {c} : pc'[d] = pc[d] /\ loc'[d] = loc[d]
        /\ pc[c] \notin Unlinked \cup {"close"} /\ pc'[c] \notin Unlinked \cup {"close"}
        /\ pc'[c] \notin {"run", "dead"} => loc'[c] = loc[c] /\ pc[c] \notin {"run", "dead"}
    BY DEF TypeOK, CreateStack, CreateList, ExecMap, TaskReturn, Running, Shape
  <1>2. \A u \in Task : u # loc[c].new \/ pc[c] \in {"run", "dead"} => (ready'[u] <=> ready[u])
    BY DEF TypeOK, CreateStack, CreateList, ExecMap, TaskReturn, Running
  <1>3. Linked \subseteq live /\ live \subseteq Task
    BY DEF Linked, TypeOK
  <1>4. Linked' = Linked
    BY <1>1, <1>3 DEF Linked, Building
  <1>5. \A u \in Linked : Follower(u)' = Follower(u)
    BY <1>1, <1>3 DEF Follower, Building
  <1>6. \A u \in Linked' : Reached(u)'
    BY <1>1, <1>4, <1>5, RingsKept
  <1>7. ASSUME NEW d \in live PROVE Fresh(d)'
    <2>1. Fresh(d) /\ d \in Task
      BY <1>3 DEF Whole
    <2>2. CASE d = c
      BY <1>1, <2>1, <2>2 DEF Fresh
    <2>3. CASE d # c
      <3>1. pc'[d] = pc[d] /\ loc'[d] = loc[d] /\ next' = next /\ orphans' = orphans
        BY <1>1, <2>1, <2>3
      <3>2. pc[d] \in Unlinked \cup {"close"} => ~ready'[loc[d].new]
        <4> SUFFICES ASSUME pc[d] \in Unlinked \cup {"close"} PROVE ~ready'[loc[d].new]
          OBVIOUS
        <4>1. parent[loc[d].new] = d /\ loc[d].new \in Task /\ ~ready[loc[d].new]
          BY <1>3, <2>1 DEF Shape, Creation, Fresh
        <4>2. pc[c] \notin {"run", "dead"} => parent[loc[c].new] = c
          BY <1>1 DEF Shape, Creation
        <4> QED BY <1>2, <2>3, <4>1, <4>2
      <3> QED BY <2>1, <3>1, <3>2 DEF Fresh
    <2> QED BY <2>2, <2>3
  <1> QED BY <1>1, <1>6, <1>7 DEF Whole

(* schedule() moves next along a ring that is not open: the gap is before  *)
(* a task without a stack.                                                 *)
LEMMA ScheduleRing ==
  ASSUME TypeOK, Shape, Whole, Schedule, fault' = "none"
  PROVE  Whole'
  <1>1. /\ live' = live /\ orphans' = orphans /\ parent' = parent /\ ready' = ready /\ loc' = loc
        /\ neighbor' = neighbor /\ pc' = pc /\ fault = "none"
        /\ next' = Rotate(current, next, neighbor)
    BY DEF Schedule
  <1>2. PICK c \in live : c = current
    BY DEF Shape
  <1>3. Linked \subseteq live /\ live \subseteq Task
    BY DEF Linked, TypeOK
  <1>4. Linked' = Linked /\ Ring' = Ring /\ \A u \in Linked : Follower(u)' = Follower(u)
    BY <1>1 DEF Linked, Ring, Follower, Building
  <1>5. CASE Stays(c, next)
    <2>1. next' = next
      BY <1>1, <1>2, <1>5 DEF Rotate
    <2>2. \A u \in Linked' : Reached(u)'
      BY <1>1, <1>4, <2>1, RingsKept
    <2> QED BY <1>1, <2>1, <2>2 DEF Whole, Fresh
  <1>6. CASE ~Stays(c, next)
    <2>1. PICK x \in Linked : x = next[c] /\ parent[x] = c
      BY <1>2, <1>6 DEF Stays, Shape, OwnChild
    <2>2. ready[x]
      BY <1>1, <1>2, <1>6, <2>1 DEF Schedule, SwitchTo, Target
    <2>3. ~Building(x, {"close"})
      BY <1>2, <2>1, <2>2 DEF Building, Whole, Fresh
    <2>4. PICK y \in Linked : y = Follower(x) /\ y = neighbor[x] /\ y \notin orphans
      <3>1. x \notin orphans
        BY <2>1 DEF Whole, Fresh
      <3> QED BY <2>3, <3>1 DEF Follower, Whole, Reached, Shape, InRings
    <2>5. next'[c] = y /\ \A u \in Task \ {c} : next'[u] = next[u]
      BY <1>1, <1>2, <1>3, <1>6, <2>1, <2>4 DEF Rotate, TypeOK
    <2>6. Orbit(Ring, x) \subseteq Orbit(Ring, y)
      <3>1. x \in Orbit(Ring, y)
        BY <2>4 DEF Whole, Reached
      <3>2. \A v \in Orbit(Ring, y) : Ring[v] \in Orbit(Ring, y)
        BY RingIs
      <3>3. Orbit(Ring, y) \in SUBSET Task
        BY <1>3, RingIs
      <3> QED BY <3>1, <3>2, <3>3, OrbitIn
    <2>7. ASSUME NEW t \in Linked PROVE Reached(t)'
      <3>1. Reached(t)
        BY DEF Whole
      <3>2. CASE parent[t] = c
        BY <1>1, <1>3, <1>4, <2>1, <2>4, <2>5, <2>6, <3>1, <3>2, TaskAssumption DEF Reached
      <3>3. CASE parent[t] # c
        BY <1>1, <1>3, <1>4, <2>5, <3>1, <3>3 DEF Reached
      <3> QED BY <3>2, <3>3
    <2>8. ASSUME NEW d \in live PROVE Fresh(d)'
      <3>1. Fresh(d) /\ d \in Task
        BY <1>3 DEF Whole
      <3> QED BY <1>1, <2>4, <2>5, <3>1 DEF Fresh
    <2> QED BY <1>1, <1>4, <2>7, <2>8 DEF Whole
  <1> QED BY <1>5, <1>6

LEMMA KillRing ==
  ASSUME TypeOK, Shape, Whole, NEW c \in Task, NEW t \in Task, Kill(c, t), ~torn'
  PROVE  Whole'
  <1>1. KillFits(c, t)
    BY KillCuts
  <1>2. PICK p \in Linked : CutAfter(p, t)
    BY KillCuts
  <1>3. /\ t \in Linked /\ parent[t] # t /\ t # NULL
        /\ ~Building(t, {"close"}) /\ ~Building(p, {"close"})
    BY <1>1, <1>2 DEF KillFits, CutAfter, Building, Shape, Lineage, Linked
  <1>4. /\ neighbor[t] = Follower(t) /\ neighbor[t] \in Linked /\ parent[neighbor[t]] = parent[t]
        /\ parent[p] = parent[t] /\ neighbor[p] = t /\ Follower(p) = t
    BY <1>2 DEF CutAfter
  <1>5. /\ live' = live \ {t} /\ parent' = parent /\ pc' = pc /\ loc' = loc /\ ready' = ready
        /\ orphans' = (orphans \cup {u \in live : parent[u] = t}) \ {t}
    BY <1>2 DEF CutAfter
  <1>6. /\ Linked' = Linked \ {t}
        /\ \A u \in Linked' : u # p => Follower(u)' = Follower(u)
        /\ p # t => Follower(p)' = Follower(t) /\ neighbor[t] # t
        /\ \A u \in Linked : u # p => Follower(u) # t
    BY <1>2 DEF CutAfter
  <1>7. \A u \in live' : next'[u] = NextWithout(t)[u]
    BY <1>2 DEF CutAfter
  <1>8. Linked \subseteq live /\ live \subseteq Task
    BY DEF Linked, TypeOK
  <1>9. \A u \in Task : NextWithout(t)[u] =
          IF u = parent[t] /\ next[u] = t
          THEN IF neighbor[t] = t THEN NULL ELSE neighbor[t] ELSE next[u]
    BY <1>1 DEF KillFits, NextWithout, TypeOK
  <1>10. ASSUME NEW x \in Linked, x # t PROVE Orbit(Ring, x) \ {t} \subseteq Orbit(Ring', x)
    <2>1. \A v \in Orbit(Ring, x) : /\ Ring[v] \in Task
                                    /\ v # p => Ring[v] # t
                                    /\ v # p /\ v # t => Ring'[v] = Ring[v]
      BY <1>6, <1>8, RingIs DEF Ring
    <2>2. CASE p # t
      <3>1. Ring[p] = t /\ Ring'[p] = Ring[t]
        BY <1>3, <1>4, <1>6, <1>8, <2>2 DEF Ring
      <3>2. x \in Task
        BY <1>8
      <3> QED BY <1>10, <2>1, <3>1, <3>2, OrbitRemoved
    <2>3. CASE p = t
      <3> DEFINE S == Orbit(Ring, x) \ {t}
      <3>1. S \in SUBSET Task /\ x \in S /\ \A v \in S : Ring[v] \in S \cup {NULL}
        BY <1>8, <1>10, <2>1, <2>3, RingIs
      <3> HIDE DEF S
      <3>2. Orbit(Ring, x) \subseteq S
        BY <3>1, OrbitIn
      <3>3. \A v \in Orbit(Ring, x) : v # t
        BY <3>2 DEF S
      <3> QED BY <1>8, <2>1, <2>3, <3>3, OrbitKept
    <2> QED BY <2>2, <2>3
  <1>11. ASSUME NEW u \in Linked \ {t}, u \notin orphans'
         PROVE  /\ parent'[u] \in live'
                /\ next'[parent'[u]] # NULL
                /\ u \in Orbit(Ring', next'[parent'[u]])
    <2>1. u \notin orphans /\ parent[u] # t /\ Reached(u)
      BY <1>5, <1>8, <1>11 DEF Whole
    <2>2. PICK q \in live' : q = parent[u] /\ q # t /\ q \in Task /\ q \in live
      BY <1>5, <1>8, <2>1 DEF Reached
    <2>3. PICK h \in Linked : h = next[q] /\ parent[h] = q /\ u \in Orbit(Ring, h)
      BY <2>1, <2>2 DEF Reached, Shape, OwnChild
    <2>4. CASE h # t
      <3>1. next'[q] = h /\ u \in Orbit(Ring', h) /\ h # NULL
        BY <1>7, <1>8, <1>9, <1>10, <1>11, <2>2, <2>3, <2>4, TaskAssumption
      <3> QED BY <1>5, <2>2, <3>1
    <2>5. CASE h = t
      <3>1. PICK z \in Linked : z = neighbor[t] /\ z = Follower(t)
        BY <1>4
      <3>2. u \in {t} \cup Orbit(Ring, z)
        <4> DEFINE S == {t} \cup Orbit(Ring, z)
        <4>1. S \in SUBSET Task /\ t \in S /\ \A v \in S : Ring[v] \in S \cup {NULL}
          <5>1. Ring[t] = z
            BY <1>3, <1>8, <3>1 DEF Ring
          <5> QED BY <1>8, <5>1, RingIs
        <4> HIDE DEF S
        <4>2. Orbit(Ring, t) \subseteq S
          BY <4>1, OrbitIn
        <4> QED BY <2>3, <2>5, <4>2 DEF S
      <3>3. z # t
        <4> SUFFICES ASSUME z = t PROVE FALSE
          OBVIOUS
        <4>1. Ring[t] = t
          BY <1>3, <1>8, <3>1 DEF Ring
        <4>2. {t} \in SUBSET Task /\ \A v \in {t} : Ring[v] \in {t} \cup {NULL}
          BY <4>1
        <4>3. Orbit(Ring, t) \subseteq {t}
          BY <4>2, OrbitIn
        <4> QED BY <1>11, <2>3, <2>5, <4>3
      <3>4. next'[q] = z /\ u \in Orbit(Ring', z) /\ z # NULL
        BY <1>4, <1>7, <1>8, <1>9, <1>10, <1>11, <2>2, <2>3, <2>5, <3>1, <3>2, <3>3, TaskAssumption
      <3> QED BY <1>5, <2>2, <3>4
    <2> QED BY <2>4, <2>5
  <1>12. ASSUME NEW u \in Linked' PROVE Reached(u)'
    <2>1. u \in Linked /\ u # t /\ Reached(u) /\ Reached(t) /\ Reached(p)
      BY <1>3, <1>6 DEF Whole
    <2>2. PICK y \in Linked : y = Follower(u) /\ parent[y] = parent[u]
      BY <2>1 DEF Shape, InRings
    <2>3. PICK z \in Linked : z = Follower(t) /\ parent[z] = parent[t]
      BY <1>4
    <2>4. CASE u = p
      <3>1. Follower(u)' = z /\ y = t /\ z # t
        BY <1>4, <1>6, <2>1, <2>2, <2>3, <2>4
      <3>2. p \in Orbit(Ring, z)
        <4> DEFINE S == {t} \cup Orbit(Ring, z)
        <4>1. S \in SUBSET Task /\ t \in S /\ \A v \in S : Ring[v] \in S \cup {NULL}
          <5>1. Ring[t] = z
            BY <1>3, <1>8, <2>3 DEF Ring
          <5> QED BY <1>8, <5>1, RingIs
        <4> HIDE DEF S
        <4>2. Orbit(Ring, t) \subseteq S
          BY <4>1, OrbitIn
        <4>3. p \in Orbit(Ring, t)
          BY <1>4, <2>1 DEF Reached
        <4> QED BY <2>1, <2>4, <4>2, <4>3 DEF S
      <3>3. p \in Orbit(Ring', z)
        BY <1>10, <2>1, <2>4, <3>1, <3>2
      <3>4. z \in orphans <=> p \in orphans
        BY <1>4, <2>1, <2>3 DEF Reached
      <3>5. z \in orphans' <=> p \in orphans'
        BY <1>4, <1>5, <1>8, <2>1, <2>3, <2>4, <3>1, <3>4
      <3> QED BY <1>11, <2>1, <2>4, <3>1, <3>3, <3>5 DEF Reached
    <2>5. CASE u # p
      <3>1. Follower(u)' = y /\ y # t
        BY <1>6, <2>1, <2>2, <2>5
      <3>2. u \in Orbit(Ring', y)
        BY <1>10, <2>1, <2>2, <3>1 DEF Reached
      <3>3. y \in orphans' <=> u \in orphans'
        BY <1>5, <1>8, <2>1, <2>2, <3>1 DEF Reached
      <3> QED BY <1>11, <2>1, <3>1, <3>2, <3>3 DEF Reached
    <2> QED BY <2>4, <2>5
  <1>13. ASSUME NEW d \in live' PROVE Fresh(d)'
    <2>1. d \in live /\ d # t /\ d \in Task /\ Fresh(d)
      BY <1>5, <1>8 DEF Whole
    <2>2. \A u \in Task : parent[u] = d /\ u \notin orphans => u \notin orphans'
      BY <1>5, <2>1
    <2>3. next'[d] \notin orphans'
      <3>1. NULL \notin orphans'
        BY <1>5, <1>8, TaskAssumption DEF Whole
      <3>2. CASE d = parent[t] /\ next[d] = t
        <4>1. neighbor[t] \notin orphans
          BY <1>3, <1>4, <2>1, <3>2 DEF Fresh, Whole, Reached
        <4> QED BY <1>4, <1>7, <1>8, <1>9, <2>1, <2>2, <3>1, <3>2, <4>1
      <3>3. CASE ~(d = parent[t] /\ next[d] = t)
        <4>1. next'[d] = next[d] /\ next[d] \notin orphans
          BY <1>7, <1>9, <2>1, <3>3 DEF Fresh
        <4>2. next[d] # NULL => next[d] \in Task /\ parent[next[d]] = d
          BY <1>8, <2>1 DEF Shape, OwnChild
        <4> QED BY <2>2, <3>1, <4>1, <4>2
      <3> QED BY <3>2, <3>3
    <2>4. pc[d] \notin {"run", "dead"} => loc[d].new \notin orphans'
      BY <1>8, <2>1, <2>2 DEF Shape, Creation, Fresh
    <2>5. /\ pc[d] \in {"walk", "join", "close"} => loc[d].head \notin orphans'
          /\ pc[d] = "walk" => loc[d].last \notin orphans'
      BY <1>8, <2>1, <2>2 DEF Shape, Creation, Fresh
    <2> QED BY <1>5, <2>1, <2>3, <2>4, <2>5 DEF Fresh
  <1>14. orphans' \subseteq live'
    BY <1>5 DEF Whole
  <1> QED BY <1>12, <1>13, <1>14 DEF Whole

(* Nor does the search of kill_task go on for ever.                        *)
LEMMA KillHangRing ==
  ASSUME TypeOK, Shape, Whole, NEW c \in Task, NEW t \in Task, KillHang(c, t), ~torn'
  PROVE  FALSE
  <1>1. t \in reg /\ parent[t] # NULL /\ Prev(t) = {} /\ ~Tears(t)
    BY DEF KillHang, InRing
  <1>2. t \in Linked
    BY <1>1 DEF Shape
  <1>3. ~(parent[t] \in live /\ pc[parent[t]] = "close")
    BY <1>1 DEF Tears
  <1> QED BY <1>1, <1>2, <1>3, WalkEnds DEF Prev

LEMMA InitRing == Init => RingInv
  <1> SUFFICES ASSUME Init PROVE fault = "none" /\ Whole
    BY InitTree DEF RingInv
  <1>1. Linked = {}
    BY DEF Init, Linked
  <1>2. \A c \in live : Fresh(c)
    BY DEF Init, Fresh
  <1> QED BY <1>1, <1>2 DEF Init, Whole

LEMMA StepRing == RingInv /\ [Next]_vars => RingInv'
  <1> SUFFICES ASSUME RingInv, [Next]_vars, ~torn'
               PROVE  fault' # "hang" /\ (fault' = "none" => Whole')
    BY StepTree DEF RingInv
  <1>1. TypeOK /\ (~torn => Shape /\ fault # "hang" /\ (fault = "none" => Whole))
    BY DEF RingInv, TreeInv
  <1>2. CASE UNCHANGED vars
    <2>1. ~torn /\ (Whole' <=> Whole) /\ fault' = fault
      BY <1>2 DEF vars, tree, Whole, Reached, Fresh, Ring, Follower, Building, Linked
    <2> QED BY <1>1, <2>1
  <1>3. ASSUME NEW c \in Task, NEW t \in Task, NEW k \in Kinds, CreateAlloc(c, t, k)
        PROVE  fault' = "none" /\ Whole'
    <2>1. fault = "none" /\ fault' = "none" /\ ~torn
      BY <1>3 DEF CreateAlloc, Running
    <2> QED BY <1>1, <1>3, <2>1, AllocRing
  <1>4. ASSUME NEW c \in Task, CreateTest(c) \/ CreateHead(c) \/ CreateWalk(c)
        PROVE  fault' = "none" /\ Whole'
    <2>1. fault = "none" /\ ~torn
      BY <1>4 DEF CreateTest, CreateHead, CreateWalk, Running
    <2> QED BY <1>1, <1>4, <2>1, SearchTree, SearchRing
  <1>5. ASSUME NEW c \in Task, \/ CreateFirst(c) \/ CreateJoin(c) \/ CreateClose(c)
                               \/ CreateStack(c) \/ CreateList(c) \/ ExecMap(c)
                               \/ TaskReturn(c)
        PROVE  fault' = "none" /\ Whole'
    <2>1. fault = "none" /\ fault' = "none" /\ ~torn
      BY <1>5 DEF CreateFirst, CreateJoin, CreateClose, CreateStack, CreateList, ExecMap,
                  TaskReturn, Running
    <2> QED BY <1>1, <1>5, <2>1, FirstRing, JoinRing, CloseRing, FinishRing
  <1>6. CASE Schedule
    <2>1. fault = "none" /\ ~torn /\ fault' # "hang"
      BY <1>6 DEF Schedule, SwitchTo
    <2> QED BY <1>1, <1>6, <2>1, ScheduleRing
  <1>7. ASSUME NEW c \in Task, NEW t \in Task, Kill(c, t)
        PROVE  fault' # "hang" /\ Whole'
    <2>1. fault = "none" /\ ~torn /\ fault' # "hang"
      BY <1>7 DEF Kill, MayKillNow, Running, KillWith, Remove, SwitchTo
    <2> QED BY <1>1, <1>7, <2>1, KillRing
  <1>8. ASSUME NEW c \in Task, NEW t \in Task, KillHang(c, t)
        PROVE  FALSE
    <2>1. fault = "none" /\ ~torn
      BY <1>8 DEF KillHang, MayKillNow, Running
    <2> QED BY <1>1, <1>8, <2>1, KillHangRing
  <1> QED BY <1>2, <1>3, <1>4, <1>5, <1>6, <1>7, <1>8 DEF Next, Advance

LEMMA RingSuffices == RingInv => NoTaskLost
  <1> SUFFICES ASSUME RingInv, ~torn PROVE NoTaskLost
    BY DEF NoTaskLost
  <1>1. TypeOK /\ Shape /\ fault # "hang" /\ (fault = "none" => Whole)
    BY DEF RingInv, TreeInv
  <1>2. fault = "none" =>
          \A c \in live : pc[c] = "walk" => WalkTo(loc[c].last, loc[c].head) # {}
    BY <1>1, WalkReturns
  <1> QED BY <1>1, <1>2 DEF Whole, Reached, Ring, NoTaskLost

(* While its parent lives a task is met going round from the parent's      *)
(* next, and neither the walk of create_task nor the search of kill_task   *)
(* ever hangs -- whatever the number of tasks and however creations, kills *)
(* and timer interrupts interleave, short of a kill that tears the tree.   *)
THEOREM NoTaskLostHolds == Spec => []NoTaskLost
  BY InitRing, StepRing, RingSuffices, PTL DEF Spec
=============================================================================
