------------------------ MODULE SimpleSocket_proofs ------------------------
(***************************************************************************)
(* What TLAPS proves of SimpleSocket, for any number of tasks, of sockets  *)
(* and of entries of Sock: while one task opens all sockets, no two tasks  *)
(* have the same descriptor, each socket in use has an event group of its  *)
(* own, and no group is lost.  The first needs that an entry seen free     *)
(* stays free until it is claimed, which only holds for one opener; the    *)
(* others need the first.  That no descriptor is lost and no mark stays    *)
(* behind holds for any number of openers.                                 *)
(***************************************************************************)
EXTENDS SimpleSocket, TLAPS

\* An owner's entry is taken, and one that is about to be claimed is not.
Taken ==
  \A t \in Tasks :
     /\ Owns(t) => fd[t] < NumSockets /\ conn[fd[t]]
     /\ pc[t] = "claim" => fd[t] < NumSockets /\ ~conn[fd[t]]

\* Only an opener scans and claims.
Roles == \A c \in Closers : pc[c] \in {"idle", "use", "close", "unmark"}

\* What is written to Sock lies in it, or just behind it.
InSock == \A t \in Tasks : pc[t] \in {"group", "mark", "use"} => fd[t] \in Entries

IInv == TypeOK /\ Taken /\ Roles /\ OneOwner /\ InSock /\ OwnGroup /\ NothingLost

\* There is one opener: two tasks that both are openers are the same.
SoleOpener == \A t, u \in Openers : t = u

Pcs == {"idle", "scan", "claim", "check", "reject", "group", "mark", "use", "close", "unmark"}

-----------------------------------------------------------------------------
\* Initially no task has a descriptor.
LEMMA InitIInv == Init => IInv
<1> SUFFICES ASSUME Init PROVE IInv
  OBVIOUS
<1>1. \A t \in Tasks : pc[t] = "idle"
  BY DEF Init
<1>2. TypeOK
  BY SizesAssumption DEF Init, TypeOK
<1>3. Taken /\ Roles /\ OneOwner /\ InSock /\ OwnGroup
  BY <1>1 DEF Taken, Roles, OneOwner, Owns, InSock, OwnGroup, Tasks
<1>4. NothingLost
  BY SizesAssumption DEF Init, NothingLost, NoGroupLost, NoDescriptorLost, MarkIsOwned, Entries
<1> QED
  BY <1>2, <1>3, <1>4 DEF IInv

LocalType == /\ pc \in [Tasks -> Pcs]
             /\ fd \in [Tasks -> 0..NumSockets]
             /\ accepts \in [Tasks -> BOOLEAN]
TableType == /\ conn \in [0..(NumSockets - 1) -> BOOLEAN]
             /\ isSocket \in [Entries -> BOOLEAN]
             /\ events \in [Entries -> Groups \cup {0}]
             /\ alive \subseteq Groups

\* The types of what a task has and those of the tables.
LEMMA TypeParts == TypeOK <=> LocalType /\ TableType
BY DEF TypeOK, LocalType, TableType, Pcs

\* The end of a call keeps the types of what a task has.
LEMMA ReturnType == ASSUME LocalType, NEW t \in Tasks, Return(t) PROVE LocalType'
<1>1. 0 \in 0..NumSockets
  BY SizesAssumption
<1>2. pc' \in [Tasks -> Pcs]
  BY DEF Return, LocalType, Pcs
<1>3. fd' \in [Tasks -> 0..NumSockets]
  BY <1>1 DEF Return, LocalType
<1>4. accepts' \in [Tasks -> BOOLEAN]
  BY DEF Return, LocalType
<1> QED
  BY <1>2, <1>3, <1>4 DEF LocalType

\* A step to the next statement keeps them.
LEMMA GotoType == ASSUME LocalType, NEW t \in Tasks, NEW l \in Pcs, Goto(t, l) PROVE LocalType'
BY DEF Goto, LocalType

\* Every step of a task keeps the types of what is its own.
LEMMA StepLocal == ASSUME LocalType, NEW t \in Tasks, Step(t) PROVE LocalType'
<1>1. CASE Begin(t)
  BY <1>1 DEF Begin, LocalType, Pcs
<1>2. CASE Refused(t)
  BY <1>2, ReturnType DEF Refused, NoDescriptor
<1>3. CASE Scan(t)
  <2>1. CASE NoDescriptor(t)
    BY <2>1, ReturnType DEF NoDescriptor
  <2>2. CASE fd[t] < NumSockets /\ conn[fd[t]] /\ ~NoDescriptor(t)
    <3>1. fd[t] \in 0..NumSockets
      BY DEF LocalType
    <3>2. fd[t] + 1 \in 0..NumSockets
      BY <3>1, <2>2, SizesAssumption
    <3>3. fd' = [fd EXCEPT ![t] = @ + 1] /\ UNCHANGED <<pc, accepts>>
      BY <1>3, <2>2 DEF Scan
    <3> QED
      BY <3>2, <3>3 DEF LocalType
  <2>3. CASE ~(conn[fd[t]] /\ fd[t] < NumSockets) /\ ~NoDescriptor(t)
    <3>1. Goto(t, "claim")
      BY <1>3, <2>3 DEF Scan
    <3> QED
      BY <3>1, GotoType DEF Pcs
  <2> QED
    BY <2>1, <2>2, <2>3
<1>4. CASE Claim(t) \/ Group(t) \/ Mark(t) \/ DeleteGroup(t) \/ Free(t)
  <2>1. PICK l \in Pcs : Goto(t, l)
    BY <1>4 DEF Claim, Group, Mark, DeleteGroup, Free, Pcs
  <2> QED
    BY <2>1, GotoType
<1>5. CASE Check(t)
  <2>1. Return(t) \/ Goto(t, "reject") \/ Goto(t, "group")
    BY <1>5 DEF Check
  <2> QED
    BY <2>1, ReturnType, GotoType DEF Pcs
<1>6. CASE Reject(t) \/ Unmark(t)
  BY <1>6, ReturnType DEF Reject, Unmark
<1>7. ASSUME NEW c \in Closers, HandOver(t, c) PROVE LocalType'
  <2>1. c \in Tasks /\ 0 \in 0..NumSockets /\ fd[t] \in 0..NumSockets
    BY SizesAssumption DEF LocalType, Tasks
  <2>2. pc' \in [Tasks -> Pcs]
    BY <1>7, <2>1 DEF HandOver, LocalType, Pcs
  <2>3. fd' \in [Tasks -> 0..NumSockets]
    BY <1>7, <2>1 DEF HandOver, LocalType
  <2>4. accepts' \in [Tasks -> BOOLEAN]
    BY <1>7, <2>1 DEF HandOver, LocalType
  <2> QED
    BY <2>2, <2>3, <2>4 DEF LocalType
<1> QED
  BY <1>1, <1>2, <1>3, <1>4, <1>5, <1>6, <1>7 DEF Step

\* ... and those of the tables.
LEMMA StepTable == ASSUME TableType, NEW t \in Tasks, Step(t) PROVE TableType'
<1>1. CASE Begin(t) \/ \E c \in Closers : HandOver(t, c)
  BY <1>1 DEF Begin, HandOver, TableType
<1>2. CASE NoDescriptor(t)
  BY <1>2 DEF NoDescriptor, TableType
<1>3. CASE Scan(t) /\ ~NoDescriptor(t)
  BY <1>3 DEF Scan, TableType
<1>4. CASE Claim(t) \/ Reject(t) \/ Free(t)
  BY <1>4 DEF Claim, Reject, Free, TableType
<1>5. CASE Check(t)
  BY <1>5 DEF Check, TableType
<1>6. CASE Mark(t) \/ Unmark(t)
  BY <1>6 DEF Mark, Unmark, TableType
<1>7. CASE Group(t)
  BY <1>7 DEF Group, TableType
<1>8. CASE DeleteGroup(t)
  BY <1>8 DEF DeleteGroup, TableType
<1> QED
  BY <1>1, <1>2, <1>3, <1>4, <1>5, <1>6, <1>7, <1>8 DEF Step, Refused

\* The types are kept by every step.
LEMMA NextType == TypeOK /\ [Next]_vars => TypeOK'
<1> SUFFICES ASSUME TypeOK, [Next]_vars PROVE TypeOK'
  OBVIOUS
<1>1. CASE \E t \in Tasks : Step(t)
  <2>1. PICK t \in Tasks : Step(t)
    BY <1>1
  <2>2. LocalType /\ TableType
    BY TypeParts
  <2>3. LocalType' /\ TableType'
    BY <2>1, <2>2, StepLocal, StepTable
  <2> QED
    BY <2>3 DEF TypeOK, LocalType, TableType, Pcs
<1>2. CASE UNCHANGED vars
  BY <1>2 DEF vars, TypeOK
<1> QED
  BY <1>1, <1>2 DEF Next

-----------------------------------------------------------------------------
(***************************************************************************)
(* One owner for each descriptor.                                          *)
(***************************************************************************)

HandsOver(t) == \E c \in Closers : HandOver(t, c)

\* A step of one task leaves the others where they are.
LEMMA OtherTask ==
  ASSUME LocalType, NEW t \in Tasks, Step(t), ~HandsOver(t), NEW u \in Tasks, u # t
  PROVE  pc'[u] = pc[u] /\ fd'[u] = fd[u]
<1>1. \A l : Goto(t, l) => pc'[u] = pc[u] /\ fd'[u] = fd[u]
  BY DEF Goto, LocalType
<1>2. Return(t) => pc'[u] = pc[u] /\ fd'[u] = fd[u]
  BY DEF Return, LocalType
<1>3. CASE Begin(t)
  BY <1>3 DEF Begin, LocalType
<1>4. CASE Refused(t)
  BY <1>4, <1>2 DEF Refused, NoDescriptor
<1>5. CASE Scan(t)
  BY <1>5, <1>1, <1>2 DEF Scan, NoDescriptor, LocalType
<1>6. CASE Check(t)
  BY <1>6, <1>1, <1>2 DEF Check
<1>7. CASE Claim(t) \/ Group(t) \/ Mark(t) \/ DeleteGroup(t) \/ Free(t)
  BY <1>7, <1>1 DEF Claim, Group, Mark, DeleteGroup, Free
<1>8. CASE Reject(t) \/ Unmark(t)
  BY <1>8, <1>2 DEF Reject, Unmark
<1> QED
  BY <1>3, <1>4, <1>5, <1>6, <1>7, <1>8 DEF Step, HandsOver

\* The four things that a step which is no hand-over does to the table.
Finds(t) == /\ pc[t] = "scan" /\ pc'[t] = "claim" /\ fd'[t] = fd[t]
            /\ conn' = conn /\ fd[t] < NumSockets /\ ~conn[fd[t]]
Takes(t) == /\ pc[t] = "claim" /\ pc'[t] = "check" /\ fd'[t] = fd[t]
            /\ conn' = [conn EXCEPT ![fd[t]] = TRUE]
Gives(t) == /\ pc[t] \in {"reject", "close"} /\ pc'[t] \in {"idle", "unmark"}
            /\ conn' = [conn EXCEPT ![fd[t]] = FALSE]
Keeps(t) == /\ conn' = conn /\ pc'[t] # "claim"
            /\ Owns(t)' => Owns(t) /\ fd'[t] = fd[t]

\* What a step does to sockets[]: it finds a free entry, takes or gives back its own, or keeps.
LEMMA TableStep ==
  ASSUME LocalType, NEW t \in Tasks, Step(t), ~HandsOver(t)
  PROVE  Finds(t) \/ Takes(t) \/ Gives(t) \/ Keeps(t)
<1>1. \A l : Goto(t, l) => pc'[t] = l /\ fd'[t] = fd[t]
  BY DEF Goto, LocalType
<1>2. Return(t) => pc'[t] = "idle"
  BY DEF Return, LocalType
<1>3. CASE Begin(t)
  BY <1>3 DEF Begin, LocalType, Keeps, Owns
<1>4. CASE NoDescriptor(t)
  BY <1>4, <1>2 DEF NoDescriptor, Keeps, Owns
<1>5. CASE Scan(t) /\ ~NoDescriptor(t)
  <2>1. CASE conn[fd[t]]
    BY <1>5, <2>1 DEF Scan, LocalType, Keeps, Owns
  <2>2. CASE ~conn[fd[t]]
    BY <1>5, <2>2, <1>1 DEF Scan, Finds
  <2> QED
    BY <2>1, <2>2
<1>6. CASE Claim(t)
  BY <1>6, <1>1 DEF Claim, Takes
<1>7. CASE Reject(t) \/ Free(t)
  BY <1>7, <1>1, <1>2 DEF Reject, Free, Gives
<1>8. CASE Check(t)
  BY <1>8, <1>1, <1>2 DEF Check, Keeps, Owns
<1>9. CASE Group(t) \/ Mark(t) \/ DeleteGroup(t)
  BY <1>9, <1>1 DEF Group, Mark, DeleteGroup, Keeps, Owns
<1>10. CASE Unmark(t)
  BY <1>10, <1>2 DEF Unmark, Keeps, Owns
<1> QED
  BY <1>3, <1>4, <1>5, <1>6, <1>7, <1>8, <1>9, <1>10 DEF Step, Refused, HandsOver

\* A closer never does what an opener does.
LEMMA RolesStep ==
  ASSUME LocalType, Roles, NEW t \in Tasks, Step(t) PROVE Roles'
<1> SUFFICES ASSUME NEW c \in Closers PROVE pc'[c] \in {"idle", "use", "close", "unmark"}
  BY DEF Roles
<1>1. c \in Tasks /\ pc[c] \in {"idle", "use", "close", "unmark"}
  BY DEF Roles, Tasks
<1>2. CASE HandsOver(t)
  BY <1>1, <1>2 DEF HandsOver, HandOver, LocalType
<1>3. CASE ~HandsOver(t) /\ c # t
  BY <1>1, <1>3, OtherTask
<1>4. CASE ~HandsOver(t) /\ c = t
  <2>1. c \notin Openers
    BY SizesAssumption
  <2>2. DeleteGroup(c) \/ Free(c) \/ Unmark(c)
    BY <1>1, <1>4, <2>1 DEF Step, HandsOver, Begin, Refused, Scan, Claim, Check, Reject, Group, Mark
  <2> QED
    BY <2>2, <1>1 DEF DeleteGroup, Free, Unmark, Goto, Return, LocalType
<1> QED
  BY <1>2, <1>3, <1>4

\* With one opener, what one task claims no other is about to claim.
LEMMA TakenStep ==
  ASSUME SoleOpener, TypeOK, Taken, Roles, OneOwner, NEW t \in Tasks, Step(t)
  PROVE  Taken' /\ OneOwner'
<1>1. LocalType
  BY TypeParts
<1>2. \A u \in Tasks : fd[u] \in Nat /\ (fd[u] < NumSockets => fd[u] \in DOMAIN conn)
  BY SizesAssumption DEF TypeOK
<1>3. \A u \in Tasks \ {t} : ~(pc[u] = "claim" /\ pc[t] = "claim")
  BY DEF SoleOpener, Roles, Tasks
<1>4. CASE HandsOver(t)
  <2>1. PICK c \in Closers : HandOver(t, c)
    BY <1>4 DEF HandsOver
  <2>2. c \in Tasks /\ c # t
    BY <2>1, SizesAssumption DEF HandOver, Tasks
  <2>3. pc'[t] = "idle" /\ pc'[c] = "use" /\ fd'[c] = fd[t] /\ conn' = conn /\ pc[t] = "use"
    BY <2>1, <2>2, <1>1 DEF HandOver, LocalType
  <2>4. \A u \in Tasks \ {t, c} : pc'[u] = pc[u] /\ fd'[u] = fd[u]
    BY <2>1, <1>1 DEF HandOver, LocalType
  <2>5. Taken'
    <3> SUFFICES ASSUME NEW u \in Tasks
                 PROVE  /\ Owns(u)' => fd'[u] < NumSockets /\ conn'[fd'[u]]
                        /\ pc'[u] = "claim" => fd'[u] < NumSockets /\ ~conn'[fd'[u]]
      BY DEF Taken
    <3>1. CASE u = t
      BY <3>1, <2>3 DEF Owns
    <3>2. CASE u = c
      BY <3>2, <2>3 DEF Taken, Owns
    <3>3. CASE u \notin {t, c}
      BY <3>3, <2>3, <2>4 DEF Taken, Owns
    <3> QED
      BY <3>1, <3>2, <3>3
  <2>6. OneOwner'
    <3> SUFFICES ASSUME NEW u \in Tasks, NEW v \in Tasks, u # v, Owns(u)', Owns(v)'
                 PROVE  fd'[u] # fd'[v]
      BY DEF OneOwner
    <3>1. u # t /\ v # t /\ Owns(t)
      BY <2>3 DEF Owns
    <3>2. CASE u = c
      BY <3>1, <3>2, <2>3, <2>4 DEF OneOwner, Owns
    <3>3. CASE v = c
      BY <3>1, <3>3, <2>3, <2>4 DEF OneOwner, Owns
    <3>4. CASE u # c /\ v # c
      BY <3>1, <3>4, <2>4 DEF OneOwner, Owns
    <3> QED
      BY <3>2, <3>3, <3>4
  <2> QED
    BY <2>5, <2>6
<1>5. CASE ~HandsOver(t)
  <2>1. \A u \in Tasks \ {t} : pc'[u] = pc[u] /\ fd'[u] = fd[u]
    BY <1>1, <1>5, OtherTask
  <2>2. \A u \in Tasks \ {t} : Owns(u)' <=> Owns(u)
    BY <2>1 DEF Owns
  <2>3. CASE Finds(t)
    <3>1. ~Owns(t)'
      BY <2>3 DEF Finds, Owns
    <3> QED
      BY <2>1, <2>2, <2>3, <3>1 DEF Finds, Taken, OneOwner
  <2>4. CASE Takes(t)
    <3>1. fd[t] \in DOMAIN conn /\ ~conn[fd[t]] /\ fd[t] < NumSockets
      BY <2>4, <1>2 DEF Takes, Taken
    <3>2. \A u \in Tasks \ {t} : Owns(u) => fd[u] # fd[t]
      BY <3>1 DEF Taken
    <3>3. conn'[fd[t]] /\ \A i \in DOMAIN conn : i # fd[t] => conn'[i] = conn[i]
      BY <2>4, <3>1 DEF Takes
    <3>4. Taken'
      <4> SUFFICES ASSUME NEW u \in Tasks
                   PROVE  /\ Owns(u)' => fd'[u] < NumSockets /\ conn'[fd'[u]]
                          /\ pc'[u] = "claim" => fd'[u] < NumSockets /\ ~conn'[fd'[u]]
        BY DEF Taken
      <4>1. CASE u = t
        BY <4>1, <2>4, <3>1, <3>3 DEF Takes
      <4>2. CASE u # t
        <5>1. pc[u] # "claim"
          BY <4>2, <1>3, <2>4 DEF Takes
        <5>2. Owns(u) => fd[u] < NumSockets /\ conn[fd[u]] /\ fd[u] # fd[t] /\ fd[u] \in DOMAIN conn
          BY <4>2, <3>2, <1>2 DEF Taken
        <5> QED
          BY <4>2, <5>1, <5>2, <2>1, <2>2, <3>3
      <4> QED
        BY <4>1, <4>2
    <3>5. OneOwner'
      BY <2>1, <2>2, <3>2, <2>4 DEF OneOwner, Takes
    <3> QED
      BY <3>4, <3>5
  <2>5. CASE Gives(t)
    <3>1. Owns(t) /\ ~Owns(t)' /\ pc'[t] # "claim"
      BY <2>5 DEF Gives, Owns
    <3>2. \A u \in Tasks \ {t} : Owns(u) => fd[u] # fd[t]
      BY <3>1 DEF OneOwner
    <3>3. \A i \in DOMAIN conn : IF i = fd[t] THEN ~conn'[i] ELSE conn'[i] = conn[i]
      BY <2>5 DEF Gives
    <3>4. Taken'
      <4> SUFFICES ASSUME NEW u \in Tasks \ {t}
                   PROVE  /\ Owns(u)' => fd'[u] < NumSockets /\ conn'[fd'[u]]
                          /\ pc'[u] = "claim" => fd'[u] < NumSockets /\ ~conn'[fd'[u]]
        BY <3>1 DEF Taken
      <4>1. Owns(u) => fd[u] < NumSockets /\ conn[fd[u]] /\ fd[u] \in DOMAIN conn
        BY <1>2 DEF Taken
      <4>2. pc[u] = "claim" => fd[u] < NumSockets /\ ~conn[fd[u]] /\ fd[u] \in DOMAIN conn
        BY <1>2 DEF Taken
      <4> QED
        BY <4>1, <4>2, <2>1, <2>2, <3>2, <3>3
    <3>5. OneOwner'
      BY <2>1, <2>2, <3>1 DEF OneOwner
    <3> QED
      BY <3>4, <3>5
  <2>6. CASE Keeps(t)
    <3>1. Taken'
      BY <2>1, <2>2, <2>6 DEF Keeps, Taken
    <3>2. OneOwner'
      BY <2>1, <2>2, <2>6 DEF Keeps, OneOwner
    <3> QED
      BY <3>1, <3>2
  <2> QED
    BY <1>1, <1>5, TableStep, <2>3, <2>4, <2>5, <2>6
<1> QED
  BY <1>4, <1>5

-----------------------------------------------------------------------------
(***************************************************************************)
(* One event group for each socket in use.                                 *)
(***************************************************************************)

Grouped(t) == pc[t] \in {"mark", "use"}

\* A descriptor that reaches Sock passed the comparison with MAX_SOCKET_NB.
LEMMA InSockStep ==
  ASSUME LocalType, InSock, NEW t \in Tasks, Step(t) PROVE InSock'
<1> SUFFICES ASSUME NEW u \in Tasks, pc'[u] \in {"group", "mark", "use"} PROVE fd'[u] \in Entries
  BY DEF InSock
<1>1. CASE HandsOver(t)
  <2>1. PICK c \in Closers : HandOver(t, c)
    BY <1>1 DEF HandsOver
  <2>2. fd[t] \in Entries /\ c \in Tasks
    BY <2>1 DEF HandOver, InSock, Tasks
  <2>3. CASE u = c
    BY <2>1, <2>2, <2>3, SizesAssumption DEF HandOver, LocalType
  <2>4. CASE u # c
    BY <2>1, <2>2, <2>4 DEF HandOver, LocalType, InSock
  <2> QED
    BY <2>3, <2>4
<1>2. CASE ~HandsOver(t) /\ u # t
  BY <1>2, OtherTask DEF InSock
<1>3. CASE ~HandsOver(t) /\ u = t
  <2>1. \A l : Goto(t, l) => pc'[t] = l /\ fd'[t] = fd[t]
    BY DEF Goto, LocalType
  <2>2. Return(t) => pc'[t] = "idle"
    BY DEF Return, LocalType
  <2>3. CASE Check(t)
    <3>1. Goto(t, "group") /\ ~(fd[t] > MaxSocket)
      BY <1>3, <2>1, <2>2, <2>3 DEF Check
    <3>2. fd[t] \in 0..NumSockets
      BY DEF LocalType
    <3> QED
      BY <1>3, <2>1, <3>1, <3>2, SizesAssumption DEF Entries
  <2>4. CASE ~Check(t)
    <3>1. Group(t) \/ Mark(t)
      BY <1>3, <2>1, <2>2, <2>4 DEF Step, HandsOver, Begin, Refused, NoDescriptor, Scan, Claim,
         Reject, DeleteGroup, Free, Unmark, LocalType
    <3> QED
      BY <1>3, <2>1, <3>1 DEF Group, Mark, InSock
  <2> QED
    BY <2>3, <2>4
<1> QED
  BY <1>1, <1>2, <1>3

\* The three things that a step which is no hand-over does to the groups.
Creates(t) == /\ pc[t] = "group" /\ pc'[t] = "mark" /\ fd'[t] = fd[t]
              /\ \E g \in Groups \ alive : /\ events' = [events EXCEPT ![fd[t]] = g]
                                         /\ alive' = alive \cup {g}
Deletes(t) == /\ pc[t] = "use" /\ pc'[t] = "close"
              /\ alive' = alive \ {events[fd[t]]} /\ events' = events
Leaves(t) == /\ alive' = alive /\ events' = events
             /\ IF Grouped(t) THEN Grouped(t)' /\ fd'[t] = fd[t] ELSE ~Grouped(t)'

\* What a step does to the event groups: it creates its own, deletes it, or leaves all.
LEMMA GroupStep ==
  ASSUME LocalType, NEW t \in Tasks, Step(t), ~HandsOver(t)
  PROVE  Creates(t) \/ Deletes(t) \/ Leaves(t)
<1>1. \A l : Goto(t, l) => pc'[t] = l /\ fd'[t] = fd[t]
  BY DEF Goto, LocalType
<1>2. Return(t) => pc'[t] = "idle"
  BY DEF Return, LocalType
<1>3. CASE Begin(t)
  BY <1>3 DEF Begin, LocalType, Leaves, Grouped
<1>4. CASE NoDescriptor(t) /\ pc[t] = "scan"
  BY <1>4, <1>2 DEF NoDescriptor, Leaves, Grouped
<1>5. CASE Scan(t) /\ ~NoDescriptor(t)
  BY <1>5, <1>1 DEF Scan, LocalType, Leaves, Grouped
<1>6. CASE Claim(t) \/ Free(t)
  BY <1>6, <1>1 DEF Claim, Free, Leaves, Grouped
<1>7. CASE Reject(t) \/ Unmark(t) \/ Check(t)
  BY <1>7, <1>1, <1>2 DEF Reject, Unmark, Check, Leaves, Grouped
<1>8. CASE Group(t)
  BY <1>8, <1>1 DEF Group, Creates
<1>9. CASE Mark(t)
  BY <1>9, <1>1 DEF Mark, Leaves, Grouped
<1>10. CASE DeleteGroup(t)
  BY <1>10, <1>1 DEF DeleteGroup, Deletes
<1> QED
  BY <1>3, <1>4, <1>5, <1>6, <1>7, <1>8, <1>9, <1>10 DEF Step, Refused, Scan, HandsOver

\* A group is created for an entry that no other task has, and deleted by the
\* task whose entry it is.
LEMMA OwnGroupStep ==
  ASSUME TypeOK, InSock, OneOwner, OwnGroup, NoGroupLost, NEW t \in Tasks, Step(t)
  PROVE  OwnGroup' /\ NoGroupLost'
<1>1. LocalType /\ DOMAIN events = Entries
  BY TypeParts DEF TypeOK
<1>2. \A u \in Tasks : Grouped(u) => Owns(u) /\ fd[u] \in Entries /\ events[fd[u]] \in alive
  BY DEF Grouped, Owns, InSock, OwnGroup
<1>3. \A u, v \in Tasks : u # v /\ Grouped(u) /\ Grouped(v) => events[fd[u]] # events[fd[v]]
  BY DEF Grouped, OwnGroup
<1>4. ASSUME \A u \in Tasks : Grouped(u)' => events'[fd'[u]] \in alive',
             \A u, v \in Tasks : u # v /\ Grouped(u)' /\ Grouped(v)' => events'[fd'[u]] # events'[fd'[v]]
      PROVE  OwnGroup'
  BY <1>4 DEF OwnGroup, Grouped
<1>5. \A g \in alive : \E u \in Tasks : Grouped(u) /\ events[fd[u]] = g
  BY DEF NoGroupLost, Grouped
<1>6. ASSUME \A g \in alive' : \E u \in Tasks : Grouped(u)' /\ events'[fd'[u]] = g
      PROVE  NoGroupLost'
  BY <1>6 DEF NoGroupLost, Grouped
<1>7. CASE HandsOver(t)
  <2>1. PICK c \in Closers : HandOver(t, c)
    BY <1>7 DEF HandsOver
  <2>2. c \in Tasks /\ c # t /\ events' = events /\ alive' = alive
    BY <2>1, SizesAssumption DEF HandOver, Tasks
  <2>3. Grouped(t) /\ ~Grouped(t)' /\ ~Grouped(c) /\ Grouped(c)' /\ fd'[c] = fd[t]
    BY <2>1, <2>2, <1>1 DEF HandOver, LocalType, Grouped
  <2>4. \A u \in Tasks \ {t, c} : (Grouped(u)' <=> Grouped(u)) /\ fd'[u] = fd[u]
    BY <2>1, <1>1 DEF HandOver, LocalType, Grouped
  <2> QED
    BY <2>2, <2>3, <2>4, <1>2, <1>3, <1>4, <1>5, <1>6
<1>8. CASE ~HandsOver(t)
  <2>1. \A u \in Tasks \ {t} : (Grouped(u)' <=> Grouped(u)) /\ fd'[u] = fd[u]
    BY <1>1, <1>8, OtherTask DEF Grouped
  <2>2. CASE Creates(t)
    <3>1. PICK g \in Groups \ alive : /\ events' = [events EXCEPT ![fd[t]] = g]
                                     /\ alive' = alive \cup {g}
      BY <2>2 DEF Creates
    <3>2. fd[t] \in Entries /\ Owns(t) /\ Grouped(t)' /\ ~Grouped(t) /\ fd'[t] = fd[t]
      BY <2>2 DEF Creates, InSock, Owns, Grouped
    <3>3. events'[fd'[t]] = g
      BY <3>1, <3>2, <1>1
    <3>4. \A u \in Tasks \ {t} : Grouped(u) => events'[fd'[u]] = events[fd[u]]
      BY <3>1, <3>2, <1>1, <1>2, <2>1 DEF OneOwner
    <3> QED
      BY <3>1, <3>2, <3>3, <3>4, <2>1, <1>2, <1>3, <1>4, <1>5, <1>6
  <2>3. CASE Deletes(t)
    <3>1. Grouped(t) /\ ~Grouped(t)' /\ events' = events /\ alive' = alive \ {events[fd[t]]}
      BY <2>3 DEF Deletes, Grouped
    <3> QED
      BY <3>1, <2>1, <1>2, <1>3, <1>4, <1>5, <1>6
  <2>4. CASE Leaves(t)
    <3>1. (Grouped(t)' <=> Grouped(t)) /\ (Grouped(t) => fd'[t] = fd[t]) /\ events' = events /\ alive' = alive
      BY <2>4 DEF Leaves
    <3>2. \A u \in Tasks : (Grouped(u)' <=> Grouped(u)) /\ (Grouped(u) => fd'[u] = fd[u])
      BY <3>1, <2>1
    <3> QED
      BY <3>1, <3>2, <1>2, <1>3, <1>4, <1>5, <1>6
  <2> QED
    BY <1>1, <1>8, GroupStep, <2>2, <2>3, <2>4
<1> QED
  BY <1>7, <1>8

-----------------------------------------------------------------------------
(***************************************************************************)
(* No descriptor is lost, and no mark stays behind.                        *)
(***************************************************************************)

Marked(t) == pc[t] \in {"use", "close", "unmark"}

\* An owner keeps its descriptor until it gives it back, or forgets one past the table.
LEMMA OwnerStep ==
  ASSUME LocalType, NEW t \in Tasks, Step(t), ~HandsOver(t), Owns(t)
  PROVE  \/ Owns(t)' /\ fd'[t] = fd[t]
         \/ Gives(t)
         \/ conn' = conn /\ fd[t] > MaxSocket
<1>1. \A l : Goto(t, l) => pc'[t] = l /\ fd'[t] = fd[t]
  BY DEF Goto, LocalType
<1>2. Return(t) => pc'[t] = "idle"
  BY DEF Return, LocalType
<1>3. CASE Check(t)
  BY <1>3, <1>1 DEF Check, Owns
<1>4. CASE Group(t) \/ Mark(t) \/ DeleteGroup(t)
  BY <1>4, <1>1 DEF Group, Mark, DeleteGroup, Owns
<1>5. CASE Reject(t) \/ Free(t)
  BY <1>5, <1>1, <1>2 DEF Reject, Free, Gives
<1> QED
  BY <1>3, <1>4, <1>5 DEF Step, HandsOver, Begin, Refused, Scan, Claim, Unmark, Owns

\* Sets and clears a mark, or neither: then a task that uses or closes goes on with it.
Sets(t) == /\ pc[t] = "mark" /\ pc'[t] = "use" /\ fd'[t] = fd[t]
           /\ isSocket' = [isSocket EXCEPT ![fd[t]] = TRUE]
Clears(t) == pc[t] = "unmark" /\ isSocket' = [isSocket EXCEPT ![fd[t]] = FALSE]
Spares(t) == /\ isSocket' = isSocket \/ isSocket' = [isSocket EXCEPT ![-1] = TRUE]
             /\ Marked(t) => Marked(t)' /\ fd'[t] = fd[t]

\* What a step that is no hand-over does to the marks.
LEMMA MarkerStep ==
  ASSUME LocalType, NEW t \in Tasks, Step(t), ~HandsOver(t)
  PROVE  Sets(t) \/ Clears(t) \/ Spares(t)
<1>1. \A l : Goto(t, l) => pc'[t] = l /\ fd'[t] = fd[t]
  BY DEF Goto, LocalType
<1>2. CASE pc[t] = "scan" /\ NoDescriptor(t)
  BY <1>2 DEF NoDescriptor, Spares, Marked
<1>3. CASE Scan(t) /\ ~NoDescriptor(t)
  BY <1>3 DEF Scan, Spares, Marked
<1>4. CASE Begin(t) \/ Claim(t) \/ Check(t) \/ Reject(t) \/ Group(t)
  BY <1>4 DEF Begin, Claim, Check, Reject, Group, Spares, Marked
<1>5. CASE Mark(t)
  BY <1>5, <1>1 DEF Mark, Sets
<1>6. CASE DeleteGroup(t) \/ Free(t)
  BY <1>6, <1>1 DEF DeleteGroup, Free, Spares, Marked
<1>7. CASE Unmark(t)
  BY <1>7 DEF Unmark, Clears
<1> QED
  BY <1>2, <1>3, <1>4, <1>5, <1>6, <1>7 DEF Step, Refused, Scan, HandsOver

\* A task that gives a descriptor back is its only owner, and one that hands it over
\* gives it to one task.
LEMMA NothingLostStep ==
  ASSUME TypeOK, InSock, NoDescriptorLost, MarkIsOwned, NEW t \in Tasks, Step(t)
  PROVE  NoDescriptorLost' /\ MarkIsOwned'
<1>1. LocalType /\ DOMAIN isSocket = Entries /\ DOMAIN conn = 0..(NumSockets - 1)
  BY TypeParts DEF TypeOK
<1>2. \A u \in Tasks : fd[u] \in Nat
  BY <1>1, SizesAssumption DEF LocalType
<1>3. 0..MaxSocket \subseteq Entries /\ MaxSocket \in Nat
  BY SizesAssumption DEF Entries
<1>4. CASE HandsOver(t)
  <2>1. PICK c \in Closers : HandOver(t, c)
    BY <1>4 DEF HandsOver
  <2>2. c \in Tasks /\ c # t /\ conn' = conn /\ isSocket' = isSocket
    BY <2>1, SizesAssumption DEF HandOver, Tasks
  <2>3. /\ pc[t] = "use" /\ ~Owns(c) /\ ~Marked(c)
        /\ pc'[c] = "use" /\ fd'[c] = fd[t]
    BY <2>1, <2>2, <1>1 DEF HandOver, LocalType, Owns, Marked
  <2>4. \A u \in Tasks \ {t, c} : pc'[u] = pc[u] /\ fd'[u] = fd[u]
    BY <2>1, <1>1 DEF HandOver, LocalType
  <2>5. \A u \in Tasks : \E v \in Tasks :
          /\ Owns(u) => Owns(v)' /\ fd'[v] = fd[u]
          /\ Marked(u) => Marked(v)' /\ fd'[v] = fd[u]
    <3> SUFFICES ASSUME NEW u \in Tasks
                 PROVE  \E v \in Tasks : /\ Owns(u) => Owns(v)' /\ fd'[v] = fd[u]
                                         /\ Marked(u) => Marked(v)' /\ fd'[v] = fd[u]
      OBVIOUS
    <3>1. CASE u = t
      BY <3>1, <2>2, <2>3 DEF Owns, Marked
    <3>2. CASE u = c
      BY <3>2, <2>3
    <3>3. CASE u \notin {t, c}
      BY <3>3, <2>4 DEF Owns, Marked
    <3> QED
      BY <3>1, <3>2, <3>3
  <2> QED
    BY <2>2, <2>5 DEF NoDescriptorLost, MarkIsOwned, Marked
<1>5. CASE ~HandsOver(t)
  <2>1. \A u \in Tasks \ {t} : pc'[u] = pc[u] /\ fd'[u] = fd[u]
    BY <1>1, <1>5, OtherTask
  <2>2. \A u \in Tasks \ {t} : (Owns(u)' <=> Owns(u)) /\ (Marked(u)' <=> Marked(u))
    BY <2>1 DEF Owns, Marked
  <2>3. NoDescriptorLost'
    <3> SUFFICES ASSUME NEW s \in 0..(NumSockets - 1), conn'[s], s <= MaxSocket
                 PROVE  \E u \in Tasks : fd'[u] = s /\ Owns(u)'
      BY DEF NoDescriptorLost
    <3>1. CASE Takes(t) /\ s = fd[t]
      BY <3>1 DEF Takes, Owns
    <3>2. CASE ~(Takes(t) /\ s = fd[t])
      <4>1. conn[s] /\ ~(Gives(t) /\ s = fd[t])
        BY <3>2, <1>1, <1>5, TableStep DEF Finds, Takes, Gives, Keeps
      <4>2. PICK u \in Tasks : fd[u] = s /\ Owns(u)
        BY <4>1 DEF NoDescriptorLost
      <4>3. CASE u # t
        BY <4>2, <4>3, <2>1, <2>2
      <4>4. CASE u = t
        <5>1. ~(fd[t] > MaxSocket)
          BY <4>2, <4>4, <1>2, <1>3
        <5>2. Owns(t)' /\ fd'[t] = fd[t]
          BY <4>1, <4>2, <4>4, <5>1, <1>1, <1>5, OwnerStep
        <5> QED
          BY <4>2, <4>4, <5>2
      <4> QED
        BY <4>3, <4>4
    <3> QED
      BY <3>1, <3>2
  <2>4. MarkIsOwned'
    <3> SUFFICES ASSUME NEW s \in 0..MaxSocket, isSocket'[s]
                 PROVE  \E u \in Tasks : fd'[u] = s /\ Marked(u)'
      BY DEF MarkIsOwned, Marked
    <3>0. Sets(t) \/ Clears(t) \/ Spares(t)
      BY <1>1, <1>5, MarkerStep
    <3>1. s \in Entries /\ s # -1
      BY <1>3
    <3>2. CASE Sets(t) /\ s = fd[t]
      BY <3>2 DEF Sets, Marked
    <3>3. CASE ~(Sets(t) /\ s = fd[t])
      <4>1. isSocket[s] /\ ~(Clears(t) /\ s = fd[t])
        <5>1. ~(Clears(t) /\ s = fd[t])
          BY <3>1, <1>1 DEF Clears
        <5>2. CASE Sets(t)
          BY <3>1, <3>3, <5>1, <5>2, <1>1 DEF Sets
        <5>3. CASE Clears(t)
          BY <3>1, <5>1, <5>3, <1>1 DEF Clears
        <5>4. CASE Spares(t)
          BY <3>1, <5>1, <5>4, <1>1 DEF Spares
        <5> QED
          BY <3>0, <5>2, <5>3, <5>4
      <4>2. PICK u \in Tasks : fd[u] = s /\ Marked(u)
        BY <4>1 DEF MarkIsOwned, Marked
      <4>3. CASE u # t
        BY <4>2, <4>3, <2>1, <2>2
      <4>4. CASE u = t
        <5>1. ~Sets(t)
          BY <4>2, <4>4 DEF Sets, Marked
        <5> QED
          BY <3>0, <4>1, <4>2, <4>4, <5>1 DEF Spares
      <4> QED
        BY <4>3, <4>4
    <3> QED
      BY <3>2, <3>3
  <2> QED
    BY <2>3, <2>4
<1> QED
  BY <1>4, <1>5

-----------------------------------------------------------------------------
(***************************************************************************)
(* The theorems.                                                           *)
(***************************************************************************)

\* With one opener every step keeps the invariant.
LEMMA NextIInv == SoleOpener /\ IInv /\ [Next]_vars => IInv'
<1> SUFFICES ASSUME SoleOpener, IInv, [Next]_vars PROVE IInv'
  OBVIOUS
<1>1. TypeOK'
  BY NextType DEF IInv
<1>2. CASE \E t \in Tasks : Step(t)
  <2>1. PICK t \in Tasks : Step(t)
    BY <1>2
  <2>2. LocalType
    BY TypeParts DEF IInv
  <2>3. Taken' /\ OneOwner'
    BY <2>1, TakenStep DEF IInv
  <2>4. Roles' /\ InSock'
    BY <2>1, <2>2, RolesStep, InSockStep DEF IInv
  <2>5. OwnGroup' /\ NoGroupLost'
    BY <2>1, OwnGroupStep DEF IInv, NothingLost
  <2>6. NoDescriptorLost' /\ MarkIsOwned'
    BY <2>1, NothingLostStep DEF IInv, NothingLost
  <2> QED
    BY <1>1, <2>3, <2>4, <2>5, <2>6 DEF IInv, NothingLost
<1>3. CASE UNCHANGED vars
  <2>1. UNCHANGED <<conn, isSocket, events, alive, pc, fd, accepts>>
    BY <1>3 DEF vars
  <2> QED
    BY <1>1, <2>1 DEF IInv, Taken, Roles, OneOwner, Owns, InSock, OwnGroup,
         NothingLost, NoGroupLost, NoDescriptorLost, MarkIsOwned
<1> QED
  BY <1>2, <1>3 DEF Next

\* The invariant holds in every state, if one task opens all sockets.
THEOREM Invariance == ASSUME SoleOpener PROVE Spec => []IInv
BY SoleOpener, InitIInv, NextIInv, PTL DEF Spec

\* Every variable has its type, however many tasks open sockets (SimpleSocket).
THEOREM TypeCorrect == Spec => []TypeOK
<1>1. Init => TypeOK
  BY InitIInv DEF IInv
<1> QED
  BY <1>1, NextType, PTL DEF Spec

\* If one task opens all sockets, no two tasks have the same descriptor, for
\* any tables: alloc_socket needs no protection against free_socket.
THEOREM OneOwnerHolds == ASSUME SoleOpener PROVE Spec => []OneOwner
<1>1. IInv => OneOwner
  BY DEF IInv
<1> QED
  BY <1>1, Invariance, PTL

\* If one task opens all sockets, a socket in use has its own event group,
\* which exists.
THEOREM OwnGroupHolds == ASSUME SoleOpener PROVE Spec => []OwnGroup
<1>1. IInv => OwnGroup
  BY DEF IInv
<1> QED
  BY <1>1, Invariance, PTL

\* However many tasks open sockets, every descriptor up to MAX_SOCKET_NB that is taken
\* has an owner, and no mark of Sock outlives its close.
THEOREM DescriptorsKept == Spec => [](NoDescriptorLost /\ MarkIsOwned)
<1> DEFINE J == TypeOK /\ InSock /\ NoDescriptorLost /\ MarkIsOwned
<1>1. Init => J
  BY InitIInv DEF IInv, NothingLost
<1>2. J /\ [Next]_vars => J'
  <2> SUFFICES ASSUME J, [Next]_vars PROVE J'
    OBVIOUS
  <2>1. TypeOK'
    BY NextType
  <2>2. CASE \E t \in Tasks : Step(t)
    <3>1. LocalType
      BY TypeParts
    <3> QED
      BY <2>1, <2>2, <3>1, InSockStep, NothingLostStep
  <2>3. CASE UNCHANGED vars
    <3>1. UNCHANGED <<conn, isSocket, events, alive, pc, fd, accepts>>
      BY <2>3 DEF vars
    <3> QED
      BY <2>1, <3>1 DEF InSock, NoDescriptorLost, MarkIsOwned, Owns
  <2> QED
    BY <2>2, <2>3 DEF Next
<1> QED
  BY <1>1, <1>2, PTL DEF Spec

\* If one task opens all sockets, every event group is that of a socket in use, every
\* descriptor up to MAX_SOCKET_NB has an owner, and no mark of Sock outlives its close.
THEOREM NothingLostHolds == ASSUME SoleOpener PROVE Spec => []NothingLost
<1>1. IInv => NothingLost
  BY DEF IInv
<1> QED
  BY <1>1, Invariance, PTL

=============================================================================
