-------------------------- MODULE Ethernet_proofs --------------------------
(***************************************************************************)
(* Proofs about the Ethernet link: the two paths of the driver, and ARP.   *)
(*                                                                         *)
(* EthTx: for any tasks, ring, chains and number of frames, one task at a  *)
(* time uses the descriptors once the semaphore exists, a descriptor of    *)
(* the DMA holds one whole frame, no buffer of the DMA is written, and no  *)
(* race for the creation of the semaphore loses it.                        *)
(*                                                                         *)
(* EthRx: for a ring of any size and any number of frames, the types, the  *)
(* order of what is delivered, that no descriptor is given back before its *)
(* frame was taken, that the copy reads descriptors of the processor only, *)
(* and that a full ring has a wakeup.                                      *)
(* They rest on the shape of the ring: from the descriptor that is read    *)
(* next on, the frames that have arrived last, one each, and behind them   *)
(* the DMA's descriptors.                                                  *)
(*                                                                         *)
(* Etharp: for any hosts and addresses, any size of the table and any      *)
(* ages, the types, one entry for each host, the buffers of the packets    *)
(* that wait, one request for each run of the timer, and the address that  *)
(* a packet is sent to.  That it is the right one needs that each complete *)
(* entry has the address its host last gave, and this needs that no other  *)
(* entry of that host keeps an older one.                                  *)
(***************************************************************************)
EXTENDS EthTx, EthRx, Etharp, FiniteSetTheorems, TLAPS

(* Once created, the handle does not change, so every sleeper sleeps on    *)
(* it, and its count is 0 while a task is inside.                          *)
SemInv ==
  /\ xTxSemaphore = 1
  /\ \A t \in Tasks :
       /\ pc[t] \notin {"create", "createNamed", "giveNew"}
       /\ pc[t] = "sleep" => handle[t] = 1
       /\ pc[t] \in Guarded => count[1] = 0
       /\ \A u \in Tasks : (pc[t] \in Guarded /\ pc[u] \in Guarded) => t = u

(* What the task inside has done: it fills the descriptor that comes next, *)
(* which the DMA does not have once a pbuf is copied.                      *)
CopyInv ==
  \A t \in Tasks :
    /\ pc[t] # "idle" => frame[t].len > 0
    /\ pc[t] = "copy" => copied[t] < frame[t].len
    /\ pc[t] \in {"take", "sleep"} => copied[t] = 0
    /\ pc[t] = "prepare" => copied[t] = frame[t].len
    /\ pc[t] \in {"copy", "prepare"} =>
         /\ desc[t] = DMATxDescToSet
         /\ copied[t] > 0 => ~own[desc[t]]
         /\ \A i \in 1 .. copied[t] : buffer[desc[t]][i] = frame[t].id

DmaFrames == \A d \in Descs : own[d] =>
  size[d] > 0 /\ \A i \in 1 .. size[d] : buffer[d][i] = buffer[d][1]

Inv == TypeOK /\ (created => SemInv /\ CopyInv /\ DmaFrames)

USE NAssumption, BoundsAssumption

-----------------------------------------------------------------------------
\* The chain of descriptors ends where it began.
LEMMA NextDesc == ASSUME NEW d \in Descs PROVE Next1(d) \in Descs
BY SMT DEF Next1, Descs

(* A give or a take of a number outside the domain changes nothing.        *)
LEMMA Given ==
  ASSUME NEW S, NEW f \in [S -> 0 .. 1], NEW x, NEW n \in 0 .. 1
  PROVE  [f EXCEPT ![x] = n] \in [S -> 0 .. 1]
<1> DEFINE g == [f EXCEPT ![x] = n]
<1>1. g = [y \in S |-> IF y = x THEN n ELSE f[y]]
  OBVIOUS
<1>2. \A y \in S : (IF y = x THEN n ELSE f[y]) \in 0 .. 1
  OBVIOUS
<1> QED
  BY <1>1, <1>2

(* Initially Inv holds. *)
LEMMA InitInv == Init => Inv
<1> SUFFICES ASSUME Init PROVE Inv
  OBVIOUS
<1>1. TypeOK
  BY SMT DEF Init, TypeOK, Sems, Locs, Guarded, Frame, Descs, NULL
<1>2. ASSUME created PROVE SemInv /\ CopyInv /\ DmaFrames
  BY <1>2, SMT DEF Init, SemInv, CopyInv, DmaFrames, Guarded, Sems, Descs
<1> QED
  BY <1>1, <1>2 DEF Inv

\* A task goes from one place of low_level_output to another.
LEMMA GotoLoc ==
  ASSUME pc \in [Tasks -> Locs], NEW t \in Tasks, NEW loc \in Locs, Goto(t, loc)
  PROVE  pc' \in [Tasks -> Locs]
BY DEF Goto

\* The places of low_level_output.
LEMMA LocsAre ==
  /\ "idle" \in Locs /\ "create" \in Locs /\ "createNamed" \in Locs
  /\ "giveNew" \in Locs /\ "take" \in Locs /\ "sleep" \in Locs
  /\ "copy" \in Locs /\ "prepare" \in Locs /\ "give" \in Locs
BY DEF Locs, Guarded

\* A frame is a number and the length of its chain.
LEMMA FrameIs ==
  /\ \A f \in Frame : f.id \in 0 .. MaxFrames /\ f.len \in 0 .. MaxPbufs
  /\ \A i \in 0 .. MaxFrames, n \in 0 .. MaxPbufs : [id |-> i, len |-> n] \in Frame
BY DEF Frame

\* Whether the semaphore was there at the start does not change.
LEMMA Rigid == [Next]_vars => created' = created
BY DEF Next, Step, Call, Dma, vars

(* The types are kept by every step. *)
LEMMA NextType == TypeOK /\ [Next]_vars => TypeOK'
<1> SUFFICES ASSUME TypeOK, [Next]_vars PROVE TypeOK'
  OBVIOUS
<1> created' = created
  BY Rigid
<1> USE DEF taskVars, semVars, ringVars
<1>1. ASSUME NEW t \in Tasks, NEW n \in 1 .. MaxPbufs, Call(t, n) PROVE TypeOK'
  <2>1. calls + 1 \in 0 .. MaxFrames
    BY <1>1 DEF Call, TypeOK
  <2>2. [id |-> calls + 1, len |-> n] \in Frame
    BY <2>1, FrameIs
  <2>3. pc' \in [Tasks -> Locs]
    BY <1>1, LocsAre DEF Call, TypeOK, Goto
  <2>4. frame' \in [Tasks -> Frame]
    BY <1>1, <2>2 DEF Call, TypeOK
  <2>5. copied' \in [Tasks -> 0 .. MaxPbufs]
    <3>1. copied \in [Tasks -> 0 .. MaxPbufs] /\ copied' = [copied EXCEPT ![t] = 0]
      BY <1>1 DEF Call, TypeOK
    <3> QED
      BY <3>1
  <2>6. UNCHANGED <<handle, desc, semVars, ringVars>> /\ calls' = calls + 1
    BY <1>1 DEF Call
  <2> QED
    BY <2>1, <2>3, <2>4, <2>5, <2>6 DEF TypeOK
<1>2. ASSUME NEW t \in Tasks, Create(t) PROVE TypeOK'
  <2>0. pc' \in [Tasks -> Locs]
    BY <1>2, GotoLoc, LocsAre DEF Create, TypeOK
  <2>1. count' \in [Sems -> 0 .. 1]
    <3>1. count \in [Sems -> 0 .. 1] /\ count' = [count EXCEPT ![sems + 1] = 1]
      BY <1>2 DEF Create, TypeOK
    <3> QED
      BY <3>1, Given
  <2>2. sems' \in Nat /\ xTxSemaphore' \in Nat
    BY <1>2 DEF Create, TypeOK
  <2>3. UNCHANGED <<handle, frame, copied, desc, ringVars, calls>>
    BY <1>2 DEF Create
  <2> QED
    BY <2>0, <2>1, <2>2, <2>3 DEF TypeOK
<1>3. ASSUME NEW t \in Tasks, CreateNamed(t) PROVE TypeOK'
  <2>1. pc' \in [Tasks -> Locs]
    BY <1>3, GotoLoc, LocsAre DEF CreateNamed, TypeOK
  <2>2. sems' \in Nat /\ xTxSemaphore' \in Nat
    BY <1>3 DEF CreateNamed, TypeOK
  <2>3. UNCHANGED <<count, handle, frame, copied, desc, ringVars, calls>>
    BY <1>3 DEF CreateNamed
  <2> QED
    BY <2>1, <2>2, <2>3 DEF TypeOK
<1>4. ASSUME NEW t \in Tasks, GiveNew(t) PROVE TypeOK'
  <2>0. pc' \in [Tasks -> Locs]
    BY <1>4, GotoLoc, LocsAre DEF GiveNew, TypeOK
  <2>1. count' \in [Sems -> 0 .. 1]
    <3>1. count \in [Sems -> 0 .. 1] /\ count' = [count EXCEPT ![xTxSemaphore] = 1]
      BY <1>4 DEF GiveNew, TypeOK
    <3> QED
      BY <3>1, Given
  <2>2. UNCHANGED <<sems, xTxSemaphore, handle, frame, copied, desc, ringVars, calls>>
    BY <1>4 DEF GiveNew
  <2> QED
    BY <2>0, <2>1, <2>2 DEF TypeOK
<1>5. ASSUME NEW t \in Tasks, Take(t) PROVE TypeOK'
  BY <1>5, GotoLoc, LocsAre DEF Take, TypeOK
<1>6. ASSUME NEW t \in Tasks, Taken(t) PROVE TypeOK'
  <2>0. pc' \in [Tasks -> Locs]
    BY <1>6, GotoLoc, LocsAre DEF Taken, TypeOK
  <2>1. count' \in [Sems -> 0 .. 1]
    <3>1. count \in [Sems -> 0 .. 1] /\ count' = [count EXCEPT ![handle[t]] = 0]
      BY <1>6 DEF Taken, TypeOK
    <3> QED
      BY <3>1, Given
  <2>2. desc' \in [Tasks -> Descs]
    BY <1>6 DEF Taken, TypeOK
  <2>3. UNCHANGED <<sems, xTxSemaphore, handle, frame, copied, ringVars, calls>>
    BY <1>6 DEF Taken
  <2> QED
    BY <2>0, <2>1, <2>2, <2>3 DEF TypeOK
<1>7. ASSUME NEW t \in Tasks, TakeTimeout(t) PROVE TypeOK'
  BY <1>7, GotoLoc, LocsAre DEF TakeTimeout, TypeOK
<1>8. ASSUME NEW t \in Tasks, Copy(t) PROVE TypeOK'
  <2>1. CASE own[desc[t]] /\ Goto(t, "give") /\ UNCHANGED <<copied, buffer>>
    <3>1. pc' \in [Tasks -> Locs]
      BY <2>1, GotoLoc, LocsAre DEF TypeOK
    <3> QED
      BY <1>8, <2>1, <3>1, GotoLoc, LocsAre DEF Copy, TypeOK
  <2>2. CASE CopyPbuf(t)
    <3>1. frame[t] \in Frame /\ copied[t] < frame[t].len
      BY <1>8, GotoLoc, LocsAre DEF Copy, TypeOK
    <3>2. frame[t].id \in 0 .. MaxFrames /\ frame[t].len \in 0 .. MaxPbufs
      BY <3>1, FrameIs
    <3>c. copied[t] \in 0 .. MaxPbufs
      BY DEF TypeOK
    <3>3. copied[t] + 1 \in 0 .. MaxPbufs /\ copied[t] + 1 \in 1 .. MaxPbufs
      BY <3>1, <3>2, <3>c
    <3>4. copied' \in [Tasks -> 0 .. MaxPbufs]
      BY <2>2, <3>3, GotoLoc, LocsAre DEF CopyPbuf, TypeOK
    <3>5. buffer' \in [Descs -> [1 .. MaxPbufs -> 0 .. MaxFrames]]
      BY <2>2, <3>2, <3>3, GotoLoc, LocsAre DEF CopyPbuf, TypeOK
    <3>6. pc' \in [Tasks -> Locs]
      BY <2>2, GotoLoc, LocsAre DEF CopyPbuf, TypeOK
    <3> QED
      BY <1>8, <3>4, <3>5, <3>6, GotoLoc, LocsAre DEF Copy, TypeOK
  <2> QED
    BY <1>8, <2>1, <2>2, GotoLoc, LocsAre DEF Copy, TypeOK
<1>9. ASSUME NEW t \in Tasks, Prepare(t) PROVE TypeOK'
  <2>1. Next1(DMATxDescToSet) \in Descs /\ frame[t].len \in 0 .. MaxPbufs
    BY NextDesc, FrameIs DEF TypeOK
  <2> QED
    BY <1>9, <2>1, GotoLoc, LocsAre DEF Prepare, TypeOK
<1>10. ASSUME NEW t \in Tasks, Give(t) PROVE TypeOK'
  <2>0. pc' \in [Tasks -> Locs]
    BY <1>10, GotoLoc, LocsAre DEF Give, TypeOK
  <2>1. count' \in [Sems -> 0 .. 1]
    <3>1. count \in [Sems -> 0 .. 1] /\ count' = [count EXCEPT ![xTxSemaphore] = 1]
      BY <1>10 DEF Give, TypeOK
    <3> QED
      BY <3>1, Given
  <2> QED
    BY <1>10, <2>0, <2>1 DEF Give, TypeOK
<1>11. ASSUME Dma PROVE TypeOK'
  BY <1>11, NextDesc, GotoLoc, LocsAre DEF Dma, TypeOK
<1>12. CASE UNCHANGED vars
  BY <1>12, GotoLoc, LocsAre DEF vars, TypeOK
<1> QED
  BY <1>1, <1>2, <1>3, <1>4, <1>5, <1>6, <1>7, <1>8, <1>9, <1>10, <1>11, <1>12 DEF Next, Step

-----------------------------------------------------------------------------
(* The handle stays, and the count says whether a task is inside. *)
LEMMA NextSem == TypeOK /\ SemInv /\ [Next]_vars => SemInv'
<1> SUFFICES ASSUME TypeOK, SemInv, [Next]_vars PROVE SemInv'
  OBVIOUS
<1>1. pc \in [Tasks -> Locs] /\ handle \in [Tasks -> Nat]
  BY DEF TypeOK
<1>2. count \in [Sems -> 0 .. 1] /\ 1 \in Sems
  BY DEF TypeOK, Sems
<1> USE <1>1, <1>2 DEF SemInv, Guarded, Goto, taskVars, semVars, ringVars
<1>3. ASSUME NEW t \in Tasks, NEW n \in 1 .. MaxPbufs, Call(t, n) PROVE SemInv'
  BY <1>3 DEF Call, NULL
<1>4. ASSUME NEW t \in Tasks, Create(t) \/ CreateNamed(t) \/ GiveNew(t) PROVE SemInv'
  BY <1>4 DEF Create, CreateNamed, GiveNew
<1>5. ASSUME NEW t \in Tasks, Take(t) PROVE SemInv'
  BY <1>5 DEF Take
<1>6. ASSUME NEW t \in Tasks, Taken(t) PROVE SemInv'
  BY <1>6 DEF Taken
<1>7. ASSUME NEW t \in Tasks, TakeTimeout(t) PROVE SemInv'
  BY <1>7 DEF TakeTimeout
<1>8. ASSUME NEW t \in Tasks, Copy(t) PROVE SemInv'
  BY <1>8 DEF Copy, CopyPbuf
<1>9. ASSUME NEW t \in Tasks, Prepare(t) PROVE SemInv'
  BY <1>9 DEF Prepare
<1>10. ASSUME NEW t \in Tasks, Give(t) PROVE SemInv'
  BY <1>10 DEF Give
<1>11. CASE Dma
  BY <1>11 DEF Dma
<1>12. CASE UNCHANGED vars
  BY <1>12 DEF vars
<1> QED
  BY <1>3, <1>4, <1>5, <1>6, <1>7, <1>8, <1>9, <1>10, <1>11, <1>12 DEF Next, Step

(* CopyInv for one task. *)
CopyInvOf(t) ==
  /\ pc[t] # "idle" => frame[t].len > 0
  /\ pc[t] = "copy" => copied[t] < frame[t].len
  /\ pc[t] \in {"take", "sleep"} => copied[t] = 0
  /\ pc[t] = "prepare" => copied[t] = frame[t].len
  /\ pc[t] \in {"copy", "prepare"} =>
       /\ desc[t] = DMATxDescToSet
       /\ copied[t] > 0 => ~own[desc[t]]
       /\ \A i \in 1 .. copied[t] : buffer[desc[t]][i] = frame[t].id

(* A task whose own variables stay keeps its part, if it is outside or the *)
(* ring changes only by descriptors that the DMA gives back.               *)
LEMMA OtherTask ==
  ASSUME TypeOK, NEW u \in Tasks, CopyInvOf(u),
         pc'[u] = pc[u], frame'[u] = frame[u], copied'[u] = copied[u], desc'[u] = desc[u],
         \/ pc[u] \notin {"copy", "prepare"}
         \/ /\ UNCHANGED <<DMATxDescToSet, buffer>>
            /\ \A d \in Descs : own'[d] => own[d]
  PROVE  CopyInvOf(u)'
BY DEF CopyInvOf, TypeOK

(* What the task inside does to the ring is what CopyInv and DmaFrames say.*)
LEMMA NextCopy == TypeOK /\ SemInv /\ CopyInv /\ DmaFrames /\ [Next]_vars => CopyInv'
<1> SUFFICES ASSUME TypeOK, SemInv, CopyInv, DmaFrames, [Next]_vars,
                    NEW u \in Tasks
             PROVE  CopyInvOf(u)'
  BY DEF CopyInv, CopyInvOf
<1>1. CopyInvOf(u)
  BY DEF CopyInv, CopyInvOf
<1>2. /\ pc \in [Tasks -> Locs] /\ frame \in [Tasks -> Frame]
      /\ copied \in [Tasks -> 0 .. MaxPbufs] /\ desc \in [Tasks -> Descs]
      /\ own \in [Descs -> BOOLEAN] /\ DMATxDescToSet \in Descs
      /\ buffer \in [Descs -> [1 .. MaxPbufs -> 0 .. MaxFrames]]
  BY DEF TypeOK
<1>3. ASSUME NEW t \in Tasks, NEW n \in 1 .. MaxPbufs, Call(t, n) PROVE CopyInvOf(u)'
  <2>1. CASE u = t
    BY <1>2, <1>3, <2>1 DEF Call, CopyInvOf, Goto, SemInv, NULL
  <2>2. CASE u # t
    BY <1>1, <1>2, <1>3, <2>2, OtherTask DEF Call, Goto, ringVars
  <2> QED
    BY <2>1, <2>2
<1>4. ASSUME NEW t \in Tasks, Create(t) \/ CreateNamed(t) \/ GiveNew(t) PROVE FALSE
  BY <1>4 DEF Create, CreateNamed, GiveNew, SemInv
<1>5. ASSUME NEW t \in Tasks, Take(t) PROVE CopyInvOf(u)'
  BY <1>1, <1>2, <1>5 DEF Take, CopyInvOf, Goto, semVars, ringVars
<1>6. ASSUME NEW t \in Tasks, Taken(t) PROVE CopyInvOf(u)'
  <2>1. CASE u = t
    <3>1. /\ pc[u] = "sleep" /\ pc'[u] = "copy" /\ desc'[u] = DMATxDescToSet
          /\ frame' = frame /\ copied' = copied /\ DMATxDescToSet' = DMATxDescToSet
      BY <1>2, <1>6, <2>1 DEF Taken, Goto, ringVars
    <3>2. copied[u] = 0 /\ frame[u].len > 0
      BY <1>1, <3>1 DEF CopyInvOf
    <3> QED
      BY <3>1, <3>2 DEF CopyInvOf
  <2>2. CASE u # t
    BY <1>1, <1>2, <1>6, <2>2, OtherTask DEF Taken, Goto, ringVars
  <2> QED
    BY <2>1, <2>2
<1>7. ASSUME NEW t \in Tasks, TakeTimeout(t) PROVE CopyInvOf(u)'
  BY <1>1, <1>2, <1>7 DEF TakeTimeout, CopyInvOf, Goto, semVars, ringVars
<1>8. ASSUME NEW t \in Tasks, Copy(t) PROVE CopyInvOf(u)'
  <2>1. CASE u # t
    <3>1. pc[u] \notin {"copy", "prepare"}
      BY <1>8, <2>1 DEF Copy, SemInv, Guarded
    <3> QED
      BY <1>1, <1>2, <1>8, <2>1, <3>1, OtherTask DEF Copy, CopyPbuf, Goto
  <2>2. CASE u = t /\ own[desc[t]] /\ Goto(t, "give") /\ UNCHANGED <<copied, buffer>>
    BY <1>1, <1>2, <1>8, <2>2 DEF Copy, CopyInvOf, Goto
  <2>3. CASE u = t /\ ~own[desc[t]] /\ CopyPbuf(t)
    <3> DEFINE c == copied[u]
               d == desc[u]
    <3>1. /\ c \in 0 .. MaxPbufs /\ frame[u] \in Frame /\ d \in Descs
          /\ c < frame[u].len
      BY <1>2, <1>8, <2>3 DEF Copy
    <3>2. frame[u].len \in 0 .. MaxPbufs
      BY <3>1, FrameIs
    <3>3. /\ copied'[u] = c + 1
          /\ buffer'[d] = [buffer[d] EXCEPT ![c + 1] = frame[u].id]
          /\ pc'[u] = (IF c + 1 = frame[u].len THEN "prepare" ELSE "copy")
      BY <1>2, <2>3 DEF CopyPbuf, Goto
    <3>4. UNCHANGED <<frame, desc, own, DMATxDescToSet>>
      BY <1>8 DEF Copy
    <3>5. pc[u] = "copy" /\ d = DMATxDescToSet
      BY <1>1, <1>8, <2>3 DEF Copy, CopyInvOf
    <3>6. ASSUME NEW i \in 1 .. c + 1 PROVE buffer'[d][i] = frame[u].id
      <4>1. i \in 1 .. MaxPbufs
        <5>1. c \in Nat /\ frame[u].len \in Nat /\ c + 1 <= frame[u].len /\ frame[u].len <= MaxPbufs
          BY <3>1, <3>2
        <5> HIDE DEF c
        <5> QED
          BY <5>1, <3>6
      <4>3. buffer[d] \in [1 .. MaxPbufs -> 0 .. MaxFrames]
        BY <1>2, <3>1
      <4>2. i # c + 1 => buffer[d][i] = frame[u].id
        BY <1>1, <3>1, <3>5 DEF CopyInvOf
      <4> QED
        BY <3>3, <4>1, <4>2, <4>3
    <3>7. c + 1 < frame[u].len \/ c + 1 = frame[u].len
      BY <3>1, <3>2
    <3>8. /\ desc'[u] = d /\ d = DMATxDescToSet' /\ ~own'[d]
          /\ frame'[u] = frame[u] /\ frame[u].len > 0
      BY <2>3, <3>1, <3>2, <3>4, <3>5
    <3>9. \A i \in 1 .. copied'[u] : buffer'[desc'[u]][i] = frame'[u].id
      BY <3>3, <3>6, <3>8
    <3>10. CASE c + 1 < frame[u].len
      <4>1. pc'[u] = "copy"
        BY <3>1, <3>2, <3>3, <3>10
      <4> QED
        BY <3>3, <3>8, <3>9, <3>10, <4>1 DEF CopyInvOf
    <3>11. CASE c + 1 = frame[u].len
      <4>1. pc'[u] = "prepare"
        BY <3>3, <3>11
      <4> QED
        BY <3>3, <3>8, <3>9, <3>11, <4>1 DEF CopyInvOf
    <3> QED
      BY <3>7, <3>10, <3>11
  <2> QED
    BY <1>8, <2>1, <2>2, <2>3 DEF Copy
<1>9. ASSUME NEW t \in Tasks, Prepare(t) PROVE CopyInvOf(u)'
  <2>1. CASE u = t
    <3>1. pc[u] = "prepare" /\ pc'[u] = "give" /\ frame' = frame
      BY <1>2, <1>9, <2>1 DEF Prepare, Goto
    <3> QED
      BY <1>1, <3>1 DEF CopyInvOf
  <2>2. CASE u # t
    <3>1. pc[u] \notin {"copy", "prepare"}
      BY <1>9, <2>2 DEF Prepare, SemInv, Guarded
    <3> QED
      BY <1>1, <1>2, <1>9, <2>2, <3>1, OtherTask DEF Prepare, Goto
  <2> QED
    BY <2>1, <2>2
<1>10. ASSUME NEW t \in Tasks, Give(t) PROVE CopyInvOf(u)'
  BY <1>1, <1>2, <1>10 DEF Give, CopyInvOf, Goto, ringVars
<1>11. CASE Dma
  <2>1. \A d \in Descs : own'[d] => own[d]
    BY <1>2, <1>11 DEF Dma
  <2> QED
    BY <1>1, <1>11, <2>1, OtherTask DEF Dma, taskVars
<1>12. CASE UNCHANGED vars
  BY <1>1, <1>12 DEF vars, taskVars, ringVars, CopyInvOf
<1> QED
  BY <1>3, <1>4, <1>5, <1>6, <1>7, <1>8, <1>9, <1>10, <1>11, <1>12 DEF Next, Step

(* The DMA gets whole frames. *)
LEMMA NextFrames == TypeOK /\ SemInv /\ CopyInv /\ DmaFrames /\ [Next]_vars => DmaFrames'
<1> SUFFICES ASSUME TypeOK, SemInv, CopyInv, DmaFrames, [Next]_vars,
                    NEW d \in Descs, own'[d]
             PROVE  size'[d] > 0 /\ \A i \in 1 .. size'[d] : buffer'[d][i] = buffer'[d][1]
  BY DEF DmaFrames
<1>1. /\ own \in [Descs -> BOOLEAN] /\ DMATxDescToSet \in Descs
      /\ size \in [Descs -> 0 .. MaxPbufs]
      /\ frame \in [Tasks -> Frame]
      /\ desc \in [Tasks -> Descs]
      /\ buffer \in [Descs -> [1 .. MaxPbufs -> 0 .. MaxFrames]]
  BY DEF TypeOK
<1>2. ASSUME own[d], size'[d] = size[d], buffer'[d] = buffer[d]
      PROVE  size'[d] > 0 /\ \A i \in 1 .. size'[d] : buffer'[d][i] = buffer'[d][1]
  BY <1>2 DEF DmaFrames
<1>3. ASSUME NEW t \in Tasks, Copy(t)
      PROVE  own[d] /\ size'[d] = size[d] /\ buffer'[d] = buffer[d]
  BY <1>1, <1>3 DEF Copy, CopyPbuf
<1>4. ASSUME NEW t \in Tasks, Prepare(t)
      PROVE  size'[d] > 0 /\ \A i \in 1 .. size'[d] : buffer'[d][i] = buffer'[d][1]
  <2>1. CASE UNCHANGED ringVars
    BY <1>2, <2>1 DEF ringVars
  <2>2. CASE d # DMATxDescToSet /\ ~UNCHANGED ringVars
    BY <1>1, <1>2, <1>4, <2>2 DEF Prepare
  <2>3. CASE d = DMATxDescToSet /\ ~UNCHANGED ringVars
    <3>1. size'[d] = frame[t].len /\ buffer' = buffer
      BY <1>1, <1>4, <2>3 DEF Prepare
    <3>2. /\ frame[t].len > 0 /\ copied[t] = frame[t].len /\ desc[t] = d
          /\ \A i \in 1 .. copied[t] : buffer[d][i] = frame[t].id
      BY <1>4, <2>3 DEF Prepare, CopyInv
    <3>3. frame[t].len \in Nat
      BY <1>1, FrameIs
    <3>4. 1 \in 1 .. copied[t]
      BY <3>2, <3>3
    <3> QED
      BY <3>1, <3>2, <3>4
  <2> QED
    BY <2>1, <2>2, <2>3
<1>5. CASE Dma
  <2>1. own[d] /\ size' = size /\ buffer' = buffer
    BY <1>1, <1>5 DEF Dma
  <2> QED
    BY <1>2, <2>1
<1>6. ASSUME NEW t \in Tasks, NEW n \in 1 .. MaxPbufs, Call(t, n) PROVE UNCHANGED ringVars
  BY <1>6 DEF Call
<1>7. ASSUME NEW t \in Tasks,
             \/ Create(t) \/ CreateNamed(t) \/ GiveNew(t)
             \/ Take(t) \/ Taken(t) \/ TakeTimeout(t) \/ Give(t)
      PROVE  UNCHANGED ringVars
  BY <1>7 DEF Create, CreateNamed, GiveNew, Take, Taken, TakeTimeout, Give
<1>8. CASE UNCHANGED vars
  BY <1>2, <1>8 DEF vars, ringVars
<1>9. CASE UNCHANGED ringVars
  BY <1>2, <1>9 DEF ringVars
<1> QED
  BY <1>2, <1>3, <1>4, <1>5, <1>6, <1>7, <1>8, <1>9 DEF Next, Step

(* A buffer that the DMA has is not written. *)
LEMMA StepNoOverwrite ==
  TypeOK /\ SemInv /\ CopyInv /\ [Next]_vars =>
    \A d \in Descs : (own[d] /\ own'[d]) => (buffer'[d] = buffer[d] /\ size'[d] = size[d])
<1> SUFFICES ASSUME TypeOK, SemInv, CopyInv, [Next]_vars,
                    NEW d \in Descs, own[d]
             PROVE  buffer'[d] = buffer[d] /\ size'[d] = size[d]
  OBVIOUS
<1>1. /\ own \in [Descs -> BOOLEAN] /\ DMATxDescToSet \in Descs
      /\ size \in [Descs -> 0 .. MaxPbufs] /\ desc \in [Tasks -> Descs]
      /\ buffer \in [Descs -> [1 .. MaxPbufs -> 0 .. MaxFrames]]
  BY DEF TypeOK
<1>2. ASSUME NEW t \in Tasks, Copy(t) PROVE buffer'[d] = buffer[d] /\ size'[d] = size[d]
  BY <1>1, <1>2 DEF Copy, CopyPbuf
<1>3. ASSUME NEW t \in Tasks, Prepare(t) PROVE buffer'[d] = buffer[d] /\ size'[d] = size[d]
  BY <1>1, <1>3 DEF Prepare, ringVars
<1>4. ASSUME NEW t \in Tasks, NEW n \in 1 .. MaxPbufs, Call(t, n) PROVE UNCHANGED ringVars
  BY <1>4 DEF Call
<1>5. ASSUME NEW t \in Tasks,
             \/ Create(t) \/ CreateNamed(t) \/ GiveNew(t)
             \/ Take(t) \/ Taken(t) \/ TakeTimeout(t) \/ Give(t)
      PROVE  UNCHANGED ringVars
  BY <1>5 DEF Create, CreateNamed, GiveNew, Take, Taken, TakeTimeout, Give
<1>6. CASE Dma
  BY <1>6 DEF Dma
<1> QED
  BY <1>2, <1>3, <1>4, <1>5, <1>6 DEF Next, Step, vars, ringVars

-----------------------------------------------------------------------------
(* The inductive invariant, for every value of the constants. *)
THEOREM Invariance == Spec => []Inv
<1>1. Inv /\ [Next]_vars => Inv'
  BY NextType, NextSem, NextCopy, NextFrames, Rigid DEF Inv
<1> QED
  BY <1>1, InitInv, PTL DEF Spec

(* Type correctness. *)
THEOREM TypeCorrect == Spec => []TypeOK
<1>1. Inv => TypeOK
  BY DEF Inv
<1> QED
  BY <1>1, Invariance, PTL

(* One task at a time uses the descriptors. *)
THEOREM ExclusiveHolds == Spec => []Exclusive
<1>1. Inv => Exclusive
  BY DEF Inv, SemInv, Exclusive
<1> QED
  BY <1>1, Invariance, PTL

(* Only whole frames belong to the DMA. *)
THEOREM WholeFramesHolds == Spec => []WholeFrames
<1>1. Inv => WholeFrames
  BY DEF Inv, DmaFrames, WholeFrames
<1> QED
  BY <1>1, Invariance, PTL

(* No buffer of the DMA is written. *)
THEOREM NoOverwriteHolds == Spec => NoOverwrite
<1>1. Inv /\ [Next]_vars =>
        [created => \A d \in Descs :
           (own[d] /\ own'[d]) => (buffer'[d] = buffer[d] /\ size'[d] = size[d])]_vars
  BY StepNoOverwrite DEF Inv
<1> QED
  BY <1>1, Invariance, PTL DEF Spec, NoOverwrite

-----------------------------------------------------------------------------
(* However the first calls race: NotLost needs that the handle never runs  *)
(* past the semaphores there are, which is a counting argument. A call     *)
(* creates two of them at most, so the calls at the place loc are counted, *)
(* each by the number of its frame.                                        *)
Ids(loc) == {frame[t].id : t \in {u \in Tasks : pc[u] = loc}}

\* Two calls in progress have frames of their own.
OwnIds ==
  /\ \A t \in Tasks : pc[t] # "idle" => frame[t].id \in 1 .. calls
  /\ \A t, u \in Tasks :
       (pc[t] # "idle" /\ pc[u] # "idle" /\ frame[t].id = frame[u].id) => t = u

\* The semaphores there are, and those that calls in progress may add.
Bounded ==
  /\ xTxSemaphore <= sems
  /\ sems + 2 * Cardinality(Ids("create")) + Cardinality(Ids("createNamed"))
       <= 2 * calls + 1

\* An empty semaphore has a call that is about to give it, or its holder.
Kept ==
  \/ xTxSemaphore = NULL \/ count[xTxSemaphore] = 1
  \/ \E t \in Tasks : pc[t] \in {"createNamed", "giveNew"} \cup Guarded

RaceInv == OwnIds /\ Bounded /\ Kept

\* The calls at a place are finitely many.
LEMMA IdsFinite ==
  ASSUME TypeOK, OwnIds, NEW loc, loc # "idle"
  PROVE  IsFiniteSet(Ids(loc)) /\ Cardinality(Ids(loc)) \in Nat
<1>1. IsFiniteSet(1 .. calls)
  BY FS_Interval DEF TypeOK
<1>2. Ids(loc) \in SUBSET (1 .. calls)
  BY DEF Ids, OwnIds
<1> QED
  BY <1>1, <1>2, FS_Subset, FS_CardinalityType

\* A number more is one more at most.
LEMMA Added ==
  ASSUME NEW S, NEW x, IsFiniteSet(S), Cardinality(S) \in Nat
  PROVE  Cardinality(S \cup {x}) \in Nat /\ Cardinality(S \cup {x}) <= Cardinality(S) + 1
<1>1. Cardinality(S \cup {x}) = IF x \in S THEN Cardinality(S) ELSE Cardinality(S) + 1
  BY FS_AddElement
<1> QED
  BY <1>1

\* A call that leaves a place takes its number from the place.
LEMMA Left ==
  ASSUME TypeOK, OwnIds, NEW t \in Tasks, NEW loc, NEW next, pc[t] = loc,
         loc # "idle", next # loc, Goto(t, next), frame' = frame
  PROVE  /\ frame[t].id \in Ids(loc)
         /\ Ids(loc)' = Ids(loc) \ {frame[t].id}
<1>1. pc \in [Tasks -> Locs]
  BY DEF TypeOK
<1>2. \A u \in Tasks : pc'[u] = IF u = t THEN next ELSE pc[u]
  BY <1>1 DEF Goto
<1>3. \A u \in Tasks : (pc[u] = loc /\ frame[u].id = frame[t].id) => u = t
  BY DEF OwnIds
<1>4. ASSUME NEW i \in Ids(loc)' PROVE i \in Ids(loc) \ {frame[t].id}
  <2>1. PICK u \in Tasks : pc'[u] = loc /\ i = frame[u].id
    BY <1>4 DEF Ids
  <2> QED
    BY <1>2, <1>3, <2>1 DEF Ids
<1>5. ASSUME NEW i \in Ids(loc), i # frame[t].id PROVE i \in Ids(loc)'
  <2>1. PICK u \in Tasks : pc[u] = loc /\ i = frame[u].id
    BY <1>5 DEF Ids
  <2> QED
    BY <1>2, <1>5, <2>1 DEF Ids
<1>6. frame[t].id \in Ids(loc)
  BY DEF Ids
<1> QED
  BY <1>4, <1>5, <1>6

\* A call that comes to a place brings its number.
LEMMA Came ==
  ASSUME TypeOK, NEW t \in Tasks, NEW loc, pc[t] # loc, Goto(t, loc), frame' = frame
  PROVE  Ids(loc)' = Ids(loc) \cup {frame[t].id}
<1>1. pc \in [Tasks -> Locs]
  BY DEF TypeOK
<1>2. \A u \in Tasks : pc'[u] = IF u = t THEN loc ELSE pc[u]
  BY <1>1 DEF Goto
<1> QED
  BY <1>2 DEF Ids

\* The other places keep their numbers.
LEMMA Stayed ==
  ASSUME TypeOK, NEW t \in Tasks, NEW loc, NEW next, pc[t] # loc, next # loc,
         Goto(t, next), \A u \in Tasks \ {t} : frame'[u] = frame[u]
  PROVE  Ids(loc)' = Ids(loc)
<1>1. pc \in [Tasks -> Locs]
  BY DEF TypeOK
<1>2. \A u \in Tasks : pc'[u] = IF u = t THEN next ELSE pc[u]
  BY <1>1 DEF Goto
<1> QED
  BY <1>2 DEF Ids

(* Initially no call is in progress. *)
LEMMA InitRace == Init => RaceInv
<1> SUFFICES ASSUME Init PROVE RaceInv
  OBVIOUS
<1>1. Ids("create") = {} /\ Ids("createNamed") = {}
  BY DEF Init, Ids
<1>2. sems \in 0 .. 1 /\ xTxSemaphore = sems /\ calls = 0
  BY DEF Init, NULL
<1>3. OwnIds
  BY DEF Init, OwnIds
<1>4. Cardinality(Ids("create")) = 0 /\ Cardinality(Ids("createNamed")) = 0
  BY <1>1, FS_EmptySet
<1>b. Bounded
  BY <1>2, <1>4 DEF Bounded
<1>5. Kept
  BY DEF Init, Kept, Sems, NULL
<1> QED
  BY <1>3, <1>b, <1>5 DEF RaceInv

\* The calls in progress keep the numbers of their frames.
LEMMA NextOwnIds == TypeOK /\ OwnIds /\ [Next]_vars => OwnIds'
<1> SUFFICES ASSUME TypeOK, OwnIds, [Next]_vars PROVE OwnIds'
  OBVIOUS
<1>1. pc \in [Tasks -> Locs] /\ frame \in [Tasks -> Frame] /\ calls \in Nat
  BY DEF TypeOK
<1>2. ASSUME NEW t \in Tasks, NEW n \in 1 .. MaxPbufs, Call(t, n) PROVE OwnIds'
  <2>1. /\ calls' = calls + 1
        /\ \A u \in Tasks : frame'[u].id = IF u = t THEN calls + 1 ELSE frame[u].id
        /\ \A u \in Tasks \ {t} : pc'[u] = pc[u]
    BY <1>1, <1>2 DEF Call, Goto
  <2>2. \A u \in Tasks : pc[u] # "idle" => frame[u].id \in 1 .. calls /\ frame[u].id # calls + 1
    BY <1>1 DEF OwnIds
  <2> QED
    BY <1>1, <2>1, <2>2 DEF OwnIds
<1>3. ASSUME NEW t \in Tasks, Step(t) PROVE OwnIds'
  <2>1. frame' = frame /\ calls' = calls /\ pc[t] # "idle"
        /\ \A u \in Tasks \ {t} : pc'[u] = pc[u]
    BY <1>1, <1>3 DEF Step, Create, CreateNamed, GiveNew, Take, Taken, TakeTimeout, Copy,
       CopyPbuf, Prepare, Give, Goto
  <2> QED
    BY <2>1 DEF OwnIds
<1>4. CASE Dma \/ UNCHANGED vars
  BY <1>4 DEF Dma, vars, taskVars, OwnIds
<1> QED
  BY <1>2, <1>3, <1>4 DEF Next

\* The semaphores stay in Sems, so that the handle names one of them.
LEMMA NextBounded == TypeOK /\ OwnIds /\ Bounded /\ [Next]_vars => Bounded'
<1> SUFFICES ASSUME TypeOK, OwnIds, Bounded, [Next]_vars PROVE Bounded'
  OBVIOUS
<1> DEFINE C == Ids("create")
           D == Ids("createNamed")
<1>1. /\ IsFiniteSet(C) /\ Cardinality(C) \in Nat
      /\ IsFiniteSet(D) /\ Cardinality(D) \in Nat
      /\ sems \in Nat /\ xTxSemaphore \in Nat /\ calls \in Nat
      /\ pc \in [Tasks -> Locs]
  BY IdsFinite DEF TypeOK
<1>2. /\ xTxSemaphore <= sems
      /\ sems + 2 * Cardinality(C) + Cardinality(D) <= 2 * calls + 1
  BY DEF Bounded
<1>3. ASSUME xTxSemaphore' <= sems',
             sems' + 2 * Cardinality(C') + Cardinality(D') <= 2 * calls' + 1
      PROVE  Bounded'
  BY <1>3 DEF Bounded
<1>4. ASSUME NEW t \in Tasks, NEW n \in 1 .. MaxPbufs, Call(t, n) PROVE Bounded'
  <2>1. PICK next \in {"create", "take"} : Goto(t, next)
    BY <1>4 DEF Call
  <2>2. /\ pc[t] = "idle" /\ calls' = calls + 1 /\ sems' = sems
        /\ xTxSemaphore' = xTxSemaphore
        /\ \A u \in Tasks \ {t} : frame'[u] = frame[u]
    BY <1>4 DEF Call, semVars, TypeOK
  <2>3. D' = D
    BY <2>1, <2>2, Stayed
  <2>4. C' = C \/ C' = C \cup {calls + 1}
    <3>1. CASE next = "take"
      BY <2>1, <2>2, <3>1, Stayed
    <3>2. CASE next = "create"
      <4>1. \A u \in Tasks : pc'[u] = IF u = t THEN "create" ELSE pc[u]
        BY <1>1, <2>1, <3>2 DEF Goto
      <4>2. frame'[t].id = calls + 1
        BY <1>4 DEF Call, TypeOK
      <4> QED
        BY <2>2, <4>1, <4>2 DEF Ids
    <3> QED
      BY <3>1, <3>2
  <2>5. Cardinality(C') <= Cardinality(C) + 1 /\ Cardinality(C') \in Nat
    <3>1. PICK m : m = calls + 1
      OBVIOUS
    <3>2. Cardinality(C \cup {m}) \in Nat /\ Cardinality(C \cup {m}) <= Cardinality(C) + 1
      BY <1>1, Added
    <3> HIDE DEF C
    <3>3. CASE C' = C
      <4>1. Cardinality(C) \in Nat
        BY <1>1
      <4> QED
        BY <3>3, <4>1
    <3>4. CASE C' = C \cup {calls + 1}
      <4>1. C' = C \cup {m}
        BY <3>1, <3>4
      <4> QED
        BY <3>2, <4>1
    <3> QED
      BY <2>4, <3>3, <3>4
  <2> HIDE DEF C, D
  <2> QED
    BY <1>1, <1>2, <1>3, <2>2, <2>3, <2>5
<1>5. ASSUME NEW t \in Tasks, Create(t) PROVE Bounded'
  <2>1. /\ pc[t] = "create" /\ Goto(t, "createNamed") /\ frame' = frame
        /\ sems' = sems + 1 /\ xTxSemaphore' = sems + 1 /\ calls' = calls
    BY <1>5 DEF Create
  <2>2. PICK i : i = frame[t].id
    OBVIOUS
  <2>3. i \in C /\ C' = C \ {i}
    BY <2>1, <2>2, Left
  <2>4. D' = D \cup {i}
    BY <2>1, <2>2, Came
  <2>5. Cardinality(C') = Cardinality(C) - 1
    BY <1>1, <2>3, FS_RemoveElement
  <2>6. Cardinality(D') \in Nat /\ Cardinality(D') <= Cardinality(D) + 1
    BY <1>1, <2>4, Added
  <2> HIDE DEF C, D
  <2> QED
    BY <1>1, <1>2, <1>3, <2>1, <2>5, <2>6
<1>6. ASSUME NEW t \in Tasks, CreateNamed(t) PROVE Bounded'
  <2>1. /\ pc[t] = "createNamed" /\ Goto(t, "giveNew") /\ frame' = frame
        /\ sems' = sems + 1 /\ xTxSemaphore' = sems + 1 /\ calls' = calls
    BY <1>6 DEF CreateNamed
  <2>2. PICK i : i = frame[t].id
    OBVIOUS
  <2>3. i \in D /\ D' = D \ {i}
    BY <2>1, <2>2, Left
  <2>4. C' = C
    BY <2>1, Stayed
  <2>5. Cardinality(D') = Cardinality(D) - 1
    BY <1>1, <2>3, FS_RemoveElement
  <2> HIDE DEF C, D
  <2> QED
    BY <1>1, <1>2, <1>3, <2>1, <2>4, <2>5
<1>7. ASSUME NEW t \in Tasks,
             \/ GiveNew(t) \/ Take(t) \/ Taken(t) \/ TakeTimeout(t)
             \/ Copy(t) \/ Prepare(t) \/ Give(t)
      PROVE  Bounded'
  <2>1. /\ pc[t] \notin {"create", "createNamed"} /\ frame' = frame
        /\ sems' = sems /\ xTxSemaphore' = xTxSemaphore /\ calls' = calls
        /\ \E next \in Locs \ {"create", "createNamed"} : Goto(t, next)
    BY <1>7, LocsAre DEF GiveNew, Take, Taken, TakeTimeout, Copy, CopyPbuf, Prepare, Give, semVars
  <2>2. C' = C /\ D' = D
    BY <2>1, Stayed
  <2> HIDE DEF C, D
  <2> QED
    BY <1>2, <1>3, <2>1, <2>2
<1>8. CASE Dma \/ UNCHANGED vars
  <2>1. UNCHANGED <<pc, frame, sems, xTxSemaphore, calls>>
    BY <1>8 DEF Dma, vars, taskVars, semVars
  <2>2. C' = C /\ D' = D
    BY <2>1 DEF Ids
  <2> HIDE DEF C, D
  <2> QED
    BY <1>2, <1>3, <2>1, <2>2
<1> QED
  BY <1>4, <1>5, <1>6, <1>7, <1>8 DEF Next, Step

\* The numbers of the semaphores there are.
LEMMA HandleIs ==
  TypeOK /\ OwnIds /\ Bounded =>
    /\ xTxSemaphore # NULL => xTxSemaphore \in Sems
    /\ \A t \in Tasks : pc[t] = "create" => sems + 1 \in Sems
<1> SUFFICES ASSUME TypeOK, OwnIds, Bounded
             PROVE  /\ xTxSemaphore # NULL => xTxSemaphore \in Sems
                    /\ \A t \in Tasks : pc[t] = "create" => sems + 1 \in Sems
  OBVIOUS
<1> DEFINE C == Ids("create")
           D == Ids("createNamed")
<1>1. /\ IsFiniteSet(C) /\ Cardinality(C) \in Nat /\ Cardinality(D) \in Nat
      /\ sems \in Nat /\ xTxSemaphore \in Nat /\ calls \in 0 .. MaxFrames
  BY IdsFinite DEF TypeOK
<1>2. /\ xTxSemaphore <= sems
      /\ sems + 2 * Cardinality(C) + Cardinality(D) <= 2 * calls + 1
  BY DEF Bounded
<1>3. ASSUME NEW t \in Tasks, pc[t] = "create" PROVE Cardinality(C) # 0
  <2>1. C # {}
    BY <1>3 DEF Ids
  <2> QED
    BY <1>1, <2>1, FS_EmptySet
<1> HIDE DEF C, D
<1>4. xTxSemaphore # NULL => xTxSemaphore \in Sems
  BY <1>1, <1>2 DEF Sems, NULL
<1>5. ASSUME NEW t \in Tasks, pc[t] = "create" PROVE sems + 1 \in Sems
  BY <1>1, <1>2, <1>3, <1>5 DEF Sems
<1> QED
  BY <1>4, <1>5

\* Who takes the semaphore will give it, and a new one is given.
LEMMA NextKept == TypeOK /\ OwnIds /\ Bounded /\ Kept /\ [Next]_vars => Kept'
<1> SUFFICES ASSUME TypeOK, OwnIds, Bounded, Kept, [Next]_vars PROVE Kept'
  OBVIOUS
<1>1. pc \in [Tasks -> Locs] /\ count \in [Sems -> 0 .. 1]
  BY DEF TypeOK
<1>2. /\ xTxSemaphore # NULL => xTxSemaphore \in Sems
      /\ \A t \in Tasks : pc[t] = "create" => sems + 1 \in Sems
  BY HandleIs
<1> USE <1>1 DEF Goto, Guarded
<1>3. ASSUME NEW t \in Tasks, NEW n \in 1 .. MaxPbufs, Call(t, n) PROVE Kept'
  BY <1>3 DEF Call, Kept, semVars
<1>4. ASSUME NEW t \in Tasks, Create(t) PROVE Kept'
  BY <1>2, <1>4 DEF Create, Kept
<1>5. ASSUME NEW t \in Tasks, CreateNamed(t) PROVE Kept'
  BY <1>5 DEF CreateNamed, Kept
<1>6. ASSUME NEW t \in Tasks, GiveNew(t) \/ Give(t) PROVE Kept'
  BY <1>2, <1>6 DEF GiveNew, Give, Kept
<1>7. ASSUME NEW t \in Tasks, Take(t) \/ TakeTimeout(t) PROVE Kept'
  BY <1>7 DEF Take, TakeTimeout, Kept, semVars
<1>8. ASSUME NEW t \in Tasks, Taken(t) PROVE Kept'
  BY <1>8 DEF Taken, Kept
<1>9. ASSUME NEW t \in Tasks, Copy(t) \/ Prepare(t) PROVE Kept'
  <2>1. pc'[t] \in Guarded
    BY <1>9 DEF Copy, CopyPbuf, Prepare
  <2> QED
    BY <2>1 DEF Kept
<1>10. CASE Dma \/ UNCHANGED vars
  BY <1>10 DEF Dma, vars, taskVars, semVars, Kept
<1> QED
  BY <1>3, <1>4, <1>5, <1>6, <1>7, <1>8, <1>9, <1>10 DEF Next, Step

(* The semaphore is not lost, however the calls that create it race with   *)
(* each other and with a call that holds the semaphore they replace        *)
(* (ethernetif.c 213-220, 299).                                            *)
THEOREM NotLostHolds == Spec => []NotLost
<1>1. TypeOK /\ RaceInv /\ [Next]_vars => RaceInv'
  BY NextOwnIds, NextBounded, NextKept DEF RaceInv
<1>2. RaceInv => NotLost
  BY DEF RaceInv, Kept, NotLost, Guarded
<1> QED
  BY <1>1, <1>2, InitRace, TypeCorrect, PTL DEF Spec


-----------------------------------------------------------------------------
(* The receive path                                                        *)

USE RxBufsAssumption, ArrivalsAssumption

(* The segments since the last frame that was taken lie in one piece,      *)
(* which ends where the next is looked for, or fill the ring.              *)
SegInv == Seg_Count > 0 =>
  IF Seg_Count < RxBufs
  THEN /\ DMARxDescToGet = Plus(FS_Rx_Desc, Seg_Count)
       /\ \A i \in 0 .. Seg_Count - 1 : ~rxOwn[Plus(FS_Rx_Desc, i)]
  ELSE \A d \in RxDescs : ~rxOwn[d]

(* The oldest descriptor that is not given back.                           *)
Base == IF rxPc = "alloc" THEN FS_Rx_Desc ELSE DMARxDescToGet

(* The ring holds the last k frames, and the n before are out of it.       *)
Ring(k, n) ==
  /\ Len(arrived) = n + k /\ rxDma = Plus(Base, k)
  /\ \A i \in 0 .. RxBufs - 1 : rxOwn[Plus(Base, i)] <=> i >= k
  /\ \A i \in 0 .. k - 1 : slot[Plus(Base, i)] = n + 1 + i

Out(n) ==
  /\ \A m \in 1 .. n :
       \/ \E i \in 1 .. Len(delivered) : m = delivered[i]
       \/ m \in refused
       \/ m = p
  /\ \A i \in 1 .. Len(delivered) : delivered[i] <= n /\ (p # 0 => delivered[i] < p)
  /\ p # 0 => p = n

RingInv == "pool" \notin faults =>
  /\ Seg_Count = IF rxPc = "alloc" THEN 1 ELSE 0
  /\ \E k \in 0 .. RxBufs, n \in Nat : Ring(k, n) /\ Out(n)

(* Where the task and the handler are.                                     *)
LocInv ==
  /\ isr = "clear" => s_xSemaphore = 1
  /\ rxPc = "alloc" => Seg_Count > 0
  /\ p # 0 => rxPc \in {"resume", "input"}
  /\ rxPc = "input" => p # 0

(* Once the task has given a descriptor back, only a frame that wakes it   *)
(* fills the ring.                                                         *)
WakeInv ==
  /\ "pool" \notin faults /\ rxPc \in {"wait", "resume", "input"}
  /\ \A d \in RxDescs : ~rxOwn[d]
  => Wakes

IInv == RxTypeOK /\ SegInv /\ RingInv /\ LocInv /\ WakeInv /\ InOrder

-----------------------------------------------------------------------------
\* A step around the ring.
LEMMA PlusDef ==
  ASSUME NEW d \in RxDescs, NEW i \in 0 .. RxBufs
  PROVE  Plus(d, i) = IF d + i < RxBufs THEN d + i ELSE d + i - RxBufs
BY DEF Plus, RxDescs

\* It ends in the ring.
LEMMA PlusIn == ASSUME NEW d \in RxDescs, NEW i \in Nat PROVE Plus(d, i) \in RxDescs
BY DEF Plus, RxDescs

\* Two descriptors of the ring are less than N steps apart.
LEMMA PlusOnto ==
  ASSUME NEW d \in RxDescs, NEW c \in RxDescs PROVE \E i \in 0 .. RxBufs - 1 : c = Plus(d, i)
<1> DEFINE i == IF d <= c THEN c - d ELSE c - d + RxBufs
<1>1. i \in 0 .. RxBufs - 1 /\ i \in 0 .. RxBufs
  BY DEF RxDescs
<1>2. c = Plus(d, i)
  BY <1>1, PlusDef DEF RxDescs
<1> QED
  BY <1>1, <1>2

\* Steps of different lengths less than N end at different descriptors.
LEMMA PlusOne ==
  ASSUME NEW d \in RxDescs, NEW i \in 0 .. RxBufs - 1, NEW j \in 0 .. RxBufs - 1, Plus(d, i) = Plus(d, j)
  PROVE  i = j
BY PlusDef DEF RxDescs

\* One step more.
LEMMA PlusNext ==
  ASSUME NEW d \in RxDescs, NEW i \in 0 .. RxBufs - 1
  PROVE  /\ Plus(d, i + 1) = Plus(Plus(d, i), 1)
         /\ Plus(Plus(d, 1), i) = Plus(d, i + 1)
         /\ Plus(d, 0) = d
         /\ Plus(d, RxBufs) = d
<1>1. Plus(d, i) \in RxDescs /\ Plus(d, 1) \in RxDescs
  BY PlusIn
<1>2. /\ Plus(d, i) = IF d + i < RxBufs THEN d + i ELSE d + i - RxBufs
      /\ Plus(d, i + 1) = IF d + i + 1 < RxBufs THEN d + i + 1 ELSE d + i + 1 - RxBufs
      /\ Plus(d, 1) = IF d + 1 < RxBufs THEN d + 1 ELSE d + 1 - RxBufs
      /\ Plus(d, 0) = IF d + 0 < RxBufs THEN d + 0 ELSE d + 0 - RxBufs
      /\ Plus(d, RxBufs) = IF d + RxBufs < RxBufs THEN d + RxBufs ELSE d + RxBufs - RxBufs
  <2>1. /\ i \in 0 .. RxBufs /\ i + 1 \in 0 .. RxBufs /\ 1 \in 0 .. RxBufs
        /\ 0 \in 0 .. RxBufs /\ RxBufs \in 0 .. RxBufs
    OBVIOUS
  <2>2. /\ Plus(d, 1) = IF d + 1 < RxBufs THEN d + 1 ELSE d + 1 - RxBufs
        /\ Plus(d, 0) = IF d + 0 < RxBufs THEN d + 0 ELSE d + 0 - RxBufs
        /\ Plus(d, RxBufs) = IF d + RxBufs < RxBufs THEN d + RxBufs ELSE d + RxBufs - RxBufs
    BY <2>1, PlusDef
  <2>3. Plus(d, i + 1) = IF d + (i + 1) < RxBufs THEN d + (i + 1) ELSE d + (i + 1) - RxBufs
    BY <2>1, PlusDef
  <2> QED
    BY <2>1, <2>2, <2>3, PlusDef DEF RxDescs
<1>3. /\ Plus(Plus(d, i), 1) = IF Plus(d, i) + 1 < RxBufs THEN Plus(d, i) + 1 ELSE Plus(d, i) + 1 - RxBufs
      /\ Plus(Plus(d, 1), i) = IF Plus(d, 1) + i < RxBufs THEN Plus(d, 1) + i ELSE Plus(d, 1) + i - RxBufs
  BY <1>1, PlusDef
<1> QED
  BY <1>2, <1>3 DEF RxDescs

-----------------------------------------------------------------------------
\* The released descriptors are the processor's.
LEMMA Owned == ASSUME RxTypeOK, SegInv, Seg_Count > 0 PROVE \A d \in Released : ~rxOwn[d]
<1>1. CASE Seg_Count < RxBufs
  BY <1>1 DEF SegInv, Released
<1>2. CASE ~(Seg_Count < RxBufs)
  <2>1. \A d \in Released : d \in RxDescs
    BY PlusIn DEF Released, RxTypeOK
  <2> QED
    BY <1>2, <2>1 DEF SegInv
<1> QED
  BY <1>1, <1>2

\* RxInv has the checked invariant inside.
LEMMA Implied == ASSUME IInv PROVE ReceiveInv
<1>1. CopyOwned
  BY Owned DEF CopyOwned, IInv, LocInv
<1>2. FullRingWakes
  BY DEF FullRingWakes, RingFull, IInv, WakeInv
<1>3. NothingSkipped
  <2> SUFFICES ASSUME "pool" \notin faults, NEW m \in 1 .. Len(arrived)
               PROVE  \/ m \in {delivered[i] : i \in DOMAIN delivered} \cup refused \cup {p}
                      \/ \E d \in RxDescs : ~rxOwn[d] /\ slot[d] = m
    BY DEF NothingSkipped
  <2>1. PICK k \in 0 .. RxBufs, n \in Nat : Ring(k, n) /\ Out(n)
    BY DEF IInv, RingInv
  <2>2. m \in Nat /\ m >= 1 /\ m <= n + k
    BY <2>1 DEF Ring, IInv, RxTypeOK
  <2>3. CASE m <= n
    <3>1. DOMAIN delivered = 1 .. Len(delivered)
      BY DEF IInv, RxTypeOK
    <3> QED
      BY <2>1, <2>2, <2>3, <3>1 DEF Out
  <2>4. CASE m > n
    <3> DEFINE i == m - n - 1
               d == Plus(Base, i)
    <3>1. i \in 0 .. k - 1 /\ i \in 0 .. RxBufs - 1
      BY <2>2, <2>4
    <3>2. Base \in RxDescs
      BY DEF IInv, RxTypeOK, Base
    <3>3. d \in RxDescs /\ ~rxOwn[d] /\ slot[d] = m
      <4>1. d \in RxDescs
        BY <3>1, <3>2, PlusIn
      <4>2. ~(i >= k) /\ n + 1 + i = m
        BY <2>2, <3>1
      <4>3. ~rxOwn[d]
        BY <2>1, <3>1, <4>2 DEF Ring
      <4>4. slot[d] = n + 1 + i
        BY <2>1, <3>1 DEF Ring
      <4> QED
        BY <4>1, <4>2, <4>3, <4>4
    <3> QED
      BY <3>3
  <2> QED
    BY <2>2, <2>3, <2>4
<1> QED
  BY <1>1, <1>2, <1>3 DEF IInv, ReceiveInv

\* Initially the ring is the DMA's.
LEMMA InitIInv == RxInit => IInv
<1> SUFFICES ASSUME RxInit PROVE IInv
  OBVIOUS
<1>1. 0 \in RxDescs
  BY DEF RxDescs
<1>2. RxTypeOK
  BY <1>1 DEF RxInit, RxTypeOK, RxDescs, Frames
<1>3. Ring(0, 0) /\ Out(0)
  BY <1>1, PlusIn, PlusNext DEF RxInit, Ring, Out, Base
<1>4. RingInv
  BY <1>3 DEF RingInv, RxInit
<1>5. WakeInv
  BY <1>1 DEF WakeInv, RxInit
<1> QED
  BY <1>2, <1>4, <1>5 DEF IInv, SegInv, LocInv, InOrder, RxInit

-----------------------------------------------------------------------------
\* What is delivered grows by one frame.
LEMMA Appended ==
  ASSUME NEW S, NEW s \in Seq(S), NEW e \in S
  PROVE  /\ Append(s, e) \in Seq(S) /\ Len(Append(s, e)) = Len(s) + 1
         /\ \A i \in 1 .. Len(s) : Append(s, e)[i] = s[i]
         /\ Append(s, e)[Len(s) + 1] = e
OBVIOUS

\* The ring is empty for the task, and full for the DMA, at most by N frames.
LEMMA RingEnds ==
  ASSUME RxTypeOK, NEW k \in 0 .. RxBufs, NEW n \in Nat, Ring(k, n)
  PROVE  /\ Base \in RxDescs
         /\ rxOwn[rxDma] => k < RxBufs
         /\ ~rxOwn[Base] => k > 0
<1>1. Base \in RxDescs
  BY DEF RxTypeOK, Base
<1>2. Plus(Base, 0) = Base /\ Plus(Base, RxBufs) = Base
  <2>1. 0 \in 0 .. RxBufs - 1
    OBVIOUS
  <2> QED
    BY <1>1, <2>1, PlusNext
<1>3. rxOwn[Base] <=> 0 >= k
  BY <1>2 DEF Ring
<1> QED
  BY <1>1, <1>2, <1>3 DEF Ring

\* A frame arrives, or is lost because the DMA has no descriptor.
LEMMA ArriveStep == ASSUME IInv, NEW kind \in Kinds, Arrive(kind) PROVE IInv'
<1>1. RxTypeOK
  BY DEF IInv
<1>2. UNCHANGED <<faults, isr, s_xSemaphore, rxPc, infos, p, delivered, refused>>
  BY DEF Arrive
<1>3. CASE rxOwn[rxDma] /\ arrived' = Append(arrived, kind)
  <2>1. /\ rxOwn' = [rxOwn EXCEPT ![rxDma] = FALSE]
        /\ slot' = [slot EXCEPT ![rxDma] = Len(arrived')]
        /\ rxDma' = Plus(rxDma, 1) /\ flags' = flags \cup {"R", "NIS"}
        /\ Len(arrived) < MaxArrivals
    BY <1>3 DEF Arrive, dmaVars
  <2>2. arrived' \in Seq(Kinds) /\ Len(arrived') = Len(arrived) + 1
    BY <1>1, <1>3, Appended DEF RxTypeOK
  <2>3. rxDma' \in RxDescs
    BY <1>1, <2>1, PlusIn DEF RxTypeOK
  <2>4. RxTypeOK'
    BY <1>1, <1>2, <2>1, <2>2, <2>3 DEF RxTypeOK, infos, Frames
  <2>5. \A d \in RxDescs : rxOwn'[d] <=> rxOwn[d] /\ d # rxDma
    BY <1>1, <2>1 DEF RxTypeOK
  <2>6. SegInv'
    <3>1. \A i \in Nat : Plus(FS_Rx_Desc, i) \in RxDescs
      BY <1>1, PlusIn DEF RxTypeOK
    <3> QED
      BY <1>1, <1>2, <2>5, <3>1 DEF IInv, SegInv, infos, RxTypeOK
  <2>7. ASSUME "pool" \notin faults PROVE RingInv'
    <3>1. PICK k \in 0 .. RxBufs, n \in Nat : Ring(k, n) /\ Out(n)
      BY <2>7 DEF IInv, RingInv
    <3>2. k < RxBufs /\ Base \in RxDescs /\ k \in 0 .. RxBufs - 1 /\ k + 1 \in 0 .. RxBufs
      BY <1>1, <1>3, <3>1, RingEnds
    <3>3. Base' = Base
      BY <1>2 DEF Base, infos
    <3>4. rxDma = Plus(Base, k) /\ rxDma' = Plus(Base, k + 1)
      BY <2>1, <3>1, <3>2, PlusNext DEF Ring
    <3>5. \A i \in 0 .. RxBufs - 1 : Plus(Base, i) \in RxDescs /\ (Plus(Base, i) = rxDma <=> i = k)
      BY <3>2, <3>4, PlusIn, PlusOne
    <3>6. \A i \in 0 .. RxBufs - 1 : rxOwn'[Plus(Base, i)] <=> i >= k + 1
      BY <2>5, <3>1, <3>2, <3>5 DEF Ring
    <3>7. \A i \in 0 .. k : slot'[Plus(Base, i)] = n + 1 + i
      <4> SUFFICES ASSUME NEW i \in 0 .. k PROVE slot'[Plus(Base, i)] = n + 1 + i
        OBVIOUS
      <4>1. i \in 0 .. RxBufs - 1 /\ Plus(Base, i) \in RxDescs
        BY <3>2, <3>5
      <4>2. CASE i = k
        BY <1>1, <2>1, <2>2, <3>1, <3>4, <4>1, <4>2 DEF Ring, RxTypeOK
      <4>3. CASE i # k
        <5>1. slot'[Plus(Base, i)] = slot[Plus(Base, i)]
          BY <1>1, <2>1, <3>5, <4>1, <4>3 DEF RxTypeOK
        <5>2. i \in 0 .. k - 1
          BY <4>3
        <5> QED
          BY <3>1, <5>1, <5>2 DEF Ring
      <4> QED
        BY <4>2, <4>3
    <3>8. Ring(k + 1, n)'
      <4>1. Len(arrived') = n + (k + 1)
        BY <2>2, <3>1 DEF Ring
      <4> QED
        BY <3>2, <3>3, <3>4, <3>6, <3>7, <4>1 DEF Ring
    <3>9. Out(n)'
      BY <1>2, <3>1 DEF Out
    <3> QED
      BY <1>2, <2>7, <3>2, <3>8, <3>9 DEF RingInv, IInv, infos
  <2>8. RingInv'
    BY <1>2, <2>7 DEF RingInv
  <2>9. WakeInv' /\ LocInv' /\ InOrder'
    <3>1. {"R", "NIS"} \subseteq flags'
      BY <2>1
    <3>2. Wakes'
      BY <3>1 DEF Wakes
    <3>3. WakeInv'
      BY <3>2 DEF WakeInv
    <3>4. LocInv'
      BY <1>2 DEF IInv, LocInv, dmaVars, infos
    <3>5. InOrder'
      BY <1>2 DEF IInv, InOrder
    <3> QED
      BY <3>3, <3>4, <3>5
  <2> QED
    BY <2>4, <2>6, <2>8, <2>9 DEF IInv
<1>4. CASE flags' = flags \cup {"RBU", "AIS"} /\ UNCHANGED dmaVars
  BY <1>2, <1>4 DEF IInv, RxTypeOK, infos, dmaVars, SegInv, RingInv, Ring, Out, Base, LocInv, WakeInv,
     Wakes, InOrder
<1> QED
  BY <1>3, <1>4 DEF Arrive

\* The handler's steps touch neither the ring nor what the task has.
LEMMA IrqStep == ASSUME IInv, Irq PROVE IInv'
<1>1. UNCHANGED <<faults, dmaVars, rxPc, infos, p, delivered, refused>>
  BY DEF Irq, IrqGive, IrqClear
<1>2. RxTypeOK'
  <2>1. CASE IrqGive
    BY <1>1, <2>1 DEF IInv, RxTypeOK, IrqGive, dmaVars, infos
  <2>2. CASE IrqClear
    BY <1>1, <2>2 DEF IInv, RxTypeOK, IrqClear, dmaVars, infos
  <2> QED
    BY <2>1, <2>2 DEF Irq
<1>3. SegInv' /\ RingInv' /\ InOrder'
  BY <1>1 DEF IInv, dmaVars, infos, SegInv, RingInv, Ring, Out, Base, InOrder
<1>4. LocInv' /\ (Wakes => Wakes')
  <2>1. CASE IrqGive
    <3>1. {"R", "NIS"} \subseteq flags => {"R", "NIS"} \subseteq flags'
      BY <2>1 DEF IrqGive
    <3>2. s_xSemaphore = 1 => s_xSemaphore' = 1
      BY <2>1 DEF IrqGive
    <3>3. isr = "out" /\ (isr' = "clear" => s_xSemaphore' = 1)
      BY <2>1 DEF IrqGive
    <3>4. Wakes => Wakes'
      BY <3>1, <3>2, <3>3 DEF Wakes
    <3>5. LocInv'
      BY <1>1, <3>3 DEF IInv, LocInv, dmaVars, infos
    <3> QED
      BY <3>4, <3>5
  <2>2. CASE IrqClear
    <3>1. isr = "clear" /\ isr' = "out" /\ s_xSemaphore' = s_xSemaphore /\ s_xSemaphore = 1
      BY <2>2 DEF IrqClear, IInv, LocInv
    <3>2. Wakes'
      BY <3>1 DEF Wakes
    <3>3. LocInv'
      BY <1>1, <3>1 DEF IInv, LocInv, dmaVars, infos
    <3> QED
      BY <3>2, <3>3
  <2> QED
    BY <2>1, <2>2 DEF Irq
<1>5. WakeInv'
  BY <1>1, <1>4 DEF IInv, WakeInv, dmaVars
<1> QED
  BY <1>2, <1>3, <1>4, <1>5 DEF IInv

-----------------------------------------------------------------------------
\* The task takes the semaphore.
LEMMA WaitStep == ASSUME IInv, Wait PROVE IInv'
<1>1. /\ rxPc = "wait" /\ rxPc' = "get" /\ isr = "out" /\ s_xSemaphore' = 0
      /\ UNCHANGED <<faults, dmaVars, flags, isr, infos, p, delivered, refused>>
  BY DEF Wait, At
<1>2. RxTypeOK' /\ LocInv' /\ WakeInv' /\ InOrder' /\ SegInv'
  BY <1>1 DEF IInv, RxTypeOK, LocInv, WakeInv, InOrder, SegInv, dmaVars, infos
<1>3. RingInv'
  BY <1>1 DEF IInv, RingInv, Ring, Out, Base, dmaVars, infos
<1> QED
  BY <1>2, <1>3 DEF IInv

\* The task looks for a frame.
LEMMA GetStep == ASSUME IInv, Get PROVE IInv'
<1>1. /\ rxPc = "get" /\ p = 0
      /\ UNCHANGED <<faults, dmaVars, flags, isr, s_xSemaphore, delivered, refused>>
  BY DEF Get, At, IInv, LocInv
<1>2. CASE rxOwn[DMARxDescToGet] /\ p' = 0 /\ rxPc' = "resume" /\ UNCHANGED infos
  <2>1. ~\A d \in RxDescs : ~rxOwn[d]
    BY <1>2 DEF IInv, RxTypeOK
  <2>2. RxTypeOK' /\ LocInv' /\ WakeInv' /\ InOrder' /\ SegInv'
    BY <1>1, <1>2, <2>1 DEF IInv, RxTypeOK, LocInv, WakeInv, InOrder, SegInv, dmaVars, infos
  <2>3. RingInv'
    BY <1>1, <1>2 DEF IInv, RingInv, Ring, Out, Base, dmaVars, infos
  <2> QED
    BY <2>2, <2>3 DEF IInv
<1>3. CASE ~rxOwn[DMARxDescToGet] /\ rxPc' = "alloc"
  <2>1. /\ Seg_Count' = Seg_Count + 1 /\ p' = p
        /\ FS_Rx_Desc' = IF Seg_Count = 0 THEN DMARxDescToGet ELSE FS_Rx_Desc
        /\ DMARxDescToGet' = Plus(DMARxDescToGet, 1)
        /\ Seg_Count \in Nat /\ DMARxDescToGet \in RxDescs /\ FS_Rx_Desc \in RxDescs
    BY <1>3 DEF Get, IInv, RxTypeOK
  <2>2. DMARxDescToGet' \in RxDescs /\ FS_Rx_Desc' \in RxDescs
    BY <2>1, PlusIn
  <2>3. RxTypeOK'
    BY <1>1, <1>3, <2>1, <2>2 DEF IInv, RxTypeOK, dmaVars
  <2>4. SegInv'
    <3>1. CASE Seg_Count = 0
      <4>1. Plus(DMARxDescToGet, 0) = DMARxDescToGet
        <5>1. 0 \in 0 .. RxBufs - 1
          OBVIOUS
        <5> QED
          BY <2>1, <5>1, PlusNext
      <4>2. RxBufs = 1 => RxDescs = {DMARxDescToGet}
        BY <2>1 DEF RxDescs
      <4>3. Seg_Count' = 1 /\ FS_Rx_Desc' = DMARxDescToGet /\ rxOwn' = rxOwn
        BY <1>1, <2>1, <3>1 DEF dmaVars
      <4>4. 0 .. 1 - 1 = {0}
        OBVIOUS
      <4> QED
        BY <1>3, <2>1, <4>1, <4>2, <4>3, <4>4 DEF SegInv
    <3>2. CASE Seg_Count > 0 /\ Seg_Count < RxBufs
      <4>1. /\ DMARxDescToGet = Plus(FS_Rx_Desc, Seg_Count) /\ FS_Rx_Desc' = FS_Rx_Desc
            /\ \A i \in 0 .. Seg_Count - 1 : ~rxOwn[Plus(FS_Rx_Desc, i)]
        BY <2>1, <3>2 DEF IInv, SegInv
      <4>2. \A i \in 0 .. Seg_Count : ~rxOwn[Plus(FS_Rx_Desc, i)]
        <5>1. \A i \in 0 .. Seg_Count : i \in 0 .. Seg_Count - 1 \/ i = Seg_Count
          BY <2>1
        <5> QED
          BY <4>1, <1>3, <5>1
      <4>3. DMARxDescToGet' = Plus(FS_Rx_Desc, Seg_Count + 1)
        BY <2>1, <3>2, <4>1, PlusNext
      <4>4. Seg_Count' >= RxBufs => \A d \in RxDescs : ~rxOwn[d]
        <5> SUFFICES ASSUME Seg_Count' >= RxBufs, NEW d \in RxDescs PROVE ~rxOwn[d]
          OBVIOUS
        <5>1. PICK i \in 0 .. RxBufs - 1 : d = Plus(FS_Rx_Desc, i)
          BY <2>1, PlusOnto
        <5> QED
          BY <2>1, <4>2, <5>1
      <4> QED
        BY <1>1, <2>1, <4>1, <4>2, <4>3, <4>4 DEF SegInv, dmaVars
    <3>3. CASE Seg_Count >= RxBufs
      BY <1>1, <2>1, <3>3 DEF IInv, SegInv, dmaVars
    <3> QED
      BY <2>1, <3>1, <3>2, <3>3
  <2>5. ASSUME "pool" \notin faults PROVE RingInv'
    <3>1. Seg_Count = 0 /\ Base = DMARxDescToGet /\ Base' = DMARxDescToGet /\ Seg_Count' = 1
      BY <1>1, <1>3, <2>1, <2>5 DEF IInv, RingInv, Base
    <3> QED
      BY <1>1, <1>3, <2>1, <2>5, <3>1 DEF IInv, RingInv, Ring, Out, dmaVars
  <2>6. RingInv'
    BY <1>1, <2>5 DEF RingInv
  <2>7. LocInv' /\ WakeInv' /\ InOrder'
    BY <1>1, <1>3, <2>1 DEF IInv, LocInv, WakeInv, InOrder
  <2> QED
    BY <2>3, <2>4, <2>6, <2>7 DEF IInv
<1> QED
  BY <1>2, <1>3 DEF Get

\* The task copies a frame and gives its descriptors back, or has no pbuf.
LEMMA CopyStep == ASSUME IInv, CopyFrame PROVE IInv'
<1>1. /\ rxPc = "alloc" /\ rxPc' = "resume" /\ p = 0 /\ Seg_Count > 0
      /\ UNCHANGED <<faults, arrived, slot, rxDma, flags, isr, s_xSemaphore, DMARxDescToGet,
                     FS_Rx_Desc, delivered, refused>>
  BY DEF CopyFrame, At, IInv, LocInv
<1>2. CASE "pool" \in faults /\ p' = 0 /\ UNCHANGED <<rxOwn, Seg_Count>>
  BY <1>1, <1>2 DEF IInv, RxTypeOK, SegInv, RingInv, LocInv, WakeInv, InOrder
<1>3. CASE p' = slot[FS_Rx_Desc] /\ Seg_Count' = 0
           /\ rxOwn' = [d \in RxDescs |-> rxOwn[d] \/ d \in Released]
  <2>1. FS_Rx_Desc \in RxDescs /\ DMARxDescToGet \in RxDescs /\ Seg_Count \in Nat
    BY DEF IInv, RxTypeOK
  <2>2. RxTypeOK'
    <3>1. rxOwn' \in [RxDescs -> BOOLEAN]
      BY <1>3
    <3>2. p' \in Frames
      BY <1>3, <2>1 DEF IInv, RxTypeOK
    <3> QED
      BY <1>1, <1>3, <3>1, <3>2 DEF IInv, RxTypeOK
  <2>3. Plus(FS_Rx_Desc, 0) = FS_Rx_Desc /\ Plus(FS_Rx_Desc, RxBufs) = FS_Rx_Desc
    <3>1. 0 \in 0 .. RxBufs - 1
      OBVIOUS
    <3> QED
      BY <2>1, <3>1, PlusNext
  <2>4. rxOwn'[FS_Rx_Desc]
    <3>1. 0 \in 0 .. Seg_Count - 1
      BY <1>1, <2>1
    <3>2. FS_Rx_Desc \in Released
      BY <2>3, <3>1 DEF Released
    <3> QED
      BY <1>3, <2>1, <3>2
  <2>5. SegInv' /\ LocInv' /\ WakeInv' /\ InOrder'
    BY <1>1, <1>3, <2>1, <2>4 DEF IInv, SegInv, LocInv, WakeInv, InOrder
  <2>6. ASSUME "pool" \notin faults PROVE RingInv'
    <3>1. Seg_Count = 1 /\ Base = FS_Rx_Desc /\ Base' = DMARxDescToGet
      BY <1>1, <2>6 DEF IInv, RingInv, Base
    <3>2. DMARxDescToGet = Plus(FS_Rx_Desc, 1)
      <4>1. CASE RxBufs = 1
        <5>1. RxDescs = {0}
          BY <4>1 DEF RxDescs
        <5> QED
          BY <2>1, <2>3, <4>1, <5>1
      <4>2. CASE 1 < RxBufs
        BY <3>1, <4>2 DEF IInv, SegInv
      <4> QED
        BY <4>1, <4>2
    <3>3. Released = {FS_Rx_Desc}
      <4>1. 0 .. 1 - 1 = {0}
        OBVIOUS
      <4> QED
        BY <2>3, <3>1, <4>1 DEF Released
    <3>4. PICK k \in 0 .. RxBufs, n \in Nat : Ring(k, n) /\ Out(n)
      BY <2>6 DEF IInv, RingInv
    <3>5. k > 0 /\ k - 1 \in 0 .. RxBufs - 1
      <4>1. ~rxOwn[FS_Rx_Desc]
        BY <1>1, <3>3, Owned DEF IInv
      <4> QED
        BY <3>1, <3>4, <4>1, RingEnds DEF IInv
    <3>6. \A i \in 0 .. RxBufs - 1 : Plus(DMARxDescToGet, i) = Plus(FS_Rx_Desc, i + 1)
      BY <2>1, <3>2, PlusNext
    <3>7. rxDma' = Plus(DMARxDescToGet, k - 1)
      <4>1. k - 1 + 1 = k
        OBVIOUS
      <4> QED
        BY <1>1, <3>1, <3>4, <3>5, <3>6, <4>1 DEF Ring
    <3>8. ASSUME NEW i \in 0 .. RxBufs - 1 PROVE rxOwn'[Plus(DMARxDescToGet, i)] <=> i >= k - 1
      <4>1. CASE i = RxBufs - 1
        <5>1. Plus(DMARxDescToGet, i) = FS_Rx_Desc
          <6>1. i + 1 = RxBufs
            BY <4>1
          <6> QED
            BY <2>3, <3>6, <6>1
        <5> QED
          BY <2>4, <4>1, <5>1
      <4>2. CASE i < RxBufs - 1
        <5>1. i + 1 \in 0 .. RxBufs - 1 /\ 0 \in 0 .. RxBufs - 1 /\ i + 1 # 0
          BY <4>2
        <5>2. Plus(FS_Rx_Desc, i + 1) \in RxDescs /\ Plus(FS_Rx_Desc, i + 1) # FS_Rx_Desc
          BY <2>1, <2>3, <5>1, PlusIn, PlusOne
        <5>3. rxOwn'[Plus(FS_Rx_Desc, i + 1)] <=> rxOwn[Plus(FS_Rx_Desc, i + 1)]
          BY <1>3, <3>3, <5>2
        <5>4. rxOwn[Plus(FS_Rx_Desc, i + 1)] <=> i + 1 >= k
          BY <3>1, <3>4, <5>1 DEF Ring
        <5> QED
          BY <3>6, <5>3, <5>4
      <4> QED
        BY <4>1, <4>2
    <3>9. ASSUME NEW i \in 0 .. (k - 1) - 1 PROVE slot'[Plus(DMARxDescToGet, i)] = (n + 1) + 1 + i
      <4>1. i \in 0 .. RxBufs - 1 /\ i + 1 \in 0 .. k - 1
        BY <3>5
      <4>2. slot[Plus(FS_Rx_Desc, i + 1)] = n + 1 + (i + 1)
        BY <3>1, <3>4, <4>1 DEF Ring
      <4> QED
        BY <1>1, <3>6, <4>1, <4>2
    <3>10. Ring(k - 1, n + 1)'
      <4>1. Len(arrived') = (n + 1) + (k - 1)
        BY <1>1, <3>4 DEF Ring
      <4> QED
        BY <3>1, <3>7, <3>8, <3>9, <4>1 DEF Ring
    <3>11. p' = n + 1
      <4>1. 0 \in 0 .. k - 1
        BY <3>5
      <4> QED
        BY <1>3, <2>3, <3>1, <3>4, <4>1 DEF Ring
    <3>12. Out(n + 1)'
      <4>1. \A m \in 1 .. n + 1 : m = n + 1 \/ (m \in 1 .. n /\ m # 0)
        OBVIOUS
      <4>2. \A i \in 1 .. Len(delivered) : delivered[i] \in Nat
        BY DEF IInv, RxTypeOK, Frames
      <4> QED
        BY <1>1, <3>4, <3>11, <4>1, <4>2 DEF Out
    <3>13. Seg_Count' = IF rxPc' = "alloc" THEN 1 ELSE 0
      BY <1>1, <1>3
    <3>14. k - 1 \in 0 .. RxBufs /\ n + 1 \in Nat
      BY <3>5
    <3> QED
      BY <3>10, <3>12, <3>13, <3>14 DEF RingInv
  <2>7. RingInv'
    BY <1>1, <2>6 DEF RingInv
  <2> QED
    BY <2>2, <2>5, <2>7 DEF IInv
<1> QED
  BY <1>2, <1>3 DEF CopyFrame

\* The end of low_level_input.
LEMMA ResumeStep == ASSUME IInv, Resume PROVE IInv'
<1>1. /\ rxPc = "resume" /\ rxPc' \in {"wait", "input"} /\ (rxPc' = "wait" <=> p = 0)
      /\ flags' = flags \ {"RBU"}
      /\ UNCHANGED <<faults, dmaVars, isr, s_xSemaphore, infos, p, delivered, refused>>
  BY DEF Resume, At
<1>2. RxTypeOK' /\ LocInv' /\ InOrder' /\ SegInv'
  BY <1>1 DEF IInv, RxTypeOK, LocInv, InOrder, SegInv, dmaVars, infos
<1>3. WakeInv'
  BY <1>1 DEF IInv, WakeInv, Wakes, dmaVars
<1>4. RingInv'
  BY <1>1 DEF IInv, RingInv, Ring, Out, Base, dmaVars, infos
<1> QED
  BY <1>2, <1>3, <1>4 DEF IInv

\* The frame goes up or is refused.
LEMMA InputStep == ASSUME IInv, Input PROVE IInv'
<1>1. /\ rxPc = "input" /\ p # 0 /\ p \in Frames /\ p' = 0
      /\ UNCHANGED <<faults, dmaVars, flags, isr, s_xSemaphore, infos>>
  BY DEF Input, At, IInv, LocInv, RxTypeOK
<1>2. CASE delivered' = Append(delivered, p) /\ rxPc' = "get" /\ UNCHANGED refused
  <2>1. /\ delivered' \in Seq(Frames) /\ Len(delivered') = Len(delivered) + 1
        /\ \A i \in 1 .. Len(delivered) : delivered'[i] = delivered[i]
        /\ delivered'[Len(delivered) + 1] = p /\ Len(delivered) \in Nat
    BY <1>1, <1>2, Appended DEF IInv, RxTypeOK
  <2>2. RxTypeOK' /\ LocInv' /\ WakeInv' /\ SegInv'
    BY <1>1, <1>2, <2>1 DEF IInv, RxTypeOK, LocInv, WakeInv, SegInv, dmaVars, infos, Frames
  <2>3. ASSUME "pool" \notin faults PROVE RingInv' /\ InOrder'
    <3>1. PICK k \in 0 .. RxBufs, n \in Nat : Ring(k, n) /\ Out(n)
      BY <2>3 DEF IInv, RingInv
    <3>2. Ring(k, n)'
      BY <1>1, <1>2, <3>1 DEF Ring, Base, dmaVars, infos
    <3>3. \A i \in 1 .. Len(delivered) + 1 : i \in 1 .. Len(delivered) \/ i = Len(delivered) + 1
      BY <2>1
    <3>4. \A i \in 1 .. Len(delivered) : delivered[i] < p /\ p = n
      BY <1>1, <3>1 DEF Out
    <3>5. Out(n)'
      <4>1. \A m \in 1 .. n : (\E i \in 1 .. Len(delivered') : m = delivered'[i]) \/ m \in refused
        <5>1. Len(delivered) + 1 \in 1 .. Len(delivered')
          BY <2>1
        <5>2. \A i \in 1 .. Len(delivered) : i \in 1 .. Len(delivered')
          BY <2>1
        <5> QED
          BY <2>1, <3>1, <5>1, <5>2 DEF Out
      <4>2. \A i \in 1 .. Len(delivered') : delivered'[i] <= n
        BY <1>1, <2>1, <3>1, <3>3 DEF Out
      <4> QED
        BY <1>1, <1>2, <4>1, <4>2 DEF Out
    <3>6. InOrder'
      <4> SUFFICES ASSUME NEW i \in 1 .. Len(delivered'), NEW j \in 1 .. Len(delivered'), i < j
                   PROVE  delivered'[i] < delivered'[j]
        BY DEF InOrder
      <4>1. i \in 1 .. Len(delivered)
        BY <2>1
      <4>2. CASE j = Len(delivered) + 1
        BY <2>1, <3>4, <4>1, <4>2
      <4>3. CASE j \in 1 .. Len(delivered)
        BY <2>1, <2>3, <4>1, <4>3 DEF IInv, InOrder
      <4> QED
        BY <2>1, <3>3, <4>2, <4>3
    <3> QED
      BY <1>1, <1>2, <2>3, <3>2, <3>5, <3>6 DEF IInv, RingInv, infos
  <2>4. RingInv' /\ InOrder'
    BY <1>1, <2>3 DEF RingInv, InOrder
  <2> QED
    BY <2>2, <2>4 DEF IInv
<1>3. CASE refused' = refused \cup {p} /\ rxPc' = "wait" /\ UNCHANGED delivered
  <2>1. RxTypeOK' /\ LocInv' /\ InOrder' /\ SegInv'
    <3>1. refused' \subseteq Frames /\ 0 \in Frames
      BY <1>1, <1>3 DEF IInv, RxTypeOK, Frames
    <3>2. RxTypeOK'
      BY <1>1, <1>3, <3>1 DEF IInv, RxTypeOK, dmaVars, infos
    <3> QED
      BY <1>1, <1>3, <3>2 DEF IInv, LocInv, InOrder, SegInv, dmaVars, infos
  <2>2. WakeInv'
    BY <1>1, <1>3 DEF IInv, WakeInv, Wakes, dmaVars
  <2>3. ASSUME "pool" \notin faults PROVE RingInv'
    <3>1. PICK k \in 0 .. RxBufs, n \in Nat : Ring(k, n) /\ Out(n)
      BY <2>3 DEF IInv, RingInv
    <3>2. Ring(k, n)'
      BY <1>1, <1>3, <3>1 DEF Ring, Base, dmaVars, infos
    <3>3. Out(n)'
      BY <1>1, <1>3, <3>1 DEF Out
    <3> QED
      BY <1>1, <1>3, <2>3, <3>2, <3>3 DEF IInv, RingInv, infos
  <2>4. RingInv'
    BY <1>1, <2>3 DEF RingInv
  <2> QED
    BY <2>1, <2>2, <2>4 DEF IInv
<1> QED
  BY <1>2, <1>3 DEF Input

\* Every step keeps RxInv.
LEMMA NextIInv == IInv /\ [RxNext]_rxVars => IInv'
<1> SUFFICES ASSUME IInv, [RxNext]_rxVars PROVE IInv'
  OBVIOUS
<1>1. CASE \E k \in Kinds : Arrive(k)
  BY <1>1, ArriveStep
<1>2. CASE Irq
  BY <1>2, IrqStep
<1>3. CASE Task
  BY <1>3, WaitStep, GetStep, CopyStep, ResumeStep, InputStep DEF Task
<1>4. CASE UNCHANGED rxVars
  BY <1>4 DEF rxVars, IInv, RxTypeOK, infos, dmaVars, SegInv, RingInv, Ring, Out, Base, LocInv, WakeInv,
     Wakes, InOrder
<1> QED
  BY <1>1, <1>2, <1>3, <1>4 DEF RxNext

\* For a ring of any size: the types, packets that go up in the order of their arrival
\* and none skipped while pbufs are there, a copy from descriptors of the processor
\* only, whatever failed before, and a wakeup for a full ring (ethernetif.c 313-442,
\* 487-533).
THEOREM ReceiveCorrect == RxSpec => []ReceiveInv
BY InitIInv, NextIInv, Implied, PTL DEF RxSpec

-----------------------------------------------------------------------------
(* The ARP table.                                                          *)

\* Of a set of entries with a set of others for each there is one whose set has no
\* other of those sets inside.
LEMMA MinimalOne ==
  ASSUME NEW I \in SUBSET Entries, I # {}, NEW D \in [I -> SUBSET Entries]
  PROVE  \E i \in I : \A j \in I : D[j] \subseteq D[i] => D[j] = D[i]
<1> DEFINE T == {D[i] : i \in I}
           R == StrictSubsetOrdering(Entries)
<1>1. IsFiniteSet(Entries)
  BY EtharpAssumption, FS_Interval DEF Entries
<1>2. IsWellFoundedOn(R, FiniteSubsetsOf(Entries))
  BY FS_StrictSubsetOrderingWellFounded
<1>3. T \subseteq FiniteSubsetsOf(Entries) /\ T # {}
  BY <1>1, FS_FiniteSubsetsOfFinite
<1>4. PICK x \in T : \A y \in T : <<y, x>> \notin R
  <2> HIDE DEF T, R
  <2> QED BY <1>2, <1>3, WFMin
<1>5. \A y \in T : y \subseteq x => y = x
  BY <1>4 DEF StrictSubsetOrdering
<1> QED
  BY <1>4, <1>5

\* A set of entries has a first one.
LEMMA FirstIn == ASSUME NEW I \in SUBSET Entries, I # {} PROVE First(I) \in I
<1> DEFINE D == [i \in I |-> 0..(i - 1)]
<1>1. D \in [I -> SUBSET Entries]
  BY EtharpAssumption DEF Entries
<1>2. PICK i \in I : \A j \in I : D[j] \subseteq D[i] => D[j] = D[i]
  <2> HIDE DEF D
  <2> QED BY <1>1, MinimalOne
<1>3. \A j \in I : i <= j
  <2> SUFFICES ASSUME NEW j \in I, j < i PROVE FALSE
    BY EtharpAssumption DEF Entries
  <2>1. D[j] = 0..(j - 1) /\ D[i] = 0..(i - 1) /\ i \in Nat /\ j \in Nat
    BY EtharpAssumption DEF Entries
  <2>2. D[j] \subseteq D[i] /\ j \in D[i] /\ j \notin D[j]
    BY <2>1
  <2> QED
    BY <1>2, <2>2
<1> QED
  BY <1>3 DEF First

\* A set of entries has an oldest one.
LEMMA OldestIn == ASSUME ArpTypeOK, NEW I \in SUBSET Entries, I # {} PROVE Oldest(I) \in I
<1> DEFINE Older(j, i) == \/ table[i].ctime < table[j].ctime
                          \/ table[i].ctime = table[j].ctime /\ i < j
           D == [i \in I |-> {j \in I : Older(j, i)}]
<1>1. \A i \in I : table[i].ctime \in Nat /\ i \in Nat
  BY EtharpAssumption DEF ArpTypeOK, Entries
<1>2. D \in [I -> SUBSET Entries]
  OBVIOUS
<1>3. PICK i \in I : \A j \in I : D[j] \subseteq D[i] => D[j] = D[i]
  <2> HIDE DEF D
  <2> QED BY <1>2, MinimalOne
<1>4. \A j \in I : ~Older(j, i)
  <2> SUFFICES ASSUME NEW j \in I, Older(j, i) PROVE FALSE
    OBVIOUS
  <2>1. \A k \in I : Older(k, j) => Older(k, i)
    BY <1>1
  <2>2. ~Older(j, j)
    BY <1>1
  <2>3. D[j] \subseteq D[i] /\ j \in D[i] /\ j \notin D[j]
    BY <2>1, <2>2
  <2> QED
    BY <1>3, <2>3
<1>5. \A j \in I : \/ table[j].ctime < table[i].ctime
                   \/ table[j].ctime = table[i].ctime /\ j <= i
  BY <1>1, <1>4
<1> QED
  BY <1>5 DEF Oldest

-----------------------------------------------------------------------------
\* An entry by its state: an empty one has nothing left of its last host, a complete
\* one has the address that its host last gave and no packet, and an address is asked
\* for in the state "rerequesting" only.
EntryOK(e) ==
  /\ e.st = "empty" => e = Empty
  /\ e.st # "empty" => e.ip \in Hosts
  /\ Stable(e) => e.mac = heard[e.ip] /\ e.mac # NoMac /\ ~e.q
  /\ e.st = "pending" => e.asked = 0 /\ ~e.used
  /\ e.st = "stable" => e.asked = 0 /\ (e.used => e.ctime < Rerequest)
  /\ e.st = "rerequesting" => e.asked = 1 /\ e.ctime >= Rerequest

EntriesOK == \A i \in Entries : EntryOK(table[i])

\* Two entries of one host are the same.
Unique ==
  \A i, j \in Entries :
    table[i].st # "empty" /\ table[j].st # "empty" /\ table[i].ip = table[j].ip => i = j

ArpIInv == ArpTypeOK /\ EntriesOK /\ Unique /\ held = Waiting(Entries) /\ RightAddress

\* What IInv says of the table and the last messages.
TableInv == ArpTypeOK /\ EntriesOK /\ Unique

Cell == [st : {"empty", "pending", "stable", "rerequesting"}, ip : Hosts \cup {NoHost},
         mac : Macs \cup {NoMac}, q : BOOLEAN, netif : BOOLEAN, ctime : 0..(MaxAge - 1),
         used : BOOLEAN, asked : 0..2]

\* Empty entries.
LEMMA EmptyCell == Empty \in Cell
<1>1. 0 \in 0..(MaxAge - 1)
  BY EtharpAssumption
<1> QED
  BY <1>1 DEF Cell, Empty

\* Entries as they are made for a host.
LEMMA NewCell ==
  ASSUME NEW h \in Hosts, NEW n, n = [Empty EXCEPT !.st = "pending", !.ip = h]
  PROVE  n \in Cell /\ n.st = "pending" /\ n.ip = h /\ n.asked = 0 /\ n.used = FALSE
<1>1. n \in Cell
  BY EmptyCell DEF Cell
<1> QED
  BY <1>1 DEF Empty

\* Entries as an ARP message makes them.
LEMMA LearnedCell ==
  ASSUME NEW h \in Hosts, NEW m \in Macs, NEW e
  PROVE  /\ Updated(e, h, m) \in Cell
         /\ Updated(e, h, m).st = "stable" /\ Updated(e, h, m).ip = h
         /\ Updated(e, h, m).mac = m /\ ~Updated(e, h, m).q
         /\ Updated(e, h, m).asked = 0 /\ ~Updated(e, h, m).used
BY EmptyCell DEF Cell, Empty, Updated

\* Entries as output changes them.
LEMMA ChangedCell ==
  ASSUME NEW e \in Cell, NEW u \in BOOLEAN, NEW a \in 0..2,
         NEW s \in {"empty", "pending", "stable", "rerequesting"}
  PROVE  [e EXCEPT !.used = u, !.asked = a, !.st = s] \in Cell
BY DEF Cell

\* Entries as the timer ages them.
LEMMA AgedCell ==
  ASSUME NEW e \in Cell, e.ctime + 1 \in 0..(MaxAge - 1)
  PROVE  LET n == [e EXCEPT !.ctime = @ + 1, !.used = FALSE, !.asked = 0,
                            !.st = IF @ = "rerequesting" THEN "stable" ELSE @]
         IN  /\ n \in Cell /\ n.ip = e.ip /\ n.mac = e.mac /\ n.q = e.q
             /\ n.used = FALSE /\ n.asked = 0
             /\ n.st = IF e.st = "rerequesting" THEN "stable" ELSE e.st
<1>1. ASSUME NEW c \in 0..(MaxAge - 1), NEW s \in {"empty", "pending", "stable", "rerequesting"}
      PROVE  [e EXCEPT !.ctime = c, !.used = FALSE, !.asked = 0, !.st = s] \in Cell
  <2>1. PICK z \in 0..2 : z = 0
    OBVIOUS
  <2>2. [e EXCEPT !.ctime = c, !.used = FALSE, !.asked = z, !.st = s] \in Cell
    BY DEF Cell
  <2> QED
    BY <2>1, <2>2, Zenon
<1>2. e.st \in {"empty", "pending", "stable", "rerequesting"}
  BY DEF Cell
<1> DEFINE s == IF e.st = "rerequesting" THEN "stable" ELSE e.st
<1>3. s \in {"empty", "pending", "stable", "rerequesting"}
  BY <1>2
<1>4. [e EXCEPT !.ctime = e.ctime + 1, !.used = FALSE, !.asked = 0, !.st = s] \in Cell
  <2> HIDE DEF s
  <2> QED BY <1>1, <1>3
<1> QED
  BY <1>4 DEF Cell

TableType == table \in [Entries -> Cell]

\* The invariant has the three checked ones inside.
LEMMA ArpImplied == ASSUME ArpIInv PROVE ArpInv /\ AskedOnce /\ RightAddress
<1>1. OneEntry
  <2> SUFFICES ASSUME NEW h \in Hosts PROVE Cardinality(Match(h)) <= 1
    BY DEF OneEntry
  <2>1. CASE Match(h) = {}
    BY <2>1, FS_EmptySet
  <2>2. CASE Match(h) # {}
    <3>1. PICK i \in Match(h) : TRUE
      BY <2>2
    <3>2. Match(h) = {i}
      BY <3>1 DEF Match, ArpIInv, Unique
    <3> QED
      BY <3>2, FS_Singleton
  <2> QED
    BY <2>1, <2>2
<1>2. Buffers
  BY DEF ArpIInv, Buffers, EntriesOK, EntryOK, Stable, ArpTypeOK, Empty
<1>3. AskedOnce
  <2> SUFFICES ASSUME NEW i \in Entries
               PROVE  /\ table[i].asked <= 1
                      /\ table[i].used /\ Stable(table[i]) /\ table[i].ctime >= Rerequest
                           => table[i].asked = 1
    BY DEF AskedOnce
  <2>1. EntryOK(table[i]) /\ table[i] \in Cell
    BY DEF ArpIInv, EntriesOK, ArpTypeOK, Cell
  <2>2. table[i].ctime \in Int /\ Rerequest \in Int
    BY <2>1, EtharpAssumption DEF Cell
  <2> QED
    BY <2>1, <2>2 DEF EntryOK, Stable, Empty, Cell
<1> QED
  BY <1>1, <1>2, <1>3 DEF ArpIInv, ArpInv

\* Initially the table is empty.
LEMMA InitArpIInv == ArpInit => ArpIInv
<1> SUFFICES ASSUME ArpInit PROVE ArpIInv
  OBVIOUS
<1>2. ArpTypeOK
  BY EmptyCell, EtharpAssumption DEF ArpInit, ArpTypeOK, Cell, Entries
<1>3. EntriesOK /\ Unique
  BY DEF ArpInit, EntriesOK, EntryOK, Unique, Empty, Stable
<1>4. {i \in Entries : table[i].q} = {}
  BY DEF ArpInit, Empty
<1> QED
  BY <1>2, <1>3, <1>4, FS_EmptySet DEF ArpIInv, ArpInit, Waiting, RightAddress

-----------------------------------------------------------------------------
\* A set of entries is finite.
LEMMA FiniteEntries ==
  ASSUME NEW S \in SUBSET Entries PROVE IsFiniteSet(S) /\ Cardinality(S) \in Nat
<1>1. IsFiniteSet(Entries)
  BY EtharpAssumption, FS_Interval DEF Entries
<1> QED
  BY <1>1, FS_Subset, FS_CardinalityType

\* Packets that wait: they are as many as references are held.
LEMMA Queue ==
  /\ IsFiniteSet({i \in Entries : table[i].q})
  /\ Waiting(Entries) = Cardinality({i \in Entries : table[i].q})
  /\ Waiting(Entries) \in Nat
BY FiniteEntries DEF Waiting

\* One entry has one packet at most.
LEMMA WaitingOne == ASSUME NEW i PROVE Waiting({i}) = IF table[i].q THEN 1 ELSE 0
<1>1. {j \in {i} : table[j].q} = IF table[i].q THEN {i} ELSE {}
  OBVIOUS
<1> QED
  BY <1>1, FS_Singleton, FS_EmptySet DEF Waiting

\* The entries gone are freed, and the others keep their packets.
LEMMA FreedCount ==
  ASSUME NEW gone \in SUBSET Entries,
         {i \in Entries : table'[i].q} = {i \in Entries : table[i].q} \ gone
  PROVE  Waiting(Entries)' = Waiting(Entries) - Waiting(gone)
<1> DEFINE Q == {i \in Entries : table[i].q}
<1>1. Q \cap gone = {i \in gone : table[i].q}
  OBVIOUS
<1>2. IsFiniteSet(Q) /\ Waiting(Entries) = Cardinality(Q)
  BY Queue
<1>3. Cardinality(Q \ gone) = Cardinality(Q) - Cardinality(Q \cap gone)
  <2> HIDE DEF Q
  <2> QED BY <1>2, FS_Difference
<1> QED
  BY <1>1, <1>2, <1>3 DEF Waiting

\* A packet is queued in the entry i.
LEMMA QueuedCount ==
  ASSUME NEW i \in Entries,
         {j \in Entries : table'[j].q} = {j \in Entries : table[j].q} \cup {i}
  PROVE  Waiting(Entries)' = Waiting(Entries) + 1 - Waiting({i})
<1> DEFINE Q == {j \in Entries : table[j].q}
<1>1. IsFiniteSet(Q) /\ Waiting(Entries) = Cardinality(Q) /\ Cardinality(Q) \in Nat
  BY Queue
<1>2. Cardinality(Q \cup {i}) = IF i \in Q THEN Cardinality(Q) ELSE Cardinality(Q) + 1
  <2> HIDE DEF Q
  <2> QED BY <1>1, FS_AddElement
<1>3. Waiting(Entries)' = Cardinality(Q \cup {i})
  BY DEF Waiting
<1>4. Waiting({i}) = IF i \in Q THEN 1 ELSE 0
  BY WaitingOne
<1> QED
  BY <1>1, <1>2, <1>3, <1>4

\* The other entries keep their packets.
LEMMA SameCount ==
  ASSUME {i \in Entries : table'[i].q} = {i \in Entries : table[i].q}
  PROVE  Waiting(Entries)' = Waiting(Entries)
BY DEF Waiting

-----------------------------------------------------------------------------
\* etharp_find_entry finds the entry of the host, which is the only one.
LEMMA FoundOne ==
  ASSUME TableInv, NEW h \in Hosts, NEW I \in SUBSET Match(h), I # {}
  PROVE  /\ First(I) \in Entries /\ table[First(I)].st # "empty"
         /\ table[First(I)].ip = h /\ First(I) \in I
         /\ \A j \in Entries : table[j].st # "empty" /\ table[j].ip = h => j = First(I)
<1>1. First(I) \in I
  BY FirstIn DEF Match
<1> QED
  BY <1>1 DEF Match, TableInv, Unique

\* It finds an entry for a host that has none.
LEMMA VictimIn == ASSUME ArpTypeOK PROVE Victim \in Entries
<1>1. Entries # {}
  BY EtharpAssumption DEF Entries
<1>2. Oldest(Entries) \in Entries
  BY <1>1, OldestIn
<1>3. \A I \in SUBSET Entries : I # {} => First(I) \in Entries /\ Oldest(I) \in Entries
  BY FirstIn, OldestIn
<1> QED
  BY <1>2, <1>3 DEF Victim

\* A step that writes one entry, which is right and the only one of its host, and at
\* most the address that this host last gave.
LEMMA OneWritten ==
  ASSUME TableInv, NEW i \in Entries, NEW e \in Cell, table' = [table EXCEPT ![i] = e],
         EntryOK(e)',
         \A j \in Entries : table[j].st # "empty" /\ j # i =>
            (e.st # "empty" => table[j].ip # e.ip) /\ heard'[table[j].ip] = heard[table[j].ip]
  PROVE  EntriesOK' /\ Unique' /\ TableType'
<1>1. \A j \in Entries : table'[j] = IF j = i THEN e ELSE table[j]
  BY DEF TableInv, ArpTypeOK
<1>2. ASSUME NEW j \in Entries PROVE EntryOK(table[j])'
  <2>1. CASE j = i
    BY <1>1, <2>1
  <2>2. CASE j # i
    <3>1. EntryOK(table[j]) /\ table'[j] = table[j]
      BY <1>1, <2>2 DEF TableInv, EntriesOK
    <3>2. table[j].st # "empty" => heard'[table[j].ip] = heard[table[j].ip]
      BY <2>2
    <3> QED
      BY <3>1, <3>2 DEF EntryOK, Stable, Empty
  <2> QED
    BY <2>1, <2>2
<1>3. Unique'
  BY <1>1 DEF Unique, TableInv
<1>4. TableType'
  BY DEF TableInv, ArpTypeOK, TableType, Cell
<1> QED
  BY <1>2, <1>3, <1>4 DEF EntriesOK

\* A query keeps one entry for each host, and counts the packet that it queues.
LEMMA QueryStep ==
  ASSUME ArpIInv, NEW h \in Hosts, NEW packet \in BOOLEAN, NEW copy \in BOOLEAN,
         Query(h, packet, copy)
  PROVE  ArpIInv'
<1> DEFINE found == Match(h)
           i == IF found # {} THEN First(found) ELSE Victim
           e == IF found # {} THEN table[i] ELSE [Empty EXCEPT !.st = "pending", !.ip = h]
           queued == packet /\ copy /\ e.st = "pending"
           new == IF queued THEN [e EXCEPT !.q = TRUE] ELSE e
<1>1. TableInv
  BY DEF ArpIInv, TableInv
<1>2. i \in Entries
  BY <1>1, FoundOne, VictimIn DEF TableInv
<1>3. e \in Cell /\ EntryOK(e) /\ e.st # "empty" /\ e.ip = h
  <2>1. CASE found # {}
    BY <2>1, <1>1, <1>2, FoundOne DEF TableInv, ArpTypeOK, Cell, EntriesOK
  <2>2. CASE found = {}
    <3> DEFINE n == [Empty EXCEPT !.st = "pending", !.ip = h]
    <3>1. e = n
      BY <2>2
    <3>2. n \in Cell /\ n.st = "pending" /\ n.ip = h /\ n.asked = 0 /\ n.used = FALSE
      BY NewCell
    <3>3. EntryOK(n)
      <4> HIDE DEF n
      <4> QED BY <3>2 DEF EntryOK, Stable
    <3> HIDE DEF e, n
    <3> QED
      BY <3>1, <3>2, <3>3
  <2> QED
    BY <2>1, <2>2
<1>4. new \in Cell /\ EntryOK(new) /\ new.st = e.st /\ new.ip = h /\ new.q = (queued \/ e.q)
  <2> HIDE DEF e
  <2> QED BY <1>3 DEF Cell, EntryOK, Stable
<1>5. /\ table' = [table EXCEPT ![i] = new]
      /\ held' = held + (IF queued THEN 1 ELSE 0)
                      - (IF queued \/ found = {} THEN Waiting({i}) ELSE 0)
      /\ frames' = {} /\ hint' = hint /\ heard' = heard
  BY DEF Query
<1>6. \A j \in Entries : table[j].st # "empty" /\ j # i => table[j].ip # h
  BY <1>1, FoundOne DEF Match
<1>8. EntriesOK' /\ Unique' /\ TableType'
  <2> HIDE DEF new, i
  <2>1. PICK n : n = new
    OBVIOUS
  <2>2. EntryOK(n)'
    BY <2>1, <1>4, <1>5 DEF EntryOK
  <2> QED BY <1>1, <1>2, <1>4, <1>5, <1>6, <2>1, <2>2, OneWritten
<1>9. held' = Waiting(Entries)'
  <2>1. \A j \in Entries : table'[j] = IF j = i THEN new ELSE table[j]
    <3> HIDE DEF new, i
    <3> QED BY <1>1, <1>5 DEF TableInv, ArpTypeOK
  <2>2. found # {} => e.q = table[i].q
    OBVIOUS
  <2>3. found = {} => ~e.q
    BY DEF Empty
  <2>4. held = Waiting(Entries) /\ held \in Nat /\ Waiting({i}) \in 0..1
    <3>1. Waiting({i}) = IF table[i].q THEN 1 ELSE 0
      <4> HIDE DEF i
      <4> QED BY WaitingOne
    <3> QED
      <4> HIDE DEF i
      <4> QED BY <3>1, Queue DEF ArpIInv
  <2>5. CASE queued
    <3>1. {j \in Entries : table'[j].q} = {j \in Entries : table[j].q} \cup {i}
      <4> HIDE DEF new, i
      <4> QED BY <2>1, <2>5, <1>2, <1>4
    <3> QED
      <4> HIDE DEF i, queued
      <4> QED BY <3>1, <1>2, <1>5, <2>4, <2>5, QueuedCount
  <2>6. CASE ~queued /\ found = {}
    <3>1. {j \in Entries : table'[j].q} = {j \in Entries : table[j].q} \ {i}
      <4> HIDE DEF new, i, e
      <4> QED BY <2>1, <2>3, <2>6, <1>2, <1>4
    <3> QED
      <4> HIDE DEF i, queued, found
      <4> QED BY <3>1, <1>2, <1>5, <2>4, <2>6, FreedCount
  <2>7. CASE ~queued /\ found # {}
    <3>1. {j \in Entries : table'[j].q} = {j \in Entries : table[j].q}
      <4> HIDE DEF new, i, e
      <4> QED BY <2>1, <2>2, <2>7, <1>2, <1>4
    <3> QED
      <4> HIDE DEF i, queued, found
      <4> QED BY <3>1, <1>5, <2>4, <2>7, SameCount
  <2> QED
    BY <2>5, <2>6, <2>7
<1>10. Waiting(Entries)' \in Nat
  BY FiniteEntries DEF Waiting
<1> QED
  BY <1>5, <1>8, <1>9, <1>10 DEF ArpIInv, ArpTypeOK, TableType, Cell, RightAddress

-----------------------------------------------------------------------------
\* A packet is sent to the entry's address; the entry is asked for once.
LEMMA SendStep ==
  ASSUME ArpIInv, NEW h \in Hosts, NEW i \in Entries, NEW sent \in BOOLEAN,
         Stable(table[i]), table[i].ip = h, SendTo(i, h, sent), hint' \in Entries
  PROVE  ArpIInv'
<1> DEFINE e == table[i]
           again == AsksAgain(e) /\ sent
           new == [e EXCEPT !.used = @ \/ sent,
                            !.asked = IF again /\ e.asked < 2 THEN @ + 1 ELSE @,
                            !.st = IF again THEN "rerequesting" ELSE @]
<1>1. TableInv
  BY DEF ArpIInv, TableInv
<1>2. e \in Cell /\ EntryOK(e)
  BY DEF ArpIInv, ArpTypeOK, Cell, EntriesOK
<1>3. /\ table' = [table EXCEPT ![i] = new] /\ frames' = {[ip |-> h, mac |-> e.mac]}
      /\ held' = held /\ heard' = heard
  BY DEF SendTo
<1>4. /\ e.asked \in 0..2 /\ e.ctime \in Int /\ Rerequest \in Int /\ e.q = FALSE
      /\ e.st \in {"stable", "rerequesting"} /\ e.mac \in Macs /\ e.mac = heard[h]
      /\ e.used \in BOOLEAN
  BY <1>2, EtharpAssumption DEF Cell, EntryOK, Stable
<1>5. /\ new.used = (e.used \/ sent) /\ new.ip = h /\ new.mac = e.mac /\ new.q = e.q
      /\ new.ctime = e.ctime
      /\ new.asked = IF again /\ e.asked < 2 THEN e.asked + 1 ELSE e.asked
      /\ new.st = IF again THEN "rerequesting" ELSE e.st
  BY <1>2 DEF Cell
<1>6. new \in Cell
  <2> DEFINE a == IF again /\ e.asked < 2 THEN e.asked + 1 ELSE e.asked
             s == IF again THEN "rerequesting" ELSE e.st
  <2>1. a \in 0..2 /\ s \in {"stable", "rerequesting"} /\ (e.used \/ sent) \in BOOLEAN
    BY <1>4
  <2>2. new = [e EXCEPT !.used = e.used \/ sent, !.asked = a, !.st = s]
    OBVIOUS
  <2> HIDE DEF new, e, a, s
  <2> QED BY <1>2, <2>1, <2>2, ChangedCell
<1>7. EntryOK(new)
  <2> HIDE DEF new
  <2>1. CASE again
    <3>1. e.st = "stable" /\ e.ctime >= Rerequest /\ e.asked = 0
      BY <2>1, <1>2 DEF AsksAgain, EntryOK
    <3> QED
      BY <2>1, <3>1, <1>4, <1>5, EtharpAssumption DEF EntryOK, Stable
  <2>2. CASE ~again /\ e.st = "rerequesting"
    BY <2>2, <1>2, <1>4, <1>5, EtharpAssumption DEF EntryOK, Stable
  <2>3. CASE ~again /\ e.st = "stable"
    <3>1. new.used => e.ctime < Rerequest
      BY <2>3, <1>2, <1>4, <1>5 DEF AsksAgain, EntryOK
    <3> QED
      BY <2>3, <3>1, <1>2, <1>4, <1>5, EtharpAssumption DEF EntryOK, Stable
  <2> QED
    BY <2>1, <2>2, <2>3, <1>4
<1>8. EntriesOK' /\ Unique' /\ TableType'
  <2> HIDE DEF new
  <2>1. PICK n : n = new
    OBVIOUS
  <2>2. EntryOK(n)'
    BY <2>1, <1>7, <1>3 DEF EntryOK
  <2>3. \A j \in Entries : table[j].st # "empty" /\ j # i => table[j].ip # h
    BY <1>1, <1>4 DEF TableInv, Unique
  <2>4. TableInv /\ i \in Entries /\ n \in Cell /\ table' = [table EXCEPT ![i] = n]
    BY <1>1, <1>3, <1>6, <2>1
  <2>5. \A j \in Entries : table[j].st # "empty" /\ j # i =>
            (n.st # "empty" => table[j].ip # n.ip) /\ heard'[table[j].ip] = heard[table[j].ip]
    BY <1>3, <1>5, <2>1, <2>3
  <2> QED
    BY <2>2, <2>4, <2>5, OneWritten
<1>9. Waiting(Entries)' = Waiting(Entries)
  <2>1. \A j \in Entries : table'[j] = IF j = i THEN new ELSE table[j]
    <3> HIDE DEF new
    <3> QED BY <1>1, <1>3 DEF TableInv, ArpTypeOK
  <2>2. {j \in Entries : table'[j].q} = {j \in Entries : table[j].q}
    <3> HIDE DEF new
    <3> QED BY <2>1, <1>5
  <2> QED
    BY <2>2, SameCount
<1>10. RightAddress' /\ frames' \subseteq [ip : Hosts, mac : Macs]
  BY <1>3, <1>4 DEF RightAddress
<1> QED
  BY <1>3, <1>8, <1>9, <1>10 DEF ArpIInv, ArpTypeOK, TableType, Cell

\* etharp_output finds the entry by the hint or in the table.
LEMMA OutputStep == ASSUME ArpIInv, NEW h \in Hosts, Output(h) PROVE ArpIInv'
<1> DEFINE stable == {i \in Entries : Stable(table[i]) /\ table[i].ip = h}
<1>1. TableInv /\ hint \in Entries
  BY DEF ArpIInv, TableInv, ArpTypeOK
<1>2. PICK ok \in BOOLEAN :
        IF Hit(h) THEN SendTo(hint, h, ok) /\ UNCHANGED hint
        ELSE IF stable # {} THEN SendTo(First(stable), h, ok) /\ hint' = First(stable)
        ELSE Query(h, TRUE, ok)
  BY DEF Output
<1>3. CASE Hit(h)
  BY <1>1, <1>2, <1>3, SendStep DEF Hit
<1>4. CASE ~Hit(h) /\ stable # {}
  <2>1. First(stable) \in stable
    <3>1. stable \in SUBSET Entries
      OBVIOUS
    <3> HIDE DEF stable
    <3> QED BY <3>1, <1>4, FirstIn
  <2>2. SendTo(First(stable), h, ok) /\ hint' = First(stable)
    BY <1>2, <1>4
  <2>3. PICK i \in stable : i = First(stable)
    BY <2>1
  <2>4. SendTo(i, h, ok) /\ hint' = i
    BY <2>2, <2>3
  <2> QED
    BY <2>3, <2>4, SendStep
<1>5. CASE ~Hit(h) /\ stable = {}
  BY <1>2, <1>5, QueryStep
<1> QED
  BY <1>3, <1>4, <1>5

\* An ARP message completes the entry of its host, and the packet that waits is sent.
LEMMA ArpInputStep ==
  ASSUME ArpIInv, NEW h \in Hosts, NEW m \in Macs, NEW forUs \in BOOLEAN,
         ArpInput(h, m, forUs)
  PROVE  ArpIInv'
<1> DEFINE found == Match(h)
           i == IF found # {} THEN First(found) ELSE Victim
           new == Updated(table[i], h, m)
<1>1. TableInv /\ m # NoMac
  BY EtharpAssumption DEF ArpIInv, TableInv
<1>2. /\ heard' = [heard EXCEPT ![h] = m] /\ heard \in [Hosts -> Macs \cup {NoMac}]
      /\ hint' = hint /\ hint \in Entries
  BY DEF ArpInput, ArpIInv, ArpTypeOK
<1>3. CASE found = {} /\ ~forUs
  <2>1. frames' = {} /\ table' = table /\ held' = held
    BY <1>3 DEF ArpInput
  <2>2. \A j \in Entries : table[j].st # "empty" => table[j].ip # h
    BY <1>3 DEF Match
  <2>3. ASSUME NEW j \in Entries PROVE EntryOK(table[j])'
    <3>1. EntryOK(table[j]) /\ (table[j].st # "empty" => heard'[table[j].ip] = heard[table[j].ip])
      BY <1>1, <1>2, <2>2 DEF TableInv, EntriesOK, EntryOK
    <3> QED
      BY <2>1, <3>1 DEF EntryOK, Stable, Empty
  <2>4. Waiting(Entries)' = Waiting(Entries)
    BY <2>1 DEF Waiting
  <2> QED
    BY <1>2, <2>1, <2>3, <2>4 DEF ArpIInv, ArpTypeOK, Unique, EntriesOK, RightAddress
<1>4. CASE ~(found = {} /\ ~forUs)
  <2>1. /\ table' = [table EXCEPT ![i] = new] /\ held' = held - Waiting({i})
        /\ frames' = IF found # {} /\ table[i].q THEN {[ip |-> h, mac |-> m]} ELSE {}
    BY <1>4 DEF ArpInput
  <2>2. i \in Entries
    BY <1>1, FoundOne, VictimIn DEF TableInv
  <2>4. new \in Cell /\ new.st = "stable" /\ new.ip = h /\ new.mac = m /\ ~new.q
        /\ new.asked = 0 /\ ~new.used
    <3> HIDE DEF i
    <3>1. PICK e : e = table[i]
      OBVIOUS
    <3> QED
      BY <3>1, LearnedCell
  <2>5. \A j \in Entries : table[j].st # "empty" /\ j # i =>
          table[j].ip # h /\ heard'[table[j].ip] = heard[table[j].ip]
    <3>1. \A j \in Entries : table[j].st # "empty" /\ j # i => table[j].ip # h
      BY <1>1, FoundOne DEF Match
    <3>2. \A j \in Entries : table[j].st # "empty" => table[j].ip \in Hosts
      BY <1>1 DEF TableInv, EntriesOK, EntryOK
    <3> QED
      BY <3>1, <3>2, <1>2
  <2>6. PICK n : n = new
    OBVIOUS
  <2> HIDE DEF new, i
  <2>7. EntryOK(n)'
    BY <2>4, <2>6, <1>1, <1>2 DEF EntryOK, Stable
  <2>8. EntriesOK' /\ Unique' /\ TableType'
    BY <1>1, <2>1, <2>2, <2>4, <2>5, <2>6, <2>7, OneWritten
  <2>9. held' = Waiting(Entries)'
    <3>1. \A j \in Entries : table'[j] = IF j = i THEN new ELSE table[j]
      BY <1>1, <2>1 DEF TableInv, ArpTypeOK
    <3>2. {j \in Entries : table'[j].q} = {j \in Entries : table[j].q} \ {i}
      BY <3>1, <2>2, <2>4
    <3> QED
      BY <3>2, <2>1, <2>2, FreedCount DEF ArpIInv
  <2>10. Waiting(Entries)' \in Nat
    BY FiniteEntries DEF Waiting
  <2>11. RightAddress' /\ frames' \subseteq [ip : Hosts, mac : Macs]
    BY <1>2, <2>1 DEF RightAddress
  <2>12. heard' \in [Hosts -> Macs \cup {NoMac}]
    BY <1>2
  <2> QED
    BY <1>2, <2>8, <2>9, <2>10, <2>11, <2>12 DEF ArpIInv, ArpTypeOK, TableType, Cell
<1> QED
  BY <1>3, <1>4

-----------------------------------------------------------------------------
\* A step that frees the entries gone and leaves each of the others with its host,
\* address and packet.
LEMMA Removed ==
  ASSUME ArpIInv, NEW gone \in SUBSET Entries, table' \in [Entries -> Cell],
         \A j \in gone : table'[j] = Empty,
         \A j \in Entries \ gone : /\ table'[j].ip = table[j].ip /\ table'[j].q = table[j].q
                                   /\ table'[j].st = "empty" <=> table[j].st = "empty"
                                   /\ EntryOK(table[j])',
         held' = held - Waiting(gone), frames' = {}, UNCHANGED <<hint, heard>>
  PROVE  ArpIInv'
<1>1. ASSUME NEW j \in gone PROVE EntryOK(table[j])'
  <2>1. Empty.st = "empty"
    BY DEF Empty
  <2> QED
    BY <2>1 DEF EntryOK, Stable
<1>2. EntriesOK'
  BY <1>1 DEF EntriesOK
<1>3. \A j \in Entries : table'[j].st # "empty" =>
         /\ table[j].st # "empty" /\ table'[j].ip = table[j].ip
  BY DEF Empty
<1>4. Unique'
  BY <1>3 DEF Unique, ArpIInv
<1>5. {j \in Entries : table'[j].q} = {j \in Entries : table[j].q} \ gone
  BY DEF Empty
<1>6. held' = Waiting(Entries)'
  BY <1>5, FreedCount DEF ArpIInv
<1>7. Waiting(Entries)' \in Nat
  BY FiniteEntries DEF Waiting
<1> QED
  BY <1>2, <1>4, <1>6, <1>7 DEF ArpIInv, ArpTypeOK, Cell, RightAddress

\* Every entry grows older or expires.
LEMMA TimerStep == ASSUME ArpIInv, Timer PROVE ArpIInv'
<1> DEFINE gone == {j \in Entries : Expires(table[j])}
<1>1. table' = [j \in Entries |-> Aged(table[j])]
  BY DEF Timer
<1>2. \A j \in Entries : table[j] \in Cell /\ EntryOK(table[j])
  BY DEF ArpIInv, ArpTypeOK, Cell, EntriesOK
<1>3. MaxAge \in Nat
  BY EtharpAssumption
<1>4. Empty \in Cell
  BY EmptyCell
<1>5. \A j \in gone : table'[j] = Empty
  BY <1>1 DEF Aged
<1>6. ASSUME NEW j \in Entries \ gone
      PROVE  /\ table'[j] \in Cell
             /\ table'[j].ip = table[j].ip /\ table'[j].q = table[j].q
             /\ table'[j].st = "empty" <=> table[j].st = "empty"
             /\ EntryOK(table[j])'
  <2> DEFINE e == table[j]
             new == [e EXCEPT !.ctime = @ + 1, !.used = FALSE, !.asked = 0,
                              !.st = IF @ = "rerequesting" THEN "stable" ELSE @]
  <2>1. e \in Cell /\ EntryOK(e) /\ heard' = heard
    BY <1>2 DEF Timer
  <2>2. CASE e.st = "empty"
    <3>1. table'[j] = Empty /\ e = Empty
      BY <1>1, <2>1, <2>2 DEF Aged, EntryOK
    <3> QED
      BY <3>1, <1>4 DEF EntryOK, Empty, Stable
  <2>3. CASE e.st # "empty"
    <3>1. table'[j] = new
      BY <1>1, <2>3 DEF Aged
    <3>2. e.ctime + 1 \in 0..(MaxAge - 1)
      BY <2>1, <2>3, <1>3 DEF Expires, Cell
    <3>3. /\ new \in Cell /\ new.ip = e.ip /\ new.mac = e.mac /\ new.q = e.q
          /\ new.used = FALSE /\ new.asked = 0
          /\ new.st = IF e.st = "rerequesting" THEN "stable" ELSE e.st
      BY <2>1, <3>2, AgedCell
    <3> HIDE DEF new
    <3>4. EntryOK(table[j])'
      BY <2>1, <2>3, <3>1, <3>3 DEF EntryOK, Stable
    <3> QED
      BY <2>3, <3>1, <3>3, <3>4
  <2> QED
    BY <2>2, <2>3
<1>7. table' \in [Entries -> Cell]
  BY <1>1, <1>4, <1>5, <1>6
<1>8. held' = held - Waiting(gone) /\ frames' = {} /\ UNCHANGED <<hint, heard>>
  BY DEF Timer
<1>9. gone \in SUBSET Entries
  OBVIOUS
<1> HIDE DEF gone
<1> QED
  BY <1>5, <1>6, <1>7, <1>8, <1>9, Removed

\* The entries of the interface are freed.
LEMMA CleanupStep == ASSUME ArpIInv, CleanupNetif PROVE ArpIInv'
<1> DEFINE gone == {j \in Entries : table[j].netif}
<1>1. /\ table' = [j \in Entries |-> IF j \in gone THEN Empty ELSE table[j]]
      /\ held' = held - Waiting(gone) /\ frames' = {} /\ UNCHANGED <<hint, heard>>
  BY DEF CleanupNetif
<1>2. \A j \in Entries : table[j] \in Cell /\ EntryOK(table[j])
  BY DEF ArpIInv, ArpTypeOK, Cell, EntriesOK
<1>4. Empty \in Cell
  BY EmptyCell
<1>5. gone \in SUBSET Entries
  OBVIOUS
<1> HIDE DEF gone
<1>6. table' \in [Entries -> Cell]
  BY <1>1, <1>2, <1>4
<1>7. \A j \in gone : table'[j] = Empty
  BY <1>1, <1>5
<1>8. \A j \in Entries \ gone : table'[j] = table[j] /\ EntryOK(table[j])'
  BY <1>1, <1>2 DEF EntryOK
<1> QED
  BY <1>1, <1>5, <1>6, <1>7, <1>8, Removed

\* Every step keeps IInv.
LEMMA NextArpIInv == ArpIInv /\ [ArpNext]_arpVars => ArpIInv'
<1> SUFFICES ASSUME ArpIInv, [ArpNext]_arpVars PROVE ArpIInv'
  OBVIOUS
<1>1. CASE \E h \in Hosts : Output(h) \/ DhcpCheck(h)
  BY <1>1, OutputStep, QueryStep DEF DhcpCheck
<1>2. CASE \E h \in Hosts, m \in Macs, forUs \in BOOLEAN : ArpInput(h, m, forUs)
  BY <1>2, ArpInputStep
<1>3. CASE Timer
  BY <1>3, TimerStep
<1>4. CASE CleanupNetif
  BY <1>4, CleanupStep
<1>5. CASE UNCHANGED arpVars
  BY <1>5 DEF arpVars, ArpIInv, ArpTypeOK, EntriesOK, EntryOK, Stable, Unique, Waiting, RightAddress, Empty
<1> QED
  BY <1>1, <1>2, <1>3, <1>4, <1>5 DEF ArpNext

\* The table, for any size of it: its types, one entry for each host at most, and as
\* many references held as packets wait, in pending entries (etharp.c 293-404, 689-838,
\* 1019-1158).
THEOREM TableCorrect == ArpSpec => []ArpInv
BY InitArpIInv, NextArpIInv, ArpImplied, PTL DEF ArpSpec

\* An entry near its end is asked for once between two runs of the timer, however
\* often it is used (etharp.c 843-860, 207-244).
THEOREM AskedOnceHolds == ArpSpec => []AskedOnce
BY InitArpIInv, NextArpIInv, ArpImplied, PTL DEF ArpSpec

\* A packet goes to the address that its own next hop last gave, found by the hint, in
\* the table or at the end of its wait (etharp.c 880-984, 449-516).
THEOREM RightAddressHolds == ArpSpec => []RightAddress
BY InitArpIInv, NextArpIInv, ArpImplied, PTL DEF ArpSpec

=============================================================================
