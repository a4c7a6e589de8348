------------------------------- MODULE EthTx -------------------------------
(***************************************************************************)
(* low_level_output of arch/FreeRTOS/ethernetif.c: the transmit path of    *)
(* the driver. tcpip_thread, the DHCP task and the task that starts the    *)
(* network all call it, so it guards the DMA descriptors with a binary     *)
(* semaphore that its first caller creates.                                *)
(*                                                                         *)
(* ETH_TX_BUF_SIZE is ETH_MAX_PACKET_SIZE (config/eth_conf.h), so a frame  *)
(* fits one descriptor: a frame is a chain of pbufs that are copied, one   *)
(* step each, to the buffer of one descriptor. Frames are numbered.        *)
(***************************************************************************)
EXTENDS Naturals

CONSTANTS
  Tasks,      \* the tasks that call low_level_output
  N,          \* ETH_TXBUFNB, the number of descriptors
  MaxPbufs,   \* bound: the longest chain
  MaxFrames   \* bound: calls of low_level_output

ASSUME NAssumption == N \in Nat \ {0}
ASSUME BoundsAssumption == MaxPbufs \in Nat /\ MaxFrames \in Nat

VARIABLES
  created,       \* whether a call had created the semaphore when we start
  xTxSemaphore,  \* the handle: NULL or the number of a semaphore
  sems,          \* number of semaphores created so far
  count,         \* count[s], 0 or 1
  pc,            \* where each task is in low_level_output
  handle,        \* the semaphore on which a task sleeps
  frame,         \* the frame (number, length of the chain) of the call
  copied,        \* how many of its pbufs are copied
  desc,          \* DmaTxDesc of the call
  DMATxDescToSet,\* the descriptor that the next frame takes
  own,           \* own[d]: descriptor d belongs to the DMA
  buffer,        \* buffer[d]: for each offset the frame copied there
  size,          \* size[d]: the frame length written to descriptor d
  dma,           \* the descriptor that the DMA reads next
  calls          \* calls so far

taskVars == <<pc, handle, frame, copied, desc>>
semVars  == <<xTxSemaphore, sems, count>>
ringVars == <<DMATxDescToSet, own, buffer, size, dma>>
vars == <<created, taskVars, semVars, ringVars, calls>>

NULL == 0
Descs == 0 .. N - 1
Next1(d) == IF d + 1 = N THEN 0 ELSE d + 1
Sems == 1 .. 2 * MaxFrames + 1
Frame == [id : 0 .. MaxFrames, len : 0 .. MaxPbufs]
Guarded == {"copy", "prepare", "give"}
Locs == {"idle", "create", "createNamed", "giveNew", "take", "sleep"} \cup Guarded

Init ==
  /\ created \in BOOLEAN
  /\ sems = IF created THEN 1 ELSE 0
  /\ xTxSemaphore = IF created THEN 1 ELSE NULL
  /\ count = [s \in Sems |-> IF created /\ s = 1 THEN 1 ELSE 0]
  /\ pc = [t \in Tasks |-> "idle"]
  /\ handle = [t \in Tasks |-> NULL]
  /\ frame = [t \in Tasks |-> [id |-> 0, len |-> 0]]
  /\ copied = [t \in Tasks |-> 0]
  /\ desc = [t \in Tasks |-> 0]
  /\ DMATxDescToSet = 0 /\ dma = 0
  /\ own = [d \in Descs |-> FALSE]
  /\ buffer = [d \in Descs |-> [i \in 1 .. MaxPbufs |-> 0]]
  /\ size = [d \in Descs |-> 0]
  /\ calls = 0

-----------------------------------------------------------------------------
Goto(t, loc) == pc' = [pc EXCEPT ![t] = loc]

(* A call with a chain of n pbufs; the first tests of the handle.          *)
Call(t, n) ==
  /\ pc[t] = "idle" /\ calls < MaxFrames
  /\ calls' = calls + 1
  /\ frame' = [frame EXCEPT ![t] = [id |-> calls + 1, len |-> n]]
  /\ copied' = [copied EXCEPT ![t] = 0]
  /\ Goto(t, IF xTxSemaphore = NULL THEN "create" ELSE "take")
  /\ UNCHANGED <<created, handle, desc, semVars, ringVars>>

(* vSemaphoreCreateBinary(xTxSemaphore): a new semaphore, given.           *)
Create(t) ==
  /\ pc[t] = "create"
  /\ sems' = sems + 1
  /\ xTxSemaphore' = sems + 1
  /\ count' = [count EXCEPT ![sems + 1] = 1]
  /\ Goto(t, "createNamed")
  /\ UNCHANGED <<handle, frame, copied, desc, ringVars, calls>>

(* The second semaphore replaces the first; it is created empty.           *)
CreateNamed(t) ==
  /\ pc[t] = "createNamed"
  /\ sems' = sems + 1
  /\ xTxSemaphore' = sems + 1
  /\ Goto(t, "giveNew")
  /\ UNCHANGED <<count, handle, frame, copied, desc, ringVars, calls>>

GiveNew(t) ==
  /\ pc[t] = "giveNew"
  /\ count' = [count EXCEPT ![xTxSemaphore] = 1]
  /\ Goto(t, "take")
  /\ UNCHANGED <<xTxSemaphore, sems, handle, frame, copied, desc, ringVars, calls>>

(* xSemaphoreTake: the handle is read once, by the call.                   *)
Take(t) ==
  /\ pc[t] = "take"
  /\ handle' = [handle EXCEPT ![t] = xTxSemaphore]
  /\ Goto(t, "sleep")
  /\ UNCHANGED <<frame, copied, desc, semVars, ringVars, calls>>

Taken(t) ==
  /\ pc[t] = "sleep" /\ count[handle[t]] = 1
  /\ count' = [count EXCEPT ![handle[t]] = 0]
  /\ desc' = [desc EXCEPT ![t] = DMATxDescToSet]
  /\ Goto(t, "copy")
  /\ UNCHANGED <<xTxSemaphore, sems, handle, frame, copied, ringVars, calls>>

(* Mutant: the result of xSemaphoreTake is not looked at.                  *)
TakeTimeoutProceeds(t) ==
  /\ pc[t] = "sleep" /\ count[handle[t]] = 0
  /\ desc' = [desc EXCEPT ![t] = DMATxDescToSet]
  /\ Goto(t, "copy")
  /\ UNCHANGED <<handle, frame, copied, semVars, ringVars, calls>>

(* netifGUARD_BLOCK_TIME has passed: the call returns ERR_OK.              *)
TakeTimeout(t) ==
  /\ pc[t] = "sleep" /\ count[handle[t]] = 0
  /\ Goto(t, "idle")
  /\ UNCHANGED <<handle, frame, copied, desc, semVars, ringVars, calls>>

(* The copy of one pbuf behind the others.                                 *)
CopyPbuf(t) ==
  /\ buffer' = [buffer EXCEPT ![desc[t]][copied[t] + 1] = frame[t].id]
  /\ copied' = [copied EXCEPT ![t] = @ + 1]
  /\ Goto(t, IF copied[t] + 1 = frame[t].len THEN "prepare" ELSE "copy")

(* Mutants of Copy: the error path returns without giving the semaphore;   *)
(* the OWN bit is not tested; the loop waits for the descriptor.           *)
CopyReturns(t) ==
  /\ pc[t] = "copy" /\ copied[t] < frame[t].len
  /\ \/ own[desc[t]] /\ Goto(t, "idle") /\ UNCHANGED <<copied, buffer>>
     \/ ~own[desc[t]] /\ CopyPbuf(t)
  /\ UNCHANGED <<handle, frame, desc, semVars, DMATxDescToSet, own, size, dma, calls>>

CopyUnchecked(t) ==
  /\ pc[t] = "copy" /\ copied[t] < frame[t].len
  /\ CopyPbuf(t)
  /\ UNCHANGED <<handle, frame, desc, semVars, DMATxDescToSet, own, size, dma, calls>>

CopyWaits(t) ==
  /\ pc[t] = "copy" /\ copied[t] < frame[t].len
  /\ ~own[desc[t]] /\ CopyPbuf(t)
  /\ UNCHANGED <<handle, frame, desc, semVars, DMATxDescToSet, own, size, dma, calls>>

(* One turn of the loop over the chain. A descriptor of the DMA means      *)
(* "goto error": the frame is dropped.                                     *)
Copy(t) ==
  /\ pc[t] = "copy" /\ copied[t] < frame[t].len
  /\ \/ /\ own[desc[t]]
        /\ Goto(t, "give")
        /\ UNCHANGED <<copied, buffer>>
     \/ ~own[desc[t]] /\ CopyPbuf(t)
  /\ UNCHANGED <<handle, frame, desc, semVars, DMATxDescToSet, own, size, dma, calls>>

(* ETH_Prepare_Transmit_Descriptors: the descriptor is handed to the DMA,  *)
(* unless the DMA has it.                                                  *)
Prepare(t) ==
  /\ pc[t] = "prepare"
  /\ \/ /\ own[DMATxDescToSet]
        /\ UNCHANGED ringVars
     \/ /\ ~own[DMATxDescToSet]
        /\ own' = [own EXCEPT ![DMATxDescToSet] = TRUE]
        /\ size' = [size EXCEPT ![DMATxDescToSet] = frame[t].len]
        /\ DMATxDescToSet' = Next1(DMATxDescToSet)
        /\ UNCHANGED <<buffer, dma>>
  /\ Goto(t, "give")
  /\ UNCHANGED <<handle, frame, copied, desc, semVars, calls>>

Give(t) ==
  /\ pc[t] = "give"
  /\ count' = [count EXCEPT ![xTxSemaphore] = 1]
  /\ Goto(t, "idle")
  /\ UNCHANGED <<xTxSemaphore, sems, handle, frame, copied, desc, ringVars, calls>>

(* The DMA sends the frame of its descriptor and gives the descriptor back.*)
Dma ==
  /\ own[dma]
  /\ own' = [own EXCEPT ![dma] = FALSE]
  /\ dma' = Next1(dma)
  /\ UNCHANGED <<created, taskVars, semVars, DMATxDescToSet, buffer, size, calls>>

Step(t) ==
  /\ UNCHANGED created
  /\ \/ Create(t) \/ CreateNamed(t) \/ GiveNew(t)
     \/ Take(t) \/ Taken(t) \/ TakeTimeout(t)
     \/ Copy(t) \/ Prepare(t) \/ Give(t)

Next ==
  \/ \E t \in Tasks : Step(t) \/ (\E n \in 1 .. MaxPbufs : Call(t, n))
  \/ Dma

Spec == Init /\ [][Next]_vars

(* Each task in a call is scheduled, and the tick counts the block time.   *)
FairSpec == Spec /\ \A t \in Tasks : WF_vars(Step(t))

-----------------------------------------------------------------------------
TypeOK ==
  /\ created \in BOOLEAN
  /\ sems \in Nat /\ xTxSemaphore \in Nat
  /\ count \in [Sems -> 0 .. 1]
  /\ pc \in [Tasks -> Locs]
  /\ handle \in [Tasks -> Nat]
  /\ frame \in [Tasks -> Frame]
  /\ copied \in [Tasks -> 0 .. MaxPbufs]
  /\ desc \in [Tasks -> Descs]
  /\ DMATxDescToSet \in Descs /\ dma \in Descs
  /\ own \in [Descs -> BOOLEAN]
  /\ buffer \in [Descs -> [1 .. MaxPbufs -> 0 .. MaxFrames]]
  /\ size \in [Descs -> 0 .. MaxPbufs]
  /\ calls \in 0 .. MaxFrames

(* Once the semaphore is there, one task at a time uses the descriptors    *)
(* (ethernetif.c 220-299).                                                 *)
Exclusive == created =>
  \A t, u \in Tasks : (pc[t] \in Guarded /\ pc[u] \in Guarded) => t = u

(* However the first calls race, the semaphore is not lost: when no call   *)
(* creates it, holds it or is about to give it, it can be taken            *)
(* (ethernetif.c 213-218, 299).                                            *)
NotLost ==
  (xTxSemaphore # NULL /\ \A t \in Tasks : pc[t] \in {"idle", "take", "sleep"})
     => count[xTxSemaphore] = 1

(* What a descriptor of the DMA holds is one frame, all of it: no pbuf of  *)
(* another task's frame is mixed in (ethernetif.c 250-294).                *)
WholeFrames == created =>
  \A d \in Descs : own[d] =>
    size[d] > 0 /\ \A i \in 1 .. size[d] : buffer[d][i] = buffer[d][1]

(* A buffer that the DMA reads is not written (ethernetif.c 252-256).      *)
NoOverwrite == [][created =>
  \A d \in Descs : (own[d] /\ own'[d]) => (buffer'[d] = buffer[d] /\ size'[d] = size[d])]_vars

(* A call of low_level_output returns, whatever the DMA does: it sleeps    *)
(* only for netifGUARD_BLOCK_TIME (ethernetif.c 220).                      *)
CallsReturn == \A t \in Tasks : (pc[t] # "idle") ~> (pc[t] = "idle")
=============================================================================
