------------------------------- MODULE EthRx -------------------------------
(***************************************************************************)
(* The receive path of arch/FreeRTOS/ethernetif.c: the DMA ring, the       *)
(* interrupt handler ETH_IRQ_Handler, the task ethernetif_input and        *)
(* low_level_input.                                                        *)
(*                                                                         *)
(* ETH_RX_BUF_SIZE is ETH_MAX_PACKET_SIZE (config/eth_conf.h): a frame     *)
(* fits one descriptor. Frames are numbered in the order of arrival;       *)
(* Kind says which are IP or ARP. The DMA and                              *)
(* ETH_Get_Received_Frame_interrupt, which counts the segments since the   *)
(* last frame that was taken in Seg_Count, belong to the STM32 library.    *)
(* What EthTx names too begins with rx or Rx here.                         *)
(***************************************************************************)
EXTENDS Naturals, Sequences

CONSTANTS
  RxBufs,      \* ETH_RXBUFNB
  MaxArrivals  \* bound: the frames that arrive

ASSUME RxBufsAssumption == RxBufs \in Nat \ {0}
ASSUME ArrivalsAssumption == MaxArrivals \in Nat

VARIABLES
  faults,       \* what may happen in this run: "pool", pbuf_alloc fails;
                \* "input", netif->input refuses; "type", not IP nor ARP
  arrived,      \* the kinds of the frames so far
  rxOwn,        \* rxOwn[d]: descriptor d belongs to the DMA
  slot,         \* the frame in the buffer of descriptor d, 0 if none
  rxDma,        \* the descriptor that the DMA fills next
  flags,        \* the pending bits of ETH->DMASR: "R", "NIS", "AIS", "RBU"
  isr,          \* "out", or "clear" between the give and the clears
  s_xSemaphore, \* the count of the binary semaphore
  rxPc,         \* where ethernetif_input is
  DMARxDescToGet,
  Seg_Count, FS_Rx_Desc,  \* DMA_RX_FRAME_infos
  p,            \* the frame in the pbuf, 0 for NULL
  delivered,    \* the frames that netif->input accepted
  refused       \* the frames freed: of another type, or refused by input

dmaVars == <<arrived, rxOwn, slot, rxDma>>
infos == <<DMARxDescToGet, Seg_Count, FS_Rx_Desc>>
rxVars == <<faults, dmaVars, flags, isr, s_xSemaphore, rxPc, infos, p, delivered, refused>>

RxDescs == 0 .. RxBufs - 1
Plus(d, k) == (d + k) % RxBufs

Kinds == {"ip", "other"}

RxInit ==
  /\ faults \in SUBSET {"pool", "input", "type"}
  /\ arrived = <<>>
  /\ rxOwn = [d \in RxDescs |-> TRUE]
  /\ slot = [d \in RxDescs |-> 0]
  /\ rxDma = 0
  /\ flags = {}
  /\ isr = "out"
  /\ s_xSemaphore = 0
  /\ rxPc = "wait"
  /\ DMARxDescToGet = 0 /\ Seg_Count = 0 /\ FS_Rx_Desc = 0
  /\ p = 0
  /\ delivered = <<>>
  /\ refused = {}

-----------------------------------------------------------------------------
(* The DMA stores a frame, or loses it when no descriptor is free.         *)
Arrive(k) ==
  /\ Len(arrived) < MaxArrivals
  /\ k = "other" => "type" \in faults
  /\ \/ /\ rxOwn[rxDma]
        /\ arrived' = Append(arrived, k)
        /\ rxOwn' = [rxOwn EXCEPT ![rxDma] = FALSE]
        /\ slot' = [slot EXCEPT ![rxDma] = Len(arrived')]
        /\ rxDma' = Plus(rxDma, 1)
        /\ flags' = flags \cup {"R", "NIS"}
     \/ /\ ~rxOwn[rxDma]
        /\ flags' = flags \cup {"RBU", "AIS"}
        /\ UNCHANGED dmaVars
  /\ UNCHANGED <<faults, isr, s_xSemaphore, rxPc, infos, p, delivered, refused>>

(* Mutant: an error clears every pending bit.                              *)
IrqDropsR ==
  /\ isr = "out" /\ ("AIS" \in flags \/ {"R", "NIS"} \subseteq flags)
  /\ IF "AIS" \in flags
     THEN flags' = {} /\ UNCHANGED <<s_xSemaphore, isr>>
     ELSE s_xSemaphore' = 1 /\ isr' = "clear" /\ UNCHANGED flags
  /\ UNCHANGED <<faults, dmaVars, rxPc, infos, p, delivered, refused>>

(* ETH_IRQ_Handler up to the give: the error bits are cleared first.       *)
IrqGive ==
  /\ isr = "out" /\ ("AIS" \in flags \/ {"R", "NIS"} \subseteq flags)
  /\ flags' = IF "AIS" \in flags THEN flags \ {"AIS", "RBU"} ELSE flags
  /\ IF {"R", "NIS"} \subseteq flags
     THEN s_xSemaphore' = 1 /\ isr' = "clear"
     ELSE UNCHANGED <<s_xSemaphore, isr>>
  /\ UNCHANGED <<faults, dmaVars, rxPc, infos, p, delivered, refused>>

IrqClear ==
  /\ isr = "clear"
  /\ flags' = flags \ {"R", "NIS"}
  /\ isr' = "out"
  /\ UNCHANGED <<faults, dmaVars, s_xSemaphore, rxPc, infos, p, delivered, refused>>

-----------------------------------------------------------------------------
(* The task runs when the handler does not.                                *)
At(loc) == isr = "out" /\ rxPc = loc

Wait ==
  /\ At("wait") /\ s_xSemaphore = 1
  /\ s_xSemaphore' = 0
  /\ rxPc' = "get"
  /\ UNCHANGED <<faults, dmaVars, flags, isr, infos, p, delivered, refused>>

(* ETH_Get_Received_Frame_interrupt: length 0 if the DMA has the           *)
(* descriptor; otherwise one more segment, and the frame starts at the     *)
(* first of them.                                                          *)
Get ==
  /\ At("get")
  /\ \/ /\ rxOwn[DMARxDescToGet]
        /\ p' = 0
        /\ rxPc' = "resume"
        /\ UNCHANGED infos
     \/ /\ ~rxOwn[DMARxDescToGet]
        /\ Seg_Count' = Seg_Count + 1
        /\ FS_Rx_Desc' = IF Seg_Count = 0 THEN DMARxDescToGet ELSE FS_Rx_Desc
        /\ DMARxDescToGet' = Plus(DMARxDescToGet, 1)
        /\ rxPc' = "alloc"
        /\ UNCHANGED p
  /\ UNCHANGED <<faults, dmaVars, flags, isr, s_xSemaphore, delivered, refused>>

(* The descriptors FS_Rx_Desc .. + Seg_Count - 1 go back to the DMA.       *)
Released == {Plus(FS_Rx_Desc, i) : i \in 0 .. Seg_Count - 1}

(* pbuf_alloc, the copy, and the release of the descriptors. Without a     *)
(* pbuf nothing is released.                                               *)
CopyFrame ==
  /\ At("alloc")
  /\ \/ /\ p' = slot[FS_Rx_Desc]
        /\ rxOwn' = [d \in RxDescs |-> rxOwn[d] \/ d \in Released]
        /\ Seg_Count' = 0
     \/ /\ "pool" \in faults
        /\ p' = 0
        /\ UNCHANGED <<rxOwn, Seg_Count>>
  /\ rxPc' = "resume"
  /\ UNCHANGED <<faults, arrived, slot, rxDma, flags, isr, s_xSemaphore, DMARxDescToGet, FS_Rx_Desc,
                 delivered, refused>>

(* The end of low_level_input: clear RBUS; then the type of the packet.    *)
Resume ==
  /\ At("resume")
  /\ flags' = flags \ {"RBU"}
  /\ rxPc' = IF p = 0 THEN "wait" ELSE "input"
  /\ UNCHANGED <<faults, dmaVars, isr, s_xSemaphore, infos, p, delivered, refused>>

(* Mutant: one frame for each wakeup.                                      *)
InputOnce ==
  /\ At("input")
  /\ delivered' = Append(delivered, p)
  /\ rxPc' = "wait"
  /\ p' = 0
  /\ UNCHANGED <<faults, dmaVars, flags, isr, s_xSemaphore, infos, refused>>

(* netif->input, or pbuf_free; only a success looks for a further frame.   *)
Input ==
  /\ At("input")
  /\ \/ /\ arrived[p] = "ip"
        /\ delivered' = Append(delivered, p)
        /\ rxPc' = "get"
        /\ UNCHANGED refused
     \/ /\ arrived[p] = "ip" => "input" \in faults
        /\ refused' = refused \cup {p}
        /\ rxPc' = "wait"
        /\ UNCHANGED delivered
  /\ p' = 0
  /\ UNCHANGED <<faults, dmaVars, flags, isr, s_xSemaphore, infos>>

Task == Wait \/ Get \/ CopyFrame \/ Resume \/ Input
Irq == IrqGive \/ IrqClear

RxNext == (\E k \in Kinds : Arrive(k)) \/ Irq \/ Task

RxSpec == RxInit /\ [][RxNext]_rxVars
RxFairSpec == RxSpec /\ WF_rxVars(Irq) /\ WF_rxVars(Task)

-----------------------------------------------------------------------------
Frames == 0 .. MaxArrivals
RxTypeOK ==
  /\ faults \subseteq {"pool", "input", "type"}
  /\ arrived \in Seq(Kinds) /\ Len(arrived) \in Frames
  /\ rxOwn \in [RxDescs -> BOOLEAN]
  /\ slot \in [RxDescs -> Frames]
  /\ {rxDma, DMARxDescToGet, FS_Rx_Desc} \subseteq RxDescs
  /\ flags \subseteq {"R", "NIS", "AIS", "RBU"}
  /\ isr \in {"out", "clear"}
  /\ s_xSemaphore \in 0 .. 1
  /\ rxPc \in {"wait", "get", "alloc", "resume", "input"}
  /\ Seg_Count \in Nat
  /\ p \in Frames
  /\ delivered \in Seq(Frames)
  /\ refused \subseteq Frames

(* Something will wake the task: the semaphore, or an interrupt that gives *)
(* it.                                                                     *)
Wakes == s_xSemaphore = 1 \/ isr = "clear" \/ {"R", "NIS"} \subseteq flags

(* As long as pbufs are there, packets go up in the order of their         *)
(* arrival, none twice, whatever the interrupt and the DMA do in between   *)
(* (ethernetif.c 313-391, 403-442).                                        *)
InOrder == "pool" \notin faults =>
  \A i, j \in 1 .. Len(delivered) : i < j => delivered[i] < delivered[j]

(* As long as pbufs are there, no descriptor goes back to the DMA before   *)
(* its frame was taken out (ethernetif.c 367-378).                         *)
NothingSkipped == "pool" \notin faults =>
  \A n \in 1 .. Len(arrived) :
    \/ n \in {delivered[i] : i \in DOMAIN delivered} \cup refused \cup {p}
    \/ \E d \in RxDescs : ~rxOwn[d] /\ slot[d] = n

(* A full ring has a wakeup pending, in particular between the give and    *)
(* the clearing of the flags: frames of other types and refused packets    *)
(* leave frames in the ring, but do not stop the reception (ethernetif.c   *)
(* 513-525, 409-442).                                                      *)
RingFull == rxPc = "wait" /\ \A d \in RxDescs : ~rxOwn[d]
FullRingWakes == ("pool" \notin faults /\ RingFull) => Wakes

(* What ethernetif.c 382 says, "When Rx Buffer unavailable flag is set:    *)
(* clear it and resume reception": without a free descriptor the task      *)
(* that does this still runs.                                              *)
ReceptionResumes == RingFull => Wakes

(* The copy does not read a buffer that the DMA may write, even after      *)
(* failures of pbuf_alloc left descriptors behind (ethernetif.c 338-378).  *)
CopyOwned == rxPc = "alloc" => \A d \in Released : ~rxOwn[d]

(* Types, the two ends of the life of a frame in the ring, the order in    *)
(* between, and the wakeup.                                                *)
ReceiveInv == RxTypeOK /\ NothingSkipped /\ CopyOwned /\ InOrder /\ FullRingWakes

(* With IP traffic, pbufs and no refusal each frame in the ring reaches    *)
(* netif->input: no wakeup is lost (403-442, 513-525).                     *)
Served == \A n \in 1 .. MaxArrivals :
  (faults = {} /\ n <= Len(arrived)) ~> (n \in {delivered[i] : i \in DOMAIN delivered})
=============================================================================
