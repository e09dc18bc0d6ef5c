------------------------------- MODULE TxRing -------------------------------
(***************************************************************************)
(* The transmit descriptor ring of SimpleRTK5Ethernet.cpp: outputStart()   *)
(* fills it on the output thread of the network interface, the NIC sends   *)
(* what it finds, and txInterrupt() reclaims it on whatever thread holds   *)
(* the __POLLING bit.  The three run concurrently and share the ring, its  *)
(* indices and the atomic counter of free descriptors.                     *)
(*                                                                         *)
(* One step of this module is one step of a thread between two accesses    *)
(* to shared state: the reservation (OSAddAtomic), the publication of the  *)
(* new index, each descriptor filled, each descriptor reclaimed.           *)
(*                                                                         *)
(* The 32-bit txTailPtr0 and txClosePtr0 are kept modulo TxPtrMod: every   *)
(* use the code makes of them masks the rest away (MaxTxDescPtrMask).      *)
(***************************************************************************)
EXTENDS Integers, Sequences

CONSTANTS
  kNumTxDesc,             (* descriptors in the ring                        *)
  kMaxSegs,               (* descriptors one packet may need                *)
  kMinFreeDescs,          (* outputStart stops at this many free            *)
  kTxQueueWakeTreshhold,  (* txInterrupt wakes the output thread above this *)
  TxPtrMod,               (* MaxTxDescPtrMask + 1 of the chip               *)
  UIntMod,                (* 2^32, the width of the indices' difference     *)
  Packets,                (* the mbufs the stack may hand over              *)
  NoMbuf,                 (* the NULL mbuf_t                                *)
  LinkFlaps               (* may LinkChg report "up" while the link is up?  *)

ASSUME TxRingAssumption ==
  /\ kNumTxDesc \in Nat \ {0}
  /\ kMaxSegs \in Nat \ {0}
  /\ kMinFreeDescs = kMaxSegs + 2
  /\ kMinFreeDescs < kNumTxDesc
  /\ kTxQueueWakeTreshhold \in kMinFreeDescs .. kNumTxDesc - 1
  /\ TxPtrMod \in Nat /\ kNumTxDesc <= TxPtrMod
  /\ UIntMod \in Nat /\ TxPtrMod + kNumTxDesc <= UIntMod
  /\ NoMbuf \notin Packets
  /\ LinkFlaps \in BOOLEAN

Slots == 0 .. kNumTxDesc - 1

VARIABLES
  txNumFreeDesc,     (* free descriptors, updated atomically                *)
  txNextDescIndex,   (* next descriptor outputStart will use                *)
  txDirtyDescIndex,  (* next descriptor txInterrupt will reclaim            *)
  txTailPtr0,        (* descriptors handed over, modulo TxPtrMod            *)
  txClosePtr0,       (* descriptors reclaimed or about to be, same modulus  *)
  descOwn,           (* the DescOwn bit of txDescArray                      *)
  txBufArray,        (* the mbuf recorded for each descriptor               *)
  mbufs,             (* packets that belong to the driver                   *)
  nicIndex,          (* next descriptor the NIC looks at                    *)
  hwClosePtr,        (* the NIC's close pointer register                    *)
  nicPolling,        (* the NIC was told, by TPPOLL, to look at the ring    *)
  linkUp,            (* __LINK_UP, and the output thread is started         *)
  outPc,             (* where outputStart is                                *)
  outPkt,            (* its m                                               *)
  outSegs,           (* its numSegs                                         *)
  outDone,           (* its i, the descriptors filled so far                *)
  outIndex,          (* its index                                           *)
  stalled,           (* outputStart last returned kIOReturnNoResources      *)
  signalled,         (* signalOutputThread was called since it last started *)
  rclPc,             (* where txInterrupt is                                *)
  rclLeft,           (* its n                                               *)
  rclMoved           (* oldDirtyIndex # txDirtyDescIndex                    *)

ringVars == <<txNumFreeDesc, txNextDescIndex, txDirtyDescIndex,
              txTailPtr0, txClosePtr0>>
nicVars  == <<nicIndex, hwClosePtr, nicPolling>>
outVars  == <<outPc, outPkt, outSegs, outDone, outIndex, stalled>>
rclVars  == <<rclPc, rclLeft, rclMoved>>
vars     == <<ringVars, descOwn, txBufArray, mbufs, nicVars, linkUp,
              outVars, signalled, rclVars>>

-----------------------------------------------------------------------------
WrapLate(x, m) == IF x > m THEN x - m ELSE IF x < 0 THEN x + m ELSE x
(* x modulo m, for an x at most one period away: what "& mask" does. *)
Wrap(x, m) == IF x >= m THEN x - m ELSE IF x < 0 THEN x + m ELSE x

(* How far ring position j lies ahead of position i. *)
Ahead(j, i) == Wrap(j - i, kNumTxDesc)

(* txNextDescIndex - txDirtyDescIndex, computed without a mask in a UInt32. *)
UnmaskedInFlight == Wrap(txNextDescIndex - txDirtyDescIndex, UIntMod)

(* Descriptors in use, from the reservation to the reclaim. *)
InFlight == Ahead(txNextDescIndex, txDirtyDescIndex)
Reserved == IF outPc = "publish" THEN outSegs ELSE 0

(* The ring from the dirty index on, and the mbufs of its first n entries. *)
RingOrder ==
  [k \in 1 .. kNumTxDesc |->
     txBufArray[Wrap(txDirtyDescIndex + k - 1, kNumTxDesc)]]
MbufsIn(m, n) ==
  LET first[k \in 0 .. n] ==
        IF k = 0 THEN <<>>
        ELSE IF m[k] = NoMbuf THEN first[k - 1] ELSE Append(first[k - 1], m[k])
  IN  first[n]

(* The packets the ring holds, and how many of them the NIC has sent.      *)
RingQueue == MbufsIn(RingOrder, InFlight)
RingSent  == Len(MbufsIn(RingOrder, Ahead(nicIndex, txDirtyDescIndex)))

Init ==
  /\ txNumFreeDesc = kNumTxDesc
  /\ txNextDescIndex = 0 /\ txDirtyDescIndex = 0
  /\ txTailPtr0 = 0 /\ txClosePtr0 = 0
  /\ descOwn = [s \in Slots |-> FALSE]
  /\ txBufArray = [s \in Slots |-> NoMbuf]
  /\ mbufs = {}
  /\ nicIndex = 0 /\ hwClosePtr = 0 /\ nicPolling = FALSE
  /\ linkUp = FALSE
  /\ outPc = "idle" /\ outPkt = NoMbuf /\ outSegs = 0 /\ outDone = 0
  /\ outIndex = 0 /\ stalled = FALSE /\ signalled = FALSE
  /\ rclPc = "idle" /\ rclLeft = 0 /\ rclMoved = FALSE

-----------------------------------------------------------------------------
(* outputStart(), on the output thread.                                    *)

(* The interface calls outputStart unless it is stalled and nobody         *)
(* signalled it; the flags are tested once, on entry.                      *)
OutputStart ==
  /\ outPc = "idle" /\ linkUp
  /\ stalled => signalled
  /\ outPc' = "loop"
  /\ stalled' = FALSE /\ signalled' = FALSE
  /\ UNCHANGED <<ringVars, descOwn, txBufArray, mbufs, nicVars, linkUp,
                 outPkt, outSegs, outDone, outIndex, rclVars>>

(* The loop goes on while a packet of kMaxSegs descriptors fits. *)
RoomForPacket == txNumFreeDesc > kMinFreeDescs

(* The while condition and dequeueOutputPackets. *)
Dequeue(p) ==
  /\ outPc = "loop" /\ RoomForPacket
  /\ p \notin mbufs
  /\ outPc' = "map" /\ outPkt' = p
  /\ mbufs' = mbufs \cup {p}
  /\ UNCHANGED <<ringVars, descOwn, txBufArray, nicVars, linkUp, outSegs,
                 outDone, outIndex, stalled, signalled, rclVars>>

(* mbuf_get_tso_requested or the physical mapping fails: drop the packet.  *)
DropPacket ==
  /\ outPc = "map"
  /\ outPc' = "loop" /\ outPkt' = NoMbuf
  /\ mbufs' = mbufs \ {outPkt}
  /\ UNCHANGED <<ringVars, descOwn, txBufArray, nicVars, linkUp, outSegs,
                 outDone, outIndex, stalled, signalled, rclVars>>

(* OSAddAtomic(-numSegs, &txNumFreeDesc). *)
Reserve(numSegs) ==
  /\ outPc = "map"
  /\ txNumFreeDesc' = txNumFreeDesc - numSegs
  /\ outPc' = "publish" /\ outSegs' = numSegs
  /\ UNCHANGED <<txNextDescIndex, txDirtyDescIndex, txTailPtr0, txClosePtr0,
                 descOwn, txBufArray, mbufs, nicVars, linkUp, outPkt, outDone,
                 outIndex, stalled, signalled, rclVars>>

(* The new index is visible to txInterrupt before a descriptor is filled.  *)
Publish ==
  /\ outPc = "publish"
  /\ outIndex' = txNextDescIndex
  /\ txNextDescIndex' = Wrap(txNextDescIndex + outSegs, kNumTxDesc)
  /\ txTailPtr0' = Wrap(txTailPtr0 + outSegs, TxPtrMod)
  /\ outPc' = "fill" /\ outDone' = 0
  /\ UNCHANGED <<txNumFreeDesc, txDirtyDescIndex, txClosePtr0, descOwn,
                 txBufArray, mbufs, nicVars, linkUp, outPkt, outSegs, stalled,
                 signalled, rclVars>>

MbufAtEachDesc(last) == outPkt
(* The mbuf is recorded at the packet's last descriptor only. *)
MbufAt(last) == IF last THEN outPkt ELSE NoMbuf

(* Fill one descriptor: its buffer entry first, DescOwn last. *)
FillDesc ==
  /\ outPc = "fill"
  /\ LET last == outDone + 1 = outSegs IN
       /\ txBufArray' = [txBufArray EXCEPT ![outIndex] = MbufAt(last)]
       /\ outPkt' = IF last THEN NoMbuf ELSE outPkt
       /\ outPc' = IF last THEN "loop" ELSE "fill"
       /\ outSegs' = IF last THEN 0 ELSE outSegs
       /\ outDone' = IF last THEN 0 ELSE outDone + 1
  /\ descOwn' = [descOwn EXCEPT ![outIndex] = TRUE]
  /\ outIndex' = Wrap(outIndex + 1, kNumTxDesc)
  /\ UNCHANGED <<ringVars, mbufs, nicVars, linkUp, stalled, signalled, rclVars>>

NoKick == nicPolling' = nicPolling
(* What the build compiles after the loop: with ENABLE_TX_NO_CLOSE defined *)
(* the #ifndef leaves the write of TPPOLL and drops rtl812xDoorbell().     *)
KickNic == nicPolling' = TRUE

(* The loop ends: too few free descriptors, or nothing to dequeue. *)
LeaveLoop ==
  /\ outPc = "loop"
  /\ outPc' = "result"
  /\ KickNic
  /\ UNCHANGED <<ringVars, descOwn, txBufArray, mbufs, nicIndex, hwClosePtr,
                 linkUp, outPkt, outSegs, outDone, outIndex, stalled,
                 signalled, rclVars>>

(* The result is decided by a second look at the counter. *)
OutputReturn ==
  /\ outPc = "result"
  /\ outPc' = "idle"
  /\ stalled' = ~RoomForPacket
  /\ UNCHANGED <<ringVars, descOwn, txBufArray, mbufs, nicVars, linkUp, outPkt,
                 outSegs, outDone, outIndex, signalled, rclVars>>

OutputThread ==
  \/ OutputStart \/ DropPacket \/ Publish \/ FillDesc \/ LeaveLoop
  \/ OutputReturn
  \/ \E p \in Packets : Dequeue(p)
  \/ \E numSegs \in 1 .. kMaxSegs : Reserve(numSegs)

-----------------------------------------------------------------------------
(* The NIC (external): told to poll, it sends the descriptors it owns in   *)
(* ring order and counts each in its close pointer; it stops at the first  *)
(* it does not own.  A descriptor it has sent is not sent again until the  *)
(* driver fills it again.                                                  *)
NicSend ==
  /\ nicPolling /\ descOwn[nicIndex]
  /\ descOwn' = [descOwn EXCEPT ![nicIndex] = FALSE]
  /\ nicIndex' = Wrap(nicIndex + 1, kNumTxDesc)
  /\ hwClosePtr' = Wrap(hwClosePtr + 1, TxPtrMod)
  /\ UNCHANGED <<ringVars, txBufArray, mbufs, nicPolling, linkUp,
                 outVars, signalled, rclVars>>

NicStop ==
  /\ nicPolling /\ ~descOwn[nicIndex]
  /\ nicPolling' = FALSE
  /\ UNCHANGED <<ringVars, descOwn, txBufArray, mbufs, nicIndex, hwClosePtr,
                 linkUp, outVars, signalled, rclVars>>

Nic == NicSend \/ NicStop

-----------------------------------------------------------------------------
(* txInterrupt(), on the thread that holds __POLLING.                      *)

NumPublished == UnmaskedInFlight
(* Descriptors to reclaim, from the close pointer register. *)
NumDone ==
  LET n == Wrap(hwClosePtr - txClosePtr0, TxPtrMod)
  IN  IF UnmaskedInFlight < n THEN UnmaskedInFlight ELSE n

TxInterrupt ==
  /\ rclPc = "idle"
  /\ rclPc' = "reclaim" /\ rclLeft' = NumDone /\ rclMoved' = FALSE
  /\ txClosePtr0' = Wrap(txClosePtr0 + NumDone, TxPtrMod)
  /\ UNCHANGED <<txNumFreeDesc, txNextDescIndex, txDirtyDescIndex, txTailPtr0,
                 descOwn, txBufArray, mbufs, nicVars, linkUp, outVars,
                 signalled>>

(* The body of the while loop: free the mbuf, return the descriptor. *)
Reclaim ==
  /\ rclPc = "reclaim" /\ rclLeft > 0
  /\ rclLeft' = rclLeft - 1 /\ rclMoved' = TRUE
  /\ mbufs' = mbufs \ {txBufArray[txDirtyDescIndex]}
  /\ txBufArray' = [txBufArray EXCEPT ![txDirtyDescIndex] = NoMbuf]
  /\ txNumFreeDesc' = txNumFreeDesc + 1
  /\ txDirtyDescIndex' = Wrap(txDirtyDescIndex + 1, kNumTxDesc)
  /\ UNCHANGED <<txNextDescIndex, txTailPtr0, txClosePtr0, descOwn, nicVars,
                 linkUp, outVars, signalled, rclPc>>

WakeReversed == rclMoved /\ txNumFreeDesc < kTxQueueWakeTreshhold
(* When signalOutputThread is called. *)
WakeOutput == rclMoved /\ txNumFreeDesc > kTxQueueWakeTreshhold

ReclaimDone ==
  /\ rclPc = "reclaim" /\ rclLeft = 0
  /\ rclPc' = "idle" /\ rclMoved' = FALSE /\ rclLeft' = 0
  /\ signalled' = (signalled \/ WakeOutput)
  /\ UNCHANGED <<ringVars, descOwn, txBufArray, mbufs, nicVars, linkUp, outVars>>

Reclaimer == TxInterrupt \/ Reclaim \/ ReclaimDone

-----------------------------------------------------------------------------
(* Link changes, on the work loop, with no txInterrupt in progress.        *)

ResetAllButClose ==
  /\ txNumFreeDesc' = kNumTxDesc
  /\ txNextDescIndex' = 0 /\ txDirtyDescIndex' = 0
  /\ txTailPtr0' = 0 /\ txClosePtr0' = txClosePtr0
ResetIndices ==
  /\ txNumFreeDesc' = kNumTxDesc
  /\ txNextDescIndex' = 0 /\ txDirtyDescIndex' = 0
  /\ txTailPtr0' = 0 /\ txClosePtr0' = 0

NicReset ==
  /\ nicIndex' = 0 /\ hwClosePtr' = 0 /\ nicPolling' = FALSE

(* setLinkDown(): stopOutputThread waits for outputStart to return; the    *)
(* chip is reset and clearRxTxRings() empties the ring.  Every other way   *)
(* to stop (restart, disable, medium, MTU) goes through these calls too.   *)
SetLinkDown ==
  /\ linkUp /\ outPc = "idle" /\ rclPc = "idle"
  /\ linkUp' = FALSE
  /\ NicReset /\ ResetIndices
  /\ descOwn' = [s \in Slots |-> FALSE]
  /\ mbufs' = mbufs \ {txBufArray[s] : s \in Slots}
  /\ txBufArray' = [s \in Slots |-> NoMbuf]
  /\ UNCHANGED <<outVars, signalled, rclVars>>

(* rtl812xCheckLinkStatus() finds the link up: rtl812xHwConfig() resets    *)
(* the chip and the indices, setLinkUp() starts the output thread.  The    *)
(* code does not ask whether the link was up already.                      *)
SetLinkUp ==
  /\ ~linkUp \/ LinkFlaps
  /\ rclPc = "idle"
  /\ linkUp' = TRUE
  /\ NicReset /\ ResetIndices
  /\ stalled' = FALSE /\ signalled' = FALSE
  /\ UNCHANGED <<descOwn, txBufArray, mbufs, outPc, outPkt, outSegs, outDone,
                 outIndex, rclVars>>

Next == OutputThread \/ Nic \/ Reclaimer \/ SetLinkDown \/ SetLinkUp

Spec == Init /\ [][Next]_vars

-----------------------------------------------------------------------------
(* Safety.                                                                 *)

TypeOK ==
  /\ txNumFreeDesc \in 0 .. kNumTxDesc
  /\ txNextDescIndex \in Slots /\ txDirtyDescIndex \in Slots
  /\ txTailPtr0 \in 0 .. TxPtrMod - 1 /\ txClosePtr0 \in 0 .. TxPtrMod - 1
  /\ descOwn \in [Slots -> BOOLEAN]
  /\ txBufArray \in [Slots -> Packets \cup {NoMbuf}]
  /\ mbufs \in SUBSET Packets
  /\ nicIndex \in Slots
  /\ hwClosePtr \in 0 .. TxPtrMod - 1
  /\ nicPolling \in BOOLEAN /\ linkUp \in BOOLEAN
  /\ outPc \in {"idle", "loop", "map", "publish", "fill", "result"}
  /\ outPkt \in Packets \cup {NoMbuf}
  /\ outSegs \in 0 .. kMaxSegs /\ outDone \in 0 .. kMaxSegs
  /\ outIndex \in Slots
  /\ stalled \in BOOLEAN /\ signalled \in BOOLEAN
  /\ rclPc \in {"idle", "reclaim"}
  /\ rclLeft \in 0 .. kNumTxDesc - 1 /\ rclMoved \in BOOLEAN

(* The atomic counter, the two indices and the two 32-bit pointers agree   *)
(* at every moment, between any two steps of outputStart and txInterrupt.  *)
Accounting ==
  /\ txNumFreeDesc + InFlight + Reserved = kNumTxDesc
  /\ Wrap(txTailPtr0 - txClosePtr0, TxPtrMod) + rclLeft = InFlight

(* "We never fill the ring completely but leave at least one unused"       *)
(* (outputStart): some slot is out of the driver's and of the NIC's hands. *)
NeverFull ==
  \E s \in Slots : /\ ~descOwn[s] /\ txBufArray[s] = NoMbuf
                  /\ Ahead(s, txDirtyDescIndex) >= InFlight + Reserved

(* outputStart never writes a descriptor the NIC still owns, nor one whose *)
(* mbuf txInterrupt has not freed yet.                                     *)
NoOverwrite ==
  outPc = "fill" => ~descOwn[outIndex] /\ txBufArray[outIndex] = NoMbuf

(* Every packet the driver took is recorded in exactly one place: none is  *)
(* leaked, none can be freed twice.                                        *)
EachMbufOnce ==
  /\ \A p \in Packets :
        p \in mbufs <=> p = outPkt \/ \E s \in Slots : txBufArray[s] = p
  /\ \A s \in Slots : txBufArray[s] # NoMbuf =>
        /\ txBufArray[s] # outPkt
        /\ \A t \in Slots : txBufArray[t] = txBufArray[s] => t = s

(* The descriptors txInterrupt has decided to reclaim were filled and sent *)
(* by the NIC, although the index is published before they are filled.     *)
FilledEnd == IF outPc = "fill" THEN outIndex ELSE txNextDescIndex
ReclaimOnlySent ==
  /\ rclLeft <= Ahead(FilledEnd, txDirtyDescIndex)
  /\ rclLeft <= Ahead(nicIndex, txDirtyDescIndex)
  /\ \A s \in Slots :
        Ahead(s, txDirtyDescIndex) < rclLeft => ~descOwn[s]

-----------------------------------------------------------------------------
(* The ring implements the packet queue: packets are sent in order and     *)
(* released once, only after the NIC has sent their last descriptor.       *)
Q == INSTANCE TxQueue WITH queue <- RingQueue, sent <- RingSent

TxQueueSpec == Q!Spec

-----------------------------------------------------------------------------
(* Liveness.  The output thread runs while its interface is not stalled,   *)
(* the NIC makes progress, and a close pointer that has moved raises TxOK, *)
(* whose handler runs (the bit stays in the ISR while a handler runs for   *)
(* another reason, hence strong fairness).  The stack owes the driver no   *)
(* packet, and does not feed outputStart without end with packets that     *)
(* cannot be mapped (strong fairness of LeaveLoop).                        *)
TxOkInterrupt == TxInterrupt /\ NumDone > 0

Fairness ==
  /\ WF_vars(OutputStart) /\ SF_vars(LeaveLoop) /\ WF_vars(OutputReturn)
  /\ WF_vars(DropPacket \/ \E n \in 1 .. kMaxSegs : Reserve(n))
  /\ WF_vars(Publish) /\ WF_vars(FillDesc)
  /\ WF_vars(NicSend) /\ WF_vars(NicStop)
  /\ SF_vars(TxOkInterrupt) /\ WF_vars(Reclaim) /\ WF_vars(ReclaimDone)

FairSpec == Spec /\ Fairness

(* A stalled output thread is started again: the wake-up of txInterrupt is *)
(* not lost, whichever order the last reclaim and the stall happen in.     *)
StallEnds == stalled ~> (~stalled \/ ~linkUp)

(* Every packet the driver takes goes back to the mbuf allocator.          *)
PacketsReleased == \A p \in Packets : p \in mbufs ~> p \notin mbufs
=============================================================================
