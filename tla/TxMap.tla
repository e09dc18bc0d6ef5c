-------------------------------- MODULE TxMap --------------------------------
(***************************************************************************)
(* The transmit ring with AppleVTD (SimpleRTK5VTD.cpp): every packet is    *)
(* mapped for the NIC by a memory descriptor, taken in turn from a second  *)
(* ring of half the size, and unmapped when txInterrupt() frees it. The    *)
(* steps are those of TxRing; here is what they do to the map.             *)
(*                                                                         *)
(* An address in a descriptor is modelled by the packet it was made for.   *)
(***************************************************************************)
EXTENDS TxRing, FiniteSets

CONSTANT TxMemDescCounts  (* the numbers of memory descriptors considered   *)

ASSUME TxMapAssumption == TxMemDescCounts \subseteq Nat \ {0}

VARIABLES
  kNumTxMemDesc,   (* the number of them, kNumTxDesc / 2; never changed     *)
  txNextMem2Use,   (* next memory descriptor txMapPacket will use           *)
  txNextMem2Free,  (* next one txUnmapPacket will complete                  *)
  txNumFreeMem,    (* free ones, updated atomically                         *)
  txMemIO,         (* the packet each of them has mapped, while it is active*)
  txSegments,      (* the packet the segments of outputStart are made of    *)
  descAddr,        (* the packet whose address a descriptor holds           *)
  starved          (* history: a packet was accepted that was not mapped    *)

mapVars == <<txNextMem2Use, txNextMem2Free, txNumFreeMem, txMemIO, txSegments,
             descAddr, starved>>
allVars == <<vars, mapVars, kNumTxMemDesc>>

MemDescs == 0 .. kNumTxMemDesc - 1

(* setupTxMap(). *)
ClearTxMap ==
  /\ txNextMem2Use' = 0 /\ txNextMem2Free' = 0
  /\ txNumFreeMem' = kNumTxMemDesc
  /\ txMemIO' = [i \in MemDescs |-> NoMbuf]
  /\ txSegments' = NoMbuf
  /\ descAddr' = [s \in Slots |-> NoMbuf]
  /\ starved' = FALSE

MapInit ==
  /\ Init
  /\ kNumTxMemDesc \in TxMemDescCounts
  /\ txNextMem2Use = 0 /\ txNextMem2Free = 0
  /\ txNumFreeMem = kNumTxMemDesc
  /\ txMemIO = [i \in MemDescs |-> NoMbuf]
  /\ txSegments = NoMbuf
  /\ descAddr = [s \in Slots |-> NoMbuf]
  /\ starved = FALSE

(* txMapPacket() succeeds. When it fails it puts back what it took and the *)
(* packet is dropped: nothing of the map changes then.                     *)
MapPacket ==
  /\ txNumFreeMem > 1
  /\ txNumFreeMem' = txNumFreeMem - 1
  /\ txNextMem2Use' = (txNextMem2Use + 1) % kNumTxMemDesc
  /\ txMemIO' = [txMemIO EXCEPT ![txNextMem2Use] = outPkt]
  /\ txSegments' = outPkt
  /\ UNCHANGED <<txNextMem2Free, descAddr, starved>>

(* No memory descriptor is left: txMapPacket() skips the mapping, leaves   *)
(* the segments as they are and still returns their number.                *)
SkipMapping ==
  /\ txNumFreeMem <= 1
  /\ starved' = TRUE
  /\ UNCHANGED <<txNextMem2Use, txNextMem2Free, txNumFreeMem, txMemIO,
                 txSegments, descAddr>>

(* The segments are dead once the last descriptor is filled. *)
FillAddress ==
  /\ descAddr' = [descAddr EXCEPT ![outIndex] = txSegments]
  /\ txSegments' = IF outDone + 1 = outSegs THEN NoMbuf ELSE txSegments
  /\ UNCHANGED <<txNextMem2Use, txNextMem2Free, txNumFreeMem, txMemIO, starved>>

UnmapEachDesc == TRUE                                             (* faulty *)
UnmapNow == txBufArray[txDirtyDescIndex] # NoMbuf

(* txUnmapPacket(), when the descriptor reclaimed is a packet's last.      *)
TxUnmapPacket ==
  /\ UnmapNow
  /\ txMemIO' = [txMemIO EXCEPT ![txNextMem2Free] = NoMbuf]
  /\ txNextMem2Free' = (txNextMem2Free + 1) % kNumTxMemDesc
  /\ txNumFreeMem' = txNumFreeMem + 1
  /\ UNCHANGED <<txNextMem2Use, txSegments, descAddr, starved>>

(* An address the NIC has used is of no interest any more. *)
ForgetAddress ==
  /\ descAddr' = [descAddr EXCEPT ![nicIndex] = NoMbuf]
  /\ UNCHANGED <<txNextMem2Use, txNextMem2Free, txNumFreeMem, txMemIO,
                 txSegments, starved>>

MapStep ==
  \/ /\ \E numSegs \in 1 .. kMaxSegs : Reserve(numSegs)
     /\ MapPacket \/ SkipMapping
  \/ FillDesc /\ FillAddress
  \/ Reclaim /\ TxUnmapPacket
  \/ SetLinkDown /\ ClearTxMap
  \/ NicSend /\ ForgetAddress

OtherStep ==
  /\ \/ OutputStart \/ DropPacket \/ Publish \/ LeaveLoop \/ OutputReturn
     \/ \E p \in Packets : Dequeue(p)
     \/ NicStop \/ TxInterrupt \/ ReclaimDone \/ SetLinkUp
     \/ Reclaim /\ ~UnmapNow
  /\ UNCHANGED mapVars

MapNext == (MapStep \/ OtherStep) /\ UNCHANGED kNumTxMemDesc

MapSpec == MapInit /\ [][MapNext]_allVars

FairMapSpec == MapSpec /\ Fairness

-----------------------------------------------------------------------------
(* The packets in the ring, and the one that is being put there. *)
PacketsInRing ==
  RingQueue
    \o (IF outPc \in {"publish", "fill"} THEN <<outPkt>> ELSE <<>>)

(* The packets that are mapped, in the order of the memory descriptors.    *)
NumMapped == Cardinality({i \in MemDescs : txMemIO[i] # NoMbuf})
MapOrder ==
  [k \in 1 .. NumMapped |-> txMemIO[(txNextMem2Free + k - 1) % kNumTxMemDesc]]

(* The two rings go in step, although one counts packets and the other     *)
(* descriptors: the packets that are mapped are those in the transmit      *)
(* ring, in the same order, and the free memory descriptors are the rest.  *)
(* txUnmapPacket() knows its packet by nothing else.  This holds until     *)
(* the memory descriptors run out: a packet that was not mapped is         *)
(* unmapped all the same, so that another loses its mapping, and the       *)
(* number of free ones stays too high until the rings are cleared.         *)
MapFollowsRing ==
  ~starved =>
    /\ MapOrder = PacketsInRing
    /\ txNumFreeMem + NumMapped = kNumTxMemDesc

(* "The packet is split up into physical contiguous segments and an        *)
(* IOMemoryDescriptor is used to map all segments for DMA access"          *)
(* (txMapPacket): what the NIC is told to read is mapped.                  *)
ReadsMappedMemory ==
  \A s \in Slots :
    descOwn[s] => descAddr[s] \in {txMemIO[i] : i \in MemDescs} \ {NoMbuf}
=============================================================================
