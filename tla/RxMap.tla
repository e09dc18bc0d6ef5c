-------------------------------- MODULE RxMap --------------------------------
(***************************************************************************)
(* The receive ring with AppleVTD (SimpleRTK5VTD.cpp): buffers are mapped  *)
(* for the NIC in batches, one memory descriptor for each, and a           *)
(* descriptor goes back to the NIC only when its batch is mapped again,    *)
(* after the loop of rxInterruptVTD() has ended. What becomes of the       *)
(* packets is as in RxRing and left out here.                              *)
(*                                                                         *)
(* An address is modelled by what it leads to: the buffer that is on       *)
(* record for the slot, one that has left the ring, or nothing (0). It is  *)
(* good while the batch is prepared.                                       *)
(***************************************************************************)
EXTENDS Integers

CONSTANTS
  kNumRxDesc,        (* descriptors in the ring                             *)
  kRxMemBatchSize,   (* buffers mapped together                             *)
  LinkFlaps          (* may LinkChg report "up" while the link is up?        *)

kNumRxMemDesc == kNumRxDesc \div kRxMemBatchSize

(* Bound of the model: more than the ring is counted as one batch more.    *)
kMaxNumMap == kNumRxMemDesc + 1

ASSUME RxMapAssumption ==
  /\ kRxMemBatchSize \in Nat \ {0}
  /\ LinkFlaps \in BOOLEAN
  /\ kNumRxMemDesc \in Nat \ {0}
  /\ kNumRxDesc = kNumRxMemDesc * kRxMemBatchSize

Slots   == 0 .. kNumRxDesc - 1
Batches == 0 .. kNumRxMemDesc - 1
Batch(s) == s \div kRxMemBatchSize
kRxLastDesc == kNumRxDesc - 1

Current == "current"
Old     == "old"
NoAddr  == "none"

VARIABLES
  phyAddr,            (* of rxBufArray: Current, or NoAddr once replaced    *)
  rxMemRange,         (* the buffers the memory descriptors refer to        *)
  prepared,           (* memory descriptors that are prepared               *)
  descOwn, descAddr, descEnd,   (* rxDescArray                              *)
  rxNextDescIndex,
  rxMapNextIndex,
  numMap,             (* batches to be mapped after the loop                *)
  anyGood,            (* goodPkts > 0                                       *)
  rxPc,               (* "idle", "loop", "map"                              *)
  opened,             (* enable() has run                                   *)
  rxEnabled,          (* CmdRxEnb                                           *)
  nicIndex,
  filled,             (* slots the NIC has filled and the driver not seen   *)
  stale,              (* history: a slot was processed that was not filled  *)
  clearFailed         (* history: the last clearRxTxRings() could not map   *)

bufVars  == <<phyAddr, rxMemRange, prepared>>
descVars == <<descOwn, descAddr, descEnd>>
loopVars == <<rxNextDescIndex, rxMapNextIndex, numMap, anyGood, rxPc>>
nicVars  == <<opened, rxEnabled, nicIndex>>
vars == <<bufVars, descVars, loopVars, nicVars, filled, stale, clearFailed>>

-----------------------------------------------------------------------------
(* setupRxMap() maps all batches, but writes the descriptor of the batch's *)
(* index instead of the buffer's: only the first ones are set up.          *)
Init ==
  /\ phyAddr = [s \in Slots |-> Current] /\ rxMemRange = phyAddr
  /\ prepared = Batches
  /\ descOwn  = [s \in Slots |-> s \in Batches]
  /\ descAddr = [s \in Slots |-> IF s \in Batches THEN Current ELSE NoAddr]
  /\ descEnd  = [s \in Slots |-> s \in {kNumRxMemDesc - 1, kRxLastDesc}]
  /\ rxNextDescIndex = 0 /\ rxMapNextIndex = 0
  /\ numMap = 0 /\ anyGood = FALSE /\ rxPc = "idle"
  /\ opened = FALSE /\ rxEnabled = FALSE /\ nicIndex = 0
  /\ filled = {} /\ stale = FALSE /\ clearFailed = FALSE

(* The NIC (external) fills the buffers of the descriptors it owns.        *)
NicReceive ==
  /\ rxEnabled /\ descOwn[nicIndex]
  /\ descOwn' = [descOwn EXCEPT ![nicIndex] = FALSE]
  /\ filled' = filled \cup {nicIndex}
  /\ nicIndex' = IF descEnd[nicIndex] THEN 0 ELSE (nicIndex + 1) % kNumRxDesc
  /\ UNCHANGED <<bufVars, descAddr, descEnd, loopVars, opened, rxEnabled, stale,
                 clearFailed>>

-----------------------------------------------------------------------------
(* rxMapBuffers()                                                          *)

KeepRanges(batches) == rxMemRange                                 (* faulty *)
(* complete() is followed by new ranges for the buffers replaced since. *)
UpdatedRanges(batches) ==
  [s \in Slots |-> IF Batch(s) \in batches /\ phyAddr[s] = NoAddr
                   THEN Current ELSE rxMemRange[s]]

(* The addresses of the batches that are mapped: the descriptors take them.*)
Mapped(batches, addresses) ==
  [s \in Slots |-> IF Batch(s) \in batches THEN UpdatedRanges(batches)[s]
                   ELSE addresses[s]]

(* One batch, from rxMapNextIndex on. The memory descriptor is completed   *)
(* first; if it cannot be prepared again the rest of the batches is left,  *)
(* and this one stays the next to be mapped.                               *)
RxMapBuffers ==
  LET batch == Batch(rxMapNextIndex) IN
  /\ rxPc = "map"
  /\ rxMemRange' = UpdatedRanges({batch})
  /\ \/ /\ prepared' = prepared \cup {batch}
        /\ phyAddr'  = Mapped({batch}, phyAddr)
        /\ descAddr' = Mapped({batch}, descAddr)
        /\ descOwn' = [s \in Slots |-> Batch(s) = batch \/ descOwn[s]]
        /\ descEnd' = [s \in Slots |-> IF Batch(s) = batch THEN s = kRxLastDesc
                                       ELSE descEnd[s]]
        /\ filled' = {s \in filled : Batch(s) # batch}
        /\ rxMapNextIndex' = (rxMapNextIndex + kRxMemBatchSize) % kNumRxDesc
        /\ numMap' = numMap - 1
        /\ rxPc' = IF numMap = 1 THEN "idle" ELSE "map"
     \/ /\ prepared' = prepared \ {batch}
        /\ numMap' = 0 /\ rxPc' = "idle"
        /\ UNCHANGED <<phyAddr, descVars, filled, rxMapNextIndex>>
  /\ UNCHANGED <<rxNextDescIndex, anyGood, nicVars, stale, clearFailed>>

-----------------------------------------------------------------------------
(* rxInterruptVTD(), from the interrupt handler or from the poller, which  *)
(* may ask for any number of packets (maxCount).                           *)

RxInterruptVTD ==
  /\ rxPc = "idle" /\ rxEnabled
  /\ rxPc' = "loop" /\ anyGood' = FALSE /\ numMap' = 0
  /\ UNCHANGED <<bufVars, descVars, rxNextDescIndex, rxMapNextIndex, nicVars,
                 filled, stale, clearFailed>>

HasPacket == ~descOwn[rxNextDescIndex]

BatchBegun == rxNextDescIndex % kRxMemBatchSize = 0               (* faulty *)
BatchDone  == rxNextDescIndex % kRxMemBatchSize = kRxMemBatchSize - 1

(* The new buffer has no address yet, the others lead to the old one.      *)
ReplaceBuffer ==
  /\ phyAddr' = [phyAddr EXCEPT ![rxNextDescIndex] = NoAddr]
  /\ rxMemRange' = [rxMemRange EXCEPT ![rxNextDescIndex] = Old]
  /\ descAddr' = [descAddr EXCEPT ![rxNextDescIndex] =
                     IF @ = NoAddr THEN NoAddr ELSE Old]
  /\ UNCHANGED prepared

(* One iteration: a frame ends in the buffer (good) or not (a fragment, an *)
(* error, no new buffer); the buffer is replaced, unless it was copied or  *)
(* dropped.                                                                *)
ReceivePacket(good, replaced) ==
  /\ rxPc = "loop" /\ HasPacket
  /\ IF replaced THEN ReplaceBuffer ELSE UNCHANGED <<bufVars, descAddr>>
  /\ anyGood' = (anyGood \/ good)
  /\ filled' = filled \ {rxNextDescIndex}
  /\ stale' = (stale \/ rxNextDescIndex \notin filled)
  /\ numMap' = IF BatchDone /\ numMap < kMaxNumMap THEN numMap + 1 ELSE numMap
  /\ rxNextDescIndex' = (rxNextDescIndex + 1) % kNumRxDesc
  /\ UNCHANGED <<descOwn, descEnd, rxMapNextIndex, rxPc, nicVars, clearFailed>>

LeaveLoop ==
  /\ rxPc = "loop"
  /\ ~HasPacket \/ anyGood
  /\ rxPc' = IF numMap > 0 THEN "map" ELSE "idle"
  /\ anyGood' = FALSE
  /\ UNCHANGED <<bufVars, descVars, rxNextDescIndex, rxMapNextIndex, numMap,
                 nicVars, filled, stale, clearFailed>>

-----------------------------------------------------------------------------
(* clearRxTxRings(): all batches are mapped, up to the first that fails;   *)
(* then every descriptor goes to the NIC with the address on record,       *)
(* whether or not there is one. The caller has stopped the chip.           *)
ResetOne       == rxNextDescIndex' = 0 /\ UNCHANGED rxMapNextIndex (* faulty *)
ResetRxIndices == rxNextDescIndex' = 0 /\ rxMapNextIndex' = 0

ClearRxTxRings ==
  \E numOk \in 0 .. kNumRxMemDesc :
    LET good  == 0 .. numOk - 1
        tried == good \cup ({numOk} \cap Batches) IN
    /\ rxMemRange' = UpdatedRanges(tried)
    /\ prepared'   = (prepared \ tried) \cup good
    /\ phyAddr'    = Mapped(good, phyAddr)
    /\ descAddr'   = phyAddr'
    /\ descOwn'    = [s \in Slots |-> TRUE]
    /\ descEnd'    = [s \in Slots |-> s = kRxLastDesc]
    /\ ResetRxIndices
    /\ clearFailed' = (numOk < kNumRxMemDesc)
    /\ filled' = {} /\ stale' = FALSE

(* enable() selects the medium, and so calls setLinkDown(); so does a link *)
(* that goes down. A restart, a new MTU and disable() clear the rings too. *)
SetLinkDown ==
  /\ rxPc = "idle"
  /\ ClearRxTxRings
  /\ opened' = TRUE /\ rxEnabled' = FALSE /\ nicIndex' = 0
  /\ UNCHANGED <<numMap, anyGood, rxPc>>

(* rtl812xHwConfig() resets the chip and the index, setLinkUp() starts it. *)
SetLinkUp ==
  /\ rxPc = "idle" /\ opened
  /\ ~rxEnabled \/ LinkFlaps
  /\ rxEnabled' = TRUE /\ nicIndex' = 0 /\ rxNextDescIndex' = 0
  /\ UNCHANGED <<bufVars, descVars, rxMapNextIndex, numMap, anyGood, rxPc, opened,
                 filled, stale, clearFailed>>

Next ==
  \/ NicReceive
  \/ RxInterruptVTD
  \/ \E good, replaced \in BOOLEAN : ReceivePacket(good, replaced)
  \/ LeaveLoop \/ RxMapBuffers
  \/ SetLinkDown \/ SetLinkUp

Spec == Init /\ [][Next]_vars

-----------------------------------------------------------------------------
(* While the receiver is on, the NIC writes to mapped memory of the buffer *)
(* that is recorded for the slot, although buffers are replaced one by one *)
(* and mapped by the batch, and it finds the end of the ring where the     *)
(* driver does. A mapping that fails after an interrupt only delays the    *)
(* batch; one that fails while the rings are cleared leaves descriptors    *)
(* with no or stale addresses to the NIC until they are cleared again.     *)
(* (For stale, see AwaitingIsWindow.)                                      *)
NicAddressMapped ==
  rxEnabled /\ ~clearFailed /\ ~stale =>
    \A s \in Slots :
      /\ descOwn[s] => /\ Batch(s) \in prepared
                       /\ descAddr[s] = Current /\ rxMemRange[s] = Current
      /\ descEnd[s] <=> s = kRxLastDesc

(* The slots nobody has: processed, and not mapped again yet.              *)
Awaiting == {s \in Slots : ~descOwn[s] /\ s \notin filled}
Distance(s) == (s - rxMapNextIndex) % kNumRxDesc
Window == {s \in Slots : Distance(s) < Distance(rxNextDescIndex)}

(* They are the ones between the two indices, so that the loop stops at a  *)
(* slot that waits for its map only when all of them do: the whole ring    *)
(* was taken in one go, or failed mappings have let the one index fall     *)
(* behind as far. It does not stop then: old descriptors are processed a   *)
(* second time (history variable stale), and nothing is said from there.   *)
AwaitingIsWindow ==
  rxEnabled /\ ~stale =>
    \/ Awaiting = Window
    \/ Awaiting = Slots /\ Window = {}

(* The memory descriptor that is completed has no buffer the NIC may write *)
(* to, and none with a packet the driver has not seen.                     *)
UnmapsOnlyDone ==
  rxPc = "map" /\ ~stale =>
    {s \in Slots : Batch(s) = Batch(rxMapNextIndex)} \subseteq Awaiting
=============================================================================
