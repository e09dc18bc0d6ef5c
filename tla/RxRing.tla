------------------------------- MODULE RxRing -------------------------------
(***************************************************************************)
(* The receive descriptor ring of SimpleRTK5Ethernet.cpp without AppleVTD. *)
(* The NIC writes frames into the buffers of descriptors it owns, a frame  *)
(* larger than a buffer as several fragments; rxInterrupt() replaces or    *)
(* copies each buffer, assembles the fragments of a jumbo frame and hands  *)
(* complete frames to the stack.                                           *)
(*                                                                         *)
(* A buffer is an mbuf; its contents are the fragment written to it, and a *)
(* fragment is known by its frame, its place in the frame and whether the  *)
(* frame ends with it.                                                     *)
(***************************************************************************)
EXTENDS Integers, Sequences

CONSTANTS
  kNumRxDesc,   (* descriptors in the ring                                  *)
  Mbufs,        (* the mbufs there are                                      *)
  NoMbuf,
  NumFrames,    (* frames on the wire are numbered modulo this              *)
  MaxFrags,     (* buffers the largest frame fills                          *)
  AllocFails,   (* can replaceOrCopyPacket fail?                            *)
  LinkFlaps     (* may LinkChg report "up" while the link is up?            *)

ASSUME RxRingAssumption ==
  /\ kNumRxDesc \in Nat \ {0}
  /\ NumFrames \in Nat \ {0} /\ MaxFrags \in Nat \ {0}
  /\ NoMbuf \notin Mbufs
  /\ AllocFails \in BOOLEAN /\ LinkFlaps \in BOOLEAN

Slots == 0 .. kNumRxDesc - 1
kRxLastDesc == kNumRxDesc - 1

(* A fragment: "tiny" is a last one of 4 bytes or less (part of the FCS).  *)
Fragments ==
  [frame : 0 .. NumFrames - 1, place : 1 .. MaxFrags, last : BOOLEAN,
   tiny : BOOLEAN, err : BOOLEAN]
NoFrag == [frame |-> 0, place |-> 0, last |-> FALSE, tiny |-> FALSE, err |-> FALSE]

VARIABLES
  descOwn,          (* DescOwn of rxDescArray                               *)
  descEnd,          (* RingEnd of rxDescArray                               *)
  descAddr,         (* the buffer whose address the descriptor holds        *)
  descFrag,         (* what the NIC reported in opts1                       *)
  rxBufArray,       (* the mbuf (and its phyAddr) of each descriptor        *)
  rxNextDescIndex,  (* next descriptor rxInterrupt examines                 *)
  rxPacket,         (* rxPacketHead .. rxPacketTail, as <<mbuf, fragment>>s *)
  freeMbufs,        (* mbufs that belong to the allocator                   *)
  upstream,         (* mbufs the stack holds                                *)
  delivered,        (* the fragments of the packet last enqueued            *)
  csumMbuf,         (* the mbuf getChecksumResult has just written          *)
  rxEnabled,        (* CmdRxEnb, set with __LINK_UP                         *)
  nicIndex,         (* next descriptor the NIC fills                        *)
  nicFrame,         (* number of the frame on the wire                      *)
  nicPlace          (* fragments of it already written                      *)

descVars == <<descOwn, descEnd, descAddr, descFrag>>
nicVars  == <<rxEnabled, nicIndex, nicFrame, nicPlace>>
vars     == <<descVars, rxBufArray, rxNextDescIndex, rxPacket, freeMbufs,
              upstream, delivered, csumMbuf, nicVars>>

-----------------------------------------------------------------------------
PacketMbufs == {rxPacket[i][1] : i \in DOMAIN rxPacket}
PacketFrags == [i \in DOMAIN rxPacket |-> rxPacket[i][2]]

(* setupRxResources(): every descriptor owns a buffer, the NIC owns it. *)
Init ==
  /\ descOwn = [s \in Slots |-> TRUE]
  /\ descEnd = [s \in Slots |-> s = kRxLastDesc]
  /\ rxBufArray \in [Slots -> Mbufs]
  /\ \A s, t \in Slots : rxBufArray[s] = rxBufArray[t] => s = t
  /\ descAddr = rxBufArray
  /\ descFrag = [s \in Slots |-> NoFrag]
  /\ rxNextDescIndex = 0 /\ rxPacket = <<>>
  /\ freeMbufs = Mbufs \ {rxBufArray[s] : s \in Slots}
  /\ upstream = {} /\ delivered = <<>> /\ csumMbuf = NoMbuf
  /\ rxEnabled = FALSE /\ nicIndex = 0 /\ nicFrame = 0 /\ nicPlace = 0

-----------------------------------------------------------------------------
(* The NIC (external): it fills the buffers it owns in ring order and      *)
(* reports receive errors (RxRES) with the last fragment of a frame.       *)
NicReceive ==
  /\ rxEnabled /\ descOwn[nicIndex]
  /\ \E last, tiny, err \in BOOLEAN :
       /\ nicPlace + 1 = MaxFrags => last
       /\ tiny => last /\ nicPlace > 0
       /\ err => last
       /\ descFrag' = [descFrag EXCEPT ![nicIndex] =
            [frame |-> nicFrame, place |-> nicPlace + 1, last |-> last,
             tiny |-> tiny, err |-> err]]
       /\ nicPlace' = IF last THEN 0 ELSE nicPlace + 1
       /\ nicFrame' = IF last THEN (nicFrame + 1) % NumFrames ELSE nicFrame
  /\ descOwn' = [descOwn EXCEPT ![nicIndex] = FALSE]
  /\ nicIndex' = IF descEnd[nicIndex] THEN 0 ELSE (nicIndex + 1) % kNumRxDesc
  /\ csumMbuf' = NoMbuf
  /\ UNCHANGED <<descEnd, descAddr, rxBufArray, rxNextDescIndex, rxPacket,
                 freeMbufs, upstream, delivered, rxEnabled>>

(* The stack (external) frees a packet it is done with. *)
StackFree(m) ==
  /\ m \in upstream
  /\ upstream' = upstream \ {m}
  /\ freeMbufs' = freeMbufs \cup {m}
  /\ csumMbuf' = NoMbuf
  /\ UNCHANGED <<descVars, rxBufArray, rxNextDescIndex, rxPacket, delivered,
                 nicVars>>

-----------------------------------------------------------------------------
(* rxInterrupt(): one iteration of its loop per step.  Whatever happens to *)
(* the packet, the step ends at nextDesc.                                  *)

HasPacket == rxEnabled /\ ~descOwn[rxNextDescIndex]
Status    == descFrag[rxNextDescIndex]
BufPkt    == rxBufArray[rxNextDescIndex]

(* nextDesc: give the descriptor, with the buffer m, back to the NIC. *)
NextDesc(m) ==
  /\ descAddr' = [descAddr EXCEPT ![rxNextDescIndex] = m]
  /\ descOwn' = [descOwn EXCEPT ![rxNextDescIndex] = TRUE]
  /\ descEnd' = [descEnd EXCEPT ![rxNextDescIndex] =
                   rxNextDescIndex = kRxLastDesc]
  /\ descFrag' = [descFrag EXCEPT ![rxNextDescIndex] = NoFrag]
  /\ rxNextDescIndex' = (rxNextDescIndex + 1) % kNumRxDesc

KeepPacketFragment == rxPacket' = rxPacket /\ freeMbufs' = freeMbufs
DiscardLeaks == rxPacket' = <<>> /\ freeMbufs' = freeMbufs
(* discardPacketFragment(): free the fragments of the unfinished frame. *)
DiscardPacketFragment ==
  /\ freeMbufs' = freeMbufs \cup PacketMbufs
  /\ rxPacket' = <<>>

(* RxRES, or replaceOrCopyPacket() has no buffer, or the replacement is    *)
(* not contiguous and is freed again: the original buffer stays in place.  *)
DropFragment ==
  /\ HasPacket
  /\ Status.err \/ AllocFails
  /\ DiscardPacketFragment
  /\ NextDesc(BufPkt)
  /\ csumMbuf' = NoMbuf
  /\ UNCHANGED <<rxBufArray, upstream, delivered, nicVars>>

(* replaceOrCopyPacket(): fresh is the mbuf it allocated.  A replaced      *)
(* buffer goes on as the packet and fresh takes its place in the ring; a   *)
(* short packet is copied to fresh and the ring keeps its buffer.          *)
NewPkt(fresh, replaced)    == IF replaced THEN BufPkt ELSE fresh
RingBufStale(fresh, replaced) == BufPkt
RingBuf(fresh, replaced)   == IF replaced THEN fresh ELSE BufPkt

(* Buffers are copied when short: the last one only, a tiny one always.    *)
MayReplace(replaced) ==
  /\ Status.tiny => ~replaced
  /\ ~Status.last => replaced

(* Put the packet into pieces, and fresh where it belongs. *)
TakeBuffer(fresh, replaced) ==
  /\ HasPacket /\ ~Status.err
  /\ fresh \in freeMbufs
  /\ MayReplace(replaced)
  /\ rxBufArray' = [rxBufArray EXCEPT ![rxNextDescIndex] =
                      RingBuf(fresh, replaced)]
  /\ NextDesc(RingBuf(fresh, replaced))

(* A fragment of a jumbo frame, not the last one. *)
ReceiveFragment(fresh, replaced) ==
  /\ TakeBuffer(fresh, replaced)
  /\ ~Status.last
  /\ rxPacket' = Append(rxPacket, <<NewPkt(fresh, replaced), Status>>)
  /\ freeMbufs' = freeMbufs \ {fresh}
  /\ csumMbuf' = NoMbuf
  /\ UNCHANGED <<upstream, delivered, nicVars>>

(* The last fragment holds only the FCS and follows others: it is freed,   *)
(* yet getChecksumResult() is called on it.                                *)
DropFcs(fresh, replaced) ==
  /\ TakeBuffer(fresh, replaced)
  /\ Status.last /\ Status.tiny /\ rxPacket # <<>>
  /\ freeMbufs' = (freeMbufs \ {fresh}) \cup {NewPkt(fresh, replaced)}
  /\ csumMbuf' = NewPkt(fresh, replaced)
  /\ upstream' = upstream \cup PacketMbufs
  /\ delivered' = Append(PacketFrags, Status)
  /\ rxPacket' = <<>>
  /\ UNCHANGED nicVars

(* The last fragment, or a packet in one buffer. *)
ReceiveLast(fresh, replaced) ==
  /\ TakeBuffer(fresh, replaced)
  /\ Status.last /\ ~(Status.tiny /\ rxPacket # <<>>)
  /\ freeMbufs' = freeMbufs \ {fresh}
  /\ csumMbuf' = NewPkt(fresh, replaced)
  /\ upstream' = upstream \cup PacketMbufs \cup {NewPkt(fresh, replaced)}
  /\ delivered' = Append(PacketFrags, Status)
  /\ rxPacket' = <<>>
  /\ UNCHANGED nicVars

RxInterrupt ==
  \/ DropFragment
  \/ \E fresh \in Mbufs, replaced \in BOOLEAN :
       \/ ReceiveFragment(fresh, replaced)
       \/ DropFcs(fresh, replaced)
       \/ ReceiveLast(fresh, replaced)

-----------------------------------------------------------------------------
(* Link changes, on the work loop between two runs of rxInterrupt.         *)

(* setLinkDown(): the chip is reset, clearRxTxRings() gives every          *)
(* descriptor with its buffer to the NIC and discards the fragments.       *)
SetLinkDown ==
  /\ rxEnabled
  /\ rxEnabled' = FALSE /\ nicIndex' = 0 /\ nicPlace' = 0
  /\ descOwn' = [s \in Slots |-> TRUE]
  /\ descEnd' = [s \in Slots |-> s = kRxLastDesc]
  /\ descAddr' = rxBufArray
  /\ descFrag' = [s \in Slots |-> NoFrag]
  /\ rxNextDescIndex' = 0
  /\ DiscardPacketFragment
  /\ csumMbuf' = NoMbuf
  /\ UNCHANGED <<rxBufArray, upstream, delivered, nicFrame>>

(* rtl812xHwConfig() resets the chip and the index; setLinkUp() forgets    *)
(* rxPacketHead without freeing it and enables the receiver.               *)
SetLinkUp ==
  /\ ~rxEnabled \/ LinkFlaps
  /\ rxEnabled' = TRUE /\ nicIndex' = 0 /\ nicPlace' = 0
  /\ rxNextDescIndex' = 0 /\ rxPacket' = <<>>
  /\ csumMbuf' = NoMbuf
  /\ UNCHANGED <<descVars, rxBufArray, freeMbufs, upstream, delivered, nicFrame>>

Next ==
  \/ NicReceive \/ RxInterrupt \/ SetLinkDown \/ SetLinkUp
  \/ \E m \in Mbufs : StackFree(m)

Spec == Init /\ [][Next]_vars

-----------------------------------------------------------------------------
(* Safety.                                                                 *)

TypeOK ==
  /\ descOwn \in [Slots -> BOOLEAN] /\ descEnd \in [Slots -> BOOLEAN]
  /\ descAddr \in [Slots -> Mbufs] /\ rxBufArray \in [Slots -> Mbufs]
  /\ descFrag \in [Slots -> Fragments \cup {NoFrag}]
  /\ rxNextDescIndex \in Slots
  /\ rxPacket \in Seq(Mbufs \X Fragments) /\ Len(rxPacket) < MaxFrags
  /\ freeMbufs \subseteq Mbufs /\ upstream \subseteq Mbufs
  /\ delivered \in Seq(Fragments)
  /\ csumMbuf \in Mbufs \cup {NoMbuf}
  /\ rxEnabled \in BOOLEAN /\ nicIndex \in Slots
  /\ nicFrame \in 0 .. NumFrames - 1 /\ nicPlace \in 0 .. MaxFrags - 1

(* The NIC never writes to a buffer that has left the ring: a descriptor   *)
(* it owns holds the address of the mbuf recorded for that descriptor, and *)
(* it wraps at the last descriptor and nowhere else, so that it fills them *)
(* in the order rxInterrupt examines them.                                 *)
DmaToRingOnly ==
  \A s \in Slots :
    /\ descOwn[s] =>
         /\ descAddr[s] = rxBufArray[s]
         /\ descAddr[s] \notin freeMbufs \cup upstream \cup PacketMbufs
    /\ descEnd[s] <=> s = kRxLastDesc

(* Every mbuf is in one place: the ring, the unfinished frame, the stack   *)
(* or the allocator.  ("we have to free it in order to prevent a memory    *)
(* leak", discardPacketFragment)                                           *)
RingMbufs == {rxBufArray[s] : s \in Slots}
MbufsConserved ==
  /\ RingMbufs \cup PacketMbufs \cup upstream \cup freeMbufs = Mbufs
  /\ \A s, t \in Slots : rxBufArray[s] = rxBufArray[t] => s = t
  /\ \A i, j \in DOMAIN rxPacket : rxPacket[i][1] = rxPacket[j][1] => i = j
  /\ RingMbufs \cap (PacketMbufs \cup upstream \cup freeMbufs) = {}
  /\ PacketMbufs \cap (upstream \cup freeMbufs) = {}
  /\ upstream \cap freeMbufs = {}

(* What rxInterrupt enqueues are fragments of one frame, in order and      *)
(* without a gap, up to its last: a fragment that is lost takes those      *)
(* before it along, and no two frames are mixed.                           *)
OneFrameInOrder ==
  \A i \in DOMAIN delivered :
    /\ delivered[i].frame = delivered[1].frame
    /\ delivered[i].place = delivered[1].place + i - 1
    /\ delivered[i].last <=> i = Len(delivered)

(* And the frame is whole: its first fragment is there too.  ("We've got a *)
(* complete packet in one buffer.", rxInterrupt)                           *)
WholeFrames == delivered # <<>> => delivered[1].place = 1

(* rxInterrupt does not use a packet after giving it back.  ("so that we   *)
(* can drop it", rxInterrupt)                                              *)
ChecksumOfLivePacket == csumMbuf \notin freeMbufs
=============================================================================
