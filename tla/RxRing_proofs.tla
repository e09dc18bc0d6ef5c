---------------------------- MODULE RxRing_proofs ----------------------------
(***************************************************************************)
(* Safety of the receive ring for every ring size, frame size and set of   *)
(* mbufs, when LinkChg never reports "up" while the link is up.  IInv is   *)
(* the inductive invariant.                                                *)
(***************************************************************************)
EXTENDS RxRing, TLAPS

-----------------------------------------------------------------------------
(* The inductive invariant.                                                *)

(* The slot after s, and how far s is ahead of rxNextDescIndex. *)
NextSlot(s) == IF s = kRxLastDesc THEN 0 ELSE s + 1
Ahead(s)    == IF s >= rxNextDescIndex THEN s - rxNextDescIndex
               ELSE s - rxNextDescIndex + kNumRxDesc

(* A receiver that is off has been reset. *)
OffInv ==
  ~rxEnabled =>
    /\ \A s \in Slots : descOwn[s]
    /\ rxNextDescIndex = 0 /\ rxPacket = <<>> /\ nicIndex = 0 /\ nicPlace = 0

(* The host owns the descriptors from rxNextDescIndex to nicIndex: none, or *)
(* one and those after it, perhaps all.                                     *)
WindowInv ==
  \/ nicIndex = rxNextDescIndex /\ \A s \in Slots : descOwn[s]
  \/ /\ ~descOwn[rxNextDescIndex]
     /\ \A s \in Slots :
          descOwn[s] <=> nicIndex # rxNextDescIndex /\ Ahead(s) >= Ahead(nicIndex)

(* Only the last fragment of a frame can be its largest place. *)
FragInv ==
  \A s \in Slots : ~descOwn[s] =>
    /\ descFrag[s] \in Fragments
    /\ descFrag[s].last \/ descFrag[s].place < MaxFrags

(* A fragment that is not the last is followed in the ring by the next one *)
(* of its frame, or else the NIC is about to write that one.               *)
ChainInv ==
  \A s \in Slots : ~descOwn[s] /\ ~descFrag[s].last =>
    IF NextSlot(s) = nicIndex
      THEN nicFrame = descFrag[s].frame /\ nicPlace = descFrag[s].place
      ELSE /\ descFrag[NextSlot(s)].frame = descFrag[s].frame
           /\ descFrag[NextSlot(s)].place = descFrag[s].place + 1

(* rxPacket is a run of fragments of one frame without the last, and the   *)
(* next descriptor, or else the NIC, continues it.                         *)
PacketInv ==
  /\ \A i \in DOMAIN rxPacket :
       /\ ~rxPacket[i][2].last
       /\ rxPacket[i][2].frame = rxPacket[1][2].frame
       /\ rxPacket[i][2].place = rxPacket[1][2].place + i - 1
  /\ rxPacket # <<>> =>
       IF descOwn[rxNextDescIndex]
         THEN /\ nicFrame = rxPacket[1][2].frame
              /\ nicPlace = rxPacket[1][2].place + Len(rxPacket) - 1
         ELSE /\ Status.frame = rxPacket[1][2].frame
              /\ Status.place = rxPacket[1][2].place + Len(rxPacket)

IInv ==
  /\ LinkFlaps = FALSE
  /\ TypeOK /\ DmaToRingOnly /\ MbufsConserved /\ OneFrameInOrder
  /\ OffInv /\ WindowInv /\ FragInv /\ ChainInv /\ PacketInv

-----------------------------------------------------------------------------
(* Lemmas about slots, fragments and the unfinished frame.                 *)

(* The index of the next descriptor, with a mask in the code.              *)
LEMMA StepSlot ==
  ASSUME NEW i \in Slots
  PROVE  /\ (i + 1) % kNumRxDesc = NextSlot(i)
         /\ NextSlot(i) \in Slots
BY RxRingAssumption DEF Slots, NextSlot, kRxLastDesc

(* The chain of fragments that is being put together.                      *)
LEMMA PacketShape ==
  ASSUME TypeOK
  PROVE  /\ rxPacket \in Seq(Mbufs \X Fragments) /\ Len(rxPacket) \in Nat
         /\ \A i \in DOMAIN rxPacket : /\ rxPacket[i][1] \in Mbufs
                                       /\ rxPacket[i][2] \in Fragments
         /\ PacketMbufs \subseteq Mbufs
         /\ DOMAIN rxPacket = 1 .. Len(rxPacket)
<1>1. /\ rxPacket \in Seq(Mbufs \X Fragments) /\ Len(rxPacket) \in Nat
      /\ DOMAIN rxPacket = 1 .. Len(rxPacket)
  BY DEF TypeOK
<1>2. \A i \in DOMAIN rxPacket : rxPacket[i] \in Mbufs \X Fragments
  BY <1>1
<1>3. QED BY <1>1, <1>2 DEF PacketMbufs

(* Giving the oldest descriptor back leaves the order of the others. *)
LEMMA NextDescOrder ==
  ASSUME IInv, HasPacket, NEW m \in Mbufs, NextDesc(m), UNCHANGED nicVars
  PROVE  OffInv' /\ WindowInv' /\ FragInv' /\ ChainInv'
<1> USE RxRingAssumption
    DEF IInv, TypeOK, HasPacket, NextDesc, nicVars
<1>1. rxNextDescIndex' = NextSlot(rxNextDescIndex)
  BY StepSlot
<1>2. OffInv'
  BY DEF OffInv
<1>3. WindowInv'
  <2>1. /\ rxNextDescIndex \in Slots /\ nicIndex \in Slots /\ nicIndex' = nicIndex
        /\ descOwn \in [Slots -> BOOLEAN]
        /\ descOwn' = [descOwn EXCEPT ![rxNextDescIndex] = TRUE]
    OBVIOUS
  <2>2. \A s \in Slots :
          descOwn[s] <=> nicIndex # rxNextDescIndex /\ Ahead(s) >= Ahead(nicIndex)
    BY <2>1 DEF WindowInv
  <2> HIDE DEF IInv, TypeOK, HasPacket, NextDesc, nicVars
  <2>3. CASE rxNextDescIndex' = nicIndex
    BY <1>1, <2>1, <2>2, <2>3
    DEF WindowInv, Ahead, NextSlot, kRxLastDesc, Slots
  <2>4. CASE rxNextDescIndex' # nicIndex
    BY <1>1, <2>1, <2>2, <2>4
    DEF WindowInv, Ahead, NextSlot, kRxLastDesc, Slots
  <2>5. QED BY <2>3, <2>4
<1>4. FragInv'
  BY DEF FragInv
<1>5. ChainInv'
  BY <1>1 DEF ChainInv, WindowInv, FragInv, Ahead, NextSlot, kRxLastDesc, Slots
<1> QED BY <1>2, <1>3, <1>4, <1>5

(* The slot the NIC fills is the first one of its own. *)
LEMMA NicReceiveIInv ==
  ASSUME IInv, NicReceive
  PROVE  IInv'
<1> USE RxRingAssumption DEF IInv
<1>1. PICK last, tiny, err \in BOOLEAN :
        /\ nicPlace + 1 = MaxFrags => last
        /\ descFrag' = [descFrag EXCEPT ![nicIndex] =
             [frame |-> nicFrame, place |-> nicPlace + 1, last |-> last,
              tiny |-> tiny, err |-> err]]
        /\ nicPlace' = IF last THEN 0 ELSE nicPlace + 1
        /\ nicFrame' = IF last THEN (nicFrame + 1) % NumFrames ELSE nicFrame
  BY DEF NicReceive
<1>2. /\ rxEnabled /\ descOwn[nicIndex]
      /\ descOwn' = [descOwn EXCEPT ![nicIndex] = FALSE]
      /\ nicIndex' = NextSlot(nicIndex)
      /\ csumMbuf' = NoMbuf
      /\ UNCHANGED <<descEnd, descAddr, rxBufArray, rxNextDescIndex, rxPacket,
                     freeMbufs, upstream, delivered, rxEnabled>>
  BY StepSlot DEF NicReceive, TypeOK, DmaToRingOnly, NextSlot
<1>3. /\ nicIndex \in Slots /\ rxNextDescIndex \in Slots
      /\ descOwn \in [Slots -> BOOLEAN]
      /\ descFrag \in [Slots -> Fragments \cup {NoFrag}]
      /\ nicPlace \in 0 .. MaxFrags - 1 /\ nicFrame \in 0 .. NumFrames - 1
  BY DEF TypeOK
<1>4. /\ [frame |-> nicFrame, place |-> nicPlace + 1, last |-> last,
          tiny |-> tiny, err |-> err] \in Fragments
      /\ (nicFrame + 1) % NumFrames \in 0 .. NumFrames - 1
      /\ nicPlace' \in 0 .. MaxFrags - 1
  BY <1>1, <1>3 DEF Fragments
<1>5. \/ nicIndex = rxNextDescIndex /\ \A s \in Slots : descOwn[s]
      \/ /\ ~descOwn[rxNextDescIndex] /\ nicIndex # rxNextDescIndex
         /\ \A s \in Slots : descOwn[s] <=> Ahead(s) >= Ahead(nicIndex)
  BY <1>2, <1>3 DEF WindowInv
<1>6. TypeOK'
  BY <1>1, <1>2, <1>3, <1>4, StepSlot DEF TypeOK
<1>7. DmaToRingOnly'
  BY <1>2, <1>3 DEF DmaToRingOnly, PacketMbufs
<1>8. MbufsConserved'
  BY <1>2 DEF MbufsConserved, RingMbufs, PacketMbufs
<1>9. OneFrameInOrder'
  BY <1>2 DEF OneFrameInOrder
<1>10. OffInv'
  BY <1>2 DEF OffInv
<1> HIDE DEF IInv
<1>11. WindowInv'
  BY <1>2, <1>3, <1>5 DEF WindowInv, Ahead, NextSlot, kRxLastDesc, Slots
<1>12. FragInv'
  BY <1>1, <1>2, <1>3, <1>4 DEF FragInv, IInv, Fragments
<1>13. ChainInv'
  <2> SUFFICES ASSUME NEW s \in Slots, ~descOwn'[s], ~descFrag'[s].last
      PROVE IF NextSlot(s) = nicIndex'
              THEN nicFrame' = descFrag'[s].frame /\ nicPlace' = descFrag'[s].place
              ELSE /\ descFrag'[NextSlot(s)].frame = descFrag'[s].frame
                   /\ descFrag'[NextSlot(s)].place = descFrag'[s].place + 1
    BY DEF ChainInv, NextSlot
  <2>1. CASE s = nicIndex
    BY <2>1, <1>1, <1>2, <1>3
  <2>2. CASE s # nicIndex
    <3>1. ~descOwn[s] /\ descFrag'[s] = descFrag[s]
      BY <2>2, <1>1, <1>2, <1>3
    <3>2. NextSlot(s) # NextSlot(nicIndex)
      BY <2>2, <1>3 DEF NextSlot, Slots, kRxLastDesc
    <3>3. QED BY <3>1, <3>2, <1>1, <1>2, <1>3, StepSlot DEF ChainInv, IInv
  <2>3. QED BY <2>1, <2>2
<1>14. PacketInv'
  <2>1. PacketInv /\ Len(rxPacket) \in Nat /\ \A i \in DOMAIN rxPacket :
          rxPacket[i][2].place \in Int
    BY PacketShape DEF IInv, Fragments
  <2>2. CASE descOwn[rxNextDescIndex]
    <3>1. rxNextDescIndex = nicIndex
      BY <2>2, <1>5
    <3>2. ~descOwn'[rxNextDescIndex] /\ Status'.frame = nicFrame
          /\ Status'.place = nicPlace + 1
      BY <3>1, <1>1, <1>2, <1>3 DEF Status
    <3>3. rxPacket # <<>> => 1 \in DOMAIN rxPacket
      BY PacketShape DEF IInv
    <3>4. rxPacket # <<>> =>
            /\ Status'.frame = rxPacket[1][2].frame
            /\ Status'.place = rxPacket[1][2].place + Len(rxPacket)
      BY <2>1, <2>2, <3>2, <3>3, <1>3 DEF PacketInv
    <3>5. rxPacket' = rxPacket /\ rxNextDescIndex' = rxNextDescIndex
      BY <1>2
    <3>6. QED BY <2>1, <3>2, <3>4, <3>5, Zenon DEF PacketInv
  <2>3. CASE ~descOwn[rxNextDescIndex]
    <3>1. rxNextDescIndex # nicIndex
      BY <2>3, <1>2
    <3>2. ~descOwn'[rxNextDescIndex] /\ Status' = Status
      BY <2>3, <3>1, <1>1, <1>2, <1>3 DEF Status
    <3>3. QED BY <2>1, <2>3, <3>2, <1>2 DEF PacketInv
  <2>4. QED BY <2>2, <2>3
<1> QED BY <1>2, <1>6, <1>7, <1>8, <1>9, <1>10, <1>11, <1>12, <1>13, <1>14
        DEF IInv

(* A fragment taken from the ring continues the unfinished frame. *)
LEMMA StatusContinues ==
  ASSUME IInv, HasPacket
  PROVE  /\ Status \in Fragments
         /\ Status.last \/ Status.place < MaxFrags
         /\ BufPkt \in Mbufs
         /\ rxPacket # <<>> =>
              /\ 1 \in DOMAIN rxPacket
              /\ Status.frame = rxPacket[1][2].frame
              /\ Status.place = rxPacket[1][2].place + Len(rxPacket)
BY PacketShape
DEF IInv, HasPacket, Status, BufPkt, FragInv, PacketInv, TypeOK

(* A fragment with an error, and the whole chain with it, is dropped.      *)
LEMMA DropFragmentIInv ==
  ASSUME IInv, DropFragment
  PROVE  IInv'
<1> USE RxRingAssumption DEF DropFragment, DiscardPacketFragment
<1>1. /\ BufPkt \in Mbufs /\ PacketMbufs \subseteq Mbufs
      /\ rxNextDescIndex \in Slots /\ NextSlot(rxNextDescIndex) \in Slots
      /\ rxNextDescIndex' = NextSlot(rxNextDescIndex)
      /\ PacketMbufs' = {}
  <2>1. TypeOK /\ rxPacket' = <<>> /\ NextDesc(BufPkt)
    BY DEF IInv
  <2>2. PacketMbufs' = {}
    BY <2>1 DEF PacketMbufs
  <2>3. BufPkt \in Mbufs
    BY <2>1 DEF TypeOK, BufPkt
  <2>4. QED BY <2>1, <2>2, <2>3, PacketShape, StepSlot DEF TypeOK, NextDesc
<1>2. OffInv' /\ WindowInv' /\ FragInv' /\ ChainInv'
  BY <1>1, NextDescOrder
<1>3. TypeOK'
  BY <1>1 DEF IInv, TypeOK, NextDesc, nicVars
<1>4. DmaToRingOnly'
  <2>1. /\ \A s \in Slots : rxBufArray[s] \notin freeMbufs \cup upstream \cup PacketMbufs
        /\ \A s \in Slots : descOwn[s] => descAddr[s] = rxBufArray[s]
        /\ \A s \in Slots : descEnd[s] <=> s = kRxLastDesc
    BY DEF IInv, DmaToRingOnly, MbufsConserved, RingMbufs
  <2>2. \A s \in Slots : descOwn'[s] => descAddr'[s] = rxBufArray[s]
    BY <1>1, <2>1 DEF IInv, TypeOK, NextDesc, BufPkt
  <2>3. \A s \in Slots : descEnd'[s] <=> s = kRxLastDesc
    BY <1>1, <2>1 DEF IInv, TypeOK, NextDesc
  <2>4. freeMbufs' \cup upstream' \cup PacketMbufs'
          = freeMbufs \cup upstream \cup PacketMbufs
    BY <1>1
  <2>5. QED BY <2>1, <2>2, <2>3, <2>4 DEF DmaToRingOnly
<1>5. MbufsConserved'
  <2>1. rxBufArray' = rxBufArray /\ upstream' = upstream /\ RingMbufs' = RingMbufs
    BY DEF RingMbufs
  <2>2. QED BY <1>1, <2>1 DEF IInv, MbufsConserved
<1>6. OneFrameInOrder'
  BY DEF IInv, OneFrameInOrder
<1>7. PacketInv'
  BY DEF PacketInv
<1> QED BY <1>2, <1>3, <1>4, <1>5, <1>6, <1>7 DEF IInv

(* Where the mbufs go when rxInterrupt takes the packet out of the ring. *)
LEMMA TakeBufferMbufs ==
  ASSUME IInv, NEW fresh \in Mbufs, NEW replaced \in BOOLEAN,
         TakeBuffer(fresh, replaced)
  PROVE  /\ NewPkt(fresh, replaced) \in Mbufs
         /\ RingBuf(fresh, replaced) \in Mbufs
         /\ \/ NewPkt(fresh, replaced) = fresh /\ RingBuf(fresh, replaced) = BufPkt
            \/ NewPkt(fresh, replaced) = BufPkt /\ RingBuf(fresh, replaced) = fresh
         /\ fresh # BufPkt /\ fresh \in freeMbufs
         /\ fresh \notin RingMbufs \cup PacketMbufs \cup upstream
         /\ BufPkt \in RingMbufs
         /\ BufPkt \notin PacketMbufs \cup upstream \cup freeMbufs
         /\ RingMbufs' = (RingMbufs \ {BufPkt}) \cup {RingBuf(fresh, replaced)}
         /\ \A s, t \in Slots : rxBufArray'[s] = rxBufArray'[t] => s = t
<1>1. /\ rxNextDescIndex \in Slots /\ rxBufArray \in [Slots -> Mbufs]
      /\ BufPkt \in Mbufs /\ BufPkt \in RingMbufs
  BY DEF IInv, TypeOK, BufPkt, RingMbufs
<1>2. /\ fresh \in freeMbufs /\ fresh # BufPkt
      /\ fresh \notin RingMbufs \cup PacketMbufs \cup upstream
      /\ BufPkt \notin PacketMbufs \cup upstream \cup freeMbufs
  BY <1>1 DEF IInv, MbufsConserved, TakeBuffer
<1>3. \A s, t \in Slots : rxBufArray[s] = rxBufArray[t] => s = t
  BY DEF IInv, MbufsConserved
<1>4. rxBufArray' = [rxBufArray EXCEPT ![rxNextDescIndex] =
                       RingBuf(fresh, replaced)]
  BY DEF TakeBuffer
<1>5. /\ NewPkt(fresh, replaced) \in Mbufs /\ RingBuf(fresh, replaced) \in Mbufs
      /\ \/ NewPkt(fresh, replaced) = fresh /\ RingBuf(fresh, replaced) = BufPkt
         \/ NewPkt(fresh, replaced) = BufPkt /\ RingBuf(fresh, replaced) = fresh
  BY <1>1 DEF NewPkt, RingBuf
<1>6. \A s \in Slots : s # rxNextDescIndex => rxBufArray[s] # RingBuf(fresh, replaced)
  BY <1>1, <1>2, <1>3 DEF RingBuf, RingMbufs, BufPkt
<1>7. RingMbufs' = (RingMbufs \ {BufPkt}) \cup {RingBuf(fresh, replaced)}
  BY <1>1, <1>3, <1>4, <1>6 DEF RingMbufs, BufPkt
<1>8. \A s, t \in Slots : rxBufArray'[s] = rxBufArray'[t] => s = t
  BY <1>1, <1>3, <1>4, <1>6
<1> QED BY <1>1, <1>2, <1>5, <1>7, <1>8

(* A descriptor the NIC owns is as it was, or has just been given back. *)
LEMMA TakeBufferDesc ==
  ASSUME IInv, NEW fresh \in Mbufs, NEW replaced \in BOOLEAN,
         TakeBuffer(fresh, replaced), MbufsConserved'
  PROVE  DmaToRingOnly'
<1>1. /\ rxNextDescIndex \in Slots /\ rxBufArray \in [Slots -> Mbufs]
      /\ descAddr \in [Slots -> Mbufs] /\ descOwn \in [Slots -> BOOLEAN]
      /\ descEnd \in [Slots -> BOOLEAN]
  BY DEF IInv, TypeOK
<1>2. \A s \in Slots : rxBufArray'[s] \notin freeMbufs' \cup upstream' \cup PacketMbufs'
  BY DEF MbufsConserved, RingMbufs
<1>3. \A s \in Slots : descOwn'[s] => descAddr'[s] = rxBufArray'[s]
  BY <1>1 DEF IInv, DmaToRingOnly, TakeBuffer, NextDesc
<1>4. \A s \in Slots : descEnd'[s] <=> s = kRxLastDesc
  BY <1>1 DEF IInv, DmaToRingOnly, TakeBuffer, NextDesc
<1> QED BY <1>2, <1>3, <1>4 DEF DmaToRingOnly

(* The chain that a last fragment completes is one frame in its order.     *)
LEMMA DeliveredInOrder ==
  ASSUME IInv, HasPacket, Status.last, delivered' = Append(PacketFrags, Status)
  PROVE  delivered' \in Seq(Fragments) /\ OneFrameInOrder'
<1> DEFINE n == Len(rxPacket)
<1>1. /\ n \in Nat /\ DOMAIN rxPacket = 1 .. n
      /\ \A i \in 1 .. n : rxPacket[i][2] \in Fragments
  BY PacketShape DEF IInv
<1> HIDE DEF n
<1>2. PacketFrags = [i \in 1 .. n |-> rxPacket[i][2]]
  BY <1>1 DEF PacketFrags
<1>3. PacketFrags \in Seq(Fragments) /\ Len(PacketFrags) = n
  BY <1>1, <1>2
<1>4. Status \in Fragments
  BY StatusContinues
<1>5. /\ delivered' \in Seq(Fragments) /\ Len(delivered') = n + 1
      /\ DOMAIN delivered' = 1 .. n + 1
      /\ \A i \in 1 .. n : delivered'[i] = rxPacket[i][2]
      /\ delivered'[n + 1] = Status
  BY <1>1, <1>2, <1>3, <1>4
<1>6. \A i \in 1 .. n : /\ ~rxPacket[i][2].last
                        /\ rxPacket[i][2].frame = rxPacket[1][2].frame
                        /\ rxPacket[i][2].place = rxPacket[1][2].place + i - 1
  BY <1>1 DEF IInv, PacketInv
<1>7. CASE n = 0
  BY <1>4, <1>5, <1>7 DEF OneFrameInOrder, Fragments
<1>8. CASE n # 0
  <2>1. /\ 1 \in 1 .. n /\ delivered'[1] = rxPacket[1][2]
        /\ Status.frame = rxPacket[1][2].frame
        /\ Status.place = rxPacket[1][2].place + n
        /\ rxPacket[1][2].place \in Int
    BY <1>1, <1>5, <1>8, StatusContinues DEF Fragments
  <2>2. SUFFICES ASSUME NEW i \in 1 .. n + 1
        PROVE /\ delivered'[i].frame = delivered'[1].frame
              /\ delivered'[i].place = delivered'[1].place + i - 1
              /\ delivered'[i].last <=> i = n + 1
    BY <1>1, <1>5 DEF OneFrameInOrder
  <2>3. CASE i \in 1 .. n
    BY <1>1, <1>5, <1>6, <2>1, <2>3
  <2>4. CASE i = n + 1
    BY <1>1, <1>5, <2>1, <2>4
  <2>5. i \in 1 .. n \/ i = n + 1
    BY <1>1
  <2>6. QED BY <2>3, <2>4, <2>5, Zenon
<1> QED BY <1>5, <1>7, <1>8

(* A fragment is appended to the chain, and the chain delivered with the   *)
(* last one; its mbuf is replaced or copied.                               *)
LEMMA ReceiveFragmentIInv ==
  ASSUME IInv, NEW fresh \in Mbufs, NEW replaced \in BOOLEAN,
         ReceiveFragment(fresh, replaced)
  PROVE  IInv'
<1> DEFINE pkt == NewPkt(fresh, replaced)
           n == Len(rxPacket)
<1> USE RxRingAssumption
<1>1. /\ HasPacket /\ TakeBuffer(fresh, replaced) /\ ~Status.last
      /\ NextDesc(RingBuf(fresh, replaced))
      /\ rxPacket' = Append(rxPacket, <<pkt, Status>>)
      /\ freeMbufs' = freeMbufs \ {fresh} /\ csumMbuf' = NoMbuf
      /\ upstream' = upstream /\ delivered' = delivered /\ UNCHANGED nicVars
  BY DEF ReceiveFragment, TakeBuffer
<1>2. /\ n \in Nat /\ DOMAIN rxPacket = 1 .. n
      /\ \A i \in 1 .. n : /\ rxPacket[i][1] \in Mbufs
                            /\ rxPacket[i][2] \in Fragments
      /\ rxPacket \in Seq(Mbufs \X Fragments)
  BY PacketShape DEF IInv
<1> HIDE DEF n
<1>3. /\ pkt \in Mbufs /\ RingBuf(fresh, replaced) \in Mbufs
      /\ Status \in Fragments /\ Status.place < MaxFrags
  BY <1>1, TakeBufferMbufs, StatusContinues
<1>4. /\ rxPacket' \in Seq(Mbufs \X Fragments) /\ Len(rxPacket') = n + 1
      /\ DOMAIN rxPacket' = 1 .. n + 1
      /\ \A i \in 1 .. n : rxPacket'[i] = rxPacket[i]
      /\ rxPacket'[n + 1] = <<pkt, Status>>
  BY <1>1, <1>2, <1>3
<1>5. PacketMbufs' = PacketMbufs \cup {pkt}
  <2>1. PacketMbufs = {rxPacket[i][1] : i \in 1 .. n}
    BY <1>2 DEF PacketMbufs
  <2>2. PacketMbufs' = {rxPacket'[i][1] : i \in 1 .. n + 1}
    BY <1>4 DEF PacketMbufs
  <2>3. /\ \A i \in 1 .. n : rxPacket'[i][1] = rxPacket[i][1]
        /\ rxPacket'[n + 1][1] = pkt
        /\ \A i \in 1 .. n + 1 : i \in 1 .. n \/ i = n + 1
        /\ \A i \in 1 .. n : i \in 1 .. n + 1
        /\ n + 1 \in 1 .. n + 1
    BY <1>2, <1>4
  <2>4. PacketMbufs' \subseteq PacketMbufs \cup {pkt}
    BY <2>1, <2>2, <2>3
  <2>5. PacketMbufs \cup {pkt} \subseteq PacketMbufs'
    BY <2>1, <2>2, <2>3
  <2>6. QED BY <2>4, <2>5
<1>6. OffInv' /\ WindowInv' /\ FragInv' /\ ChainInv'
  BY <1>1, <1>3, NextDescOrder
<1>7. MbufsConserved'
  <2>1. \A i \in 1 .. n : rxPacket[i][1] # pkt
    <3>1. pkt \in {fresh, BufPkt}
      BY DEF NewPkt
    <3>2. fresh \notin PacketMbufs /\ BufPkt \notin PacketMbufs
      BY <1>1, TakeBufferMbufs
    <3>3. QED BY <1>2, <3>1, <3>2 DEF PacketMbufs
  <2>2. \A i, j \in DOMAIN rxPacket' : rxPacket'[i][1] = rxPacket'[j][1] => i = j
    <3>1. \A i, j \in 1 .. n : rxPacket[i][1] = rxPacket[j][1] => i = j
      BY <1>2 DEF IInv, MbufsConserved
    <3>2. QED BY <1>2, <1>4, <2>1, <3>1
  <2> HIDE DEF pkt
  <2>3. /\ RingMbufs' = (RingMbufs \ {BufPkt}) \cup {RingBuf(fresh, replaced)}
        /\ \/ pkt = fresh /\ RingBuf(fresh, replaced) = BufPkt
           \/ pkt = BufPkt /\ RingBuf(fresh, replaced) = fresh
        /\ fresh # BufPkt /\ fresh \in freeMbufs /\ BufPkt \in RingMbufs
        /\ fresh \notin RingMbufs \cup PacketMbufs \cup upstream
        /\ BufPkt \notin PacketMbufs \cup upstream \cup freeMbufs
        /\ \A s, t \in Slots : rxBufArray'[s] = rxBufArray'[t] => s = t
    BY <1>1, TakeBufferMbufs DEF pkt
  <2>4. RingMbufs \cap (PacketMbufs \cup upstream \cup freeMbufs) = {}
        /\ PacketMbufs \cap (upstream \cup freeMbufs) = {}
        /\ upstream \cap freeMbufs = {}
        /\ RingMbufs \cup PacketMbufs \cup upstream \cup freeMbufs = Mbufs
    BY DEF IInv, MbufsConserved
  <2>5. /\ RingMbufs' \cap (PacketMbufs' \cup upstream' \cup freeMbufs') = {}
        /\ PacketMbufs' \cap (upstream' \cup freeMbufs') = {}
        /\ upstream' \cap freeMbufs' = {}
    BY <1>1, <1>5, <2>3, <2>4
  <2>6. RingMbufs' \cup PacketMbufs' \cup upstream' \cup freeMbufs' = Mbufs
    BY <1>1, <1>5, <2>3, <2>4
  <2>7. QED BY <2>2, <2>3, <2>5, <2>6 DEF MbufsConserved
<1>8. DmaToRingOnly'
  BY <1>1, <1>7, TakeBufferDesc
<1>9. OneFrameInOrder'
  BY <1>1 DEF IInv, OneFrameInOrder
<1>10. PacketInv'
  <2>1. rxPacket'[1][2] = IF n = 0 THEN Status ELSE rxPacket[1][2]
    BY <1>2, <1>4
  <2>2. /\ rxPacket'[1][2].frame = Status.frame
        /\ rxPacket'[1][2].place + n = Status.place
        /\ rxPacket'[1][2].place \in Int
    BY <1>1, <1>2, <1>3, <2>1, StatusContinues DEF Fragments
  <2>3. \A i \in DOMAIN rxPacket' :
          /\ ~rxPacket'[i][2].last
          /\ rxPacket'[i][2].frame = rxPacket'[1][2].frame
          /\ rxPacket'[i][2].place = rxPacket'[1][2].place + i - 1
    BY <1>1, <1>2, <1>4, <2>1, <2>2 DEF IInv, PacketInv
  <2>4. LET s == rxNextDescIndex IN
        /\ s \in Slots /\ ~descOwn[s] /\ rxNextDescIndex' = NextSlot(s)
        /\ NextSlot(s) \in Slots
        /\ descOwn' = [descOwn EXCEPT ![s] = TRUE]
        /\ descFrag' = [descFrag EXCEPT ![s] = NoFrag]
        /\ descOwn \in [Slots -> BOOLEAN]
        /\ descFrag \in [Slots -> Fragments \cup {NoFrag}]
    BY <1>1, StepSlot DEF NextDesc, IInv, TypeOK, HasPacket
  <2>5. IF NextSlot(rxNextDescIndex) = nicIndex
          THEN nicFrame = Status.frame /\ nicPlace = Status.place
          ELSE /\ descFrag[NextSlot(rxNextDescIndex)].frame = Status.frame
               /\ descFrag[NextSlot(rxNextDescIndex)].place = Status.place + 1
    BY <1>1, <2>4 DEF IInv, ChainInv, Status
  <2>6. descOwn'[rxNextDescIndex'] <=> NextSlot(rxNextDescIndex) = nicIndex
    <3>1. WindowInv /\ nicIndex \in Slots
      BY DEF IInv, TypeOK
    <3>2. QED
      BY <2>4, <3>1 DEF WindowInv, Ahead, NextSlot, Slots, kRxLastDesc
  <2>7. CASE NextSlot(rxNextDescIndex) = nicIndex
    BY <1>1, <1>2, <1>4, <2>2, <2>3, <2>4, <2>5, <2>6, <2>7
    DEF PacketInv, nicVars
  <2>8. CASE NextSlot(rxNextDescIndex) # nicIndex
    <3>1. NextSlot(rxNextDescIndex) # rxNextDescIndex
      BY <2>4, <2>6, <2>8
    <3>2. Status' = descFrag[NextSlot(rxNextDescIndex)]
      BY <2>4, <3>1 DEF Status
    <3>3. QED
      BY <1>2, <1>4, <2>2, <2>3, <2>5, <2>6, <2>8, <3>2 DEF PacketInv
  <2>9. QED BY <2>7, <2>8
<1>11. TypeOK'
  <2>1. Len(rxPacket') < MaxFrags
    BY <1>1, <1>2, <1>3, <1>4, StatusContinues DEF Fragments
  <2>2. QED BY <1>1, <1>3, <1>4, <2>1, StepSlot
        DEF IInv, TypeOK, TakeBuffer, NextDesc, nicVars
<1> QED BY <1>6, <1>7, <1>8, <1>9, <1>10, <1>11 DEF IInv

(* DropFcs and ReceiveLast differ in where the last packet goes. *)
LEMMA LastFragmentIInv ==
  ASSUME IInv, NEW fresh \in Mbufs, NEW replaced \in BOOLEAN,
         DropFcs(fresh, replaced) \/ ReceiveLast(fresh, replaced)
  PROVE  IInv'
<1> DEFINE pkt == NewPkt(fresh, replaced)
           buf == RingBuf(fresh, replaced)
<1> USE RxRingAssumption
<1>1. /\ HasPacket /\ TakeBuffer(fresh, replaced) /\ Status.last
      /\ NextDesc(buf)
      /\ rxPacket' = <<>> /\ csumMbuf' = pkt
      /\ \/ /\ freeMbufs' = (freeMbufs \ {fresh}) \cup {pkt}
            /\ upstream' = upstream \cup PacketMbufs
         \/ /\ freeMbufs' = freeMbufs \ {fresh}
            /\ upstream' = upstream \cup PacketMbufs \cup {pkt}
      /\ delivered' = Append(PacketFrags, Status) /\ UNCHANGED nicVars
  BY DEF DropFcs, ReceiveLast, TakeBuffer
<1>2. /\ pkt \in Mbufs /\ buf \in Mbufs /\ PacketMbufs \subseteq Mbufs
      /\ RingMbufs' = (RingMbufs \ {BufPkt}) \cup {buf}
      /\ \/ pkt = fresh /\ buf = BufPkt
         \/ pkt = BufPkt /\ buf = fresh
      /\ fresh # BufPkt /\ fresh \in freeMbufs /\ BufPkt \in RingMbufs
      /\ fresh \notin RingMbufs \cup PacketMbufs \cup upstream
      /\ BufPkt \notin PacketMbufs \cup upstream \cup freeMbufs
      /\ \A s, t \in Slots : rxBufArray'[s] = rxBufArray'[t] => s = t
  BY <1>1, TakeBufferMbufs, PacketShape DEF IInv
<1>3. PacketMbufs' = {}
  BY <1>1 DEF PacketMbufs
<1>4. OffInv' /\ WindowInv' /\ FragInv' /\ ChainInv'
  BY <1>1, <1>2, NextDescOrder
<1>5. delivered' \in Seq(Fragments) /\ OneFrameInOrder'
  BY <1>1, DeliveredInOrder
<1>6. MbufsConserved'
  <2> HIDE DEF pkt, buf
  <2>1. RingMbufs \cap (PacketMbufs \cup upstream \cup freeMbufs) = {}
        /\ PacketMbufs \cap (upstream \cup freeMbufs) = {}
        /\ upstream \cap freeMbufs = {}
        /\ RingMbufs \cup PacketMbufs \cup upstream \cup freeMbufs = Mbufs
    BY DEF IInv, MbufsConserved
  <2>2. /\ RingMbufs' \cap (PacketMbufs' \cup upstream' \cup freeMbufs') = {}
        /\ PacketMbufs' \cap (upstream' \cup freeMbufs') = {}
        /\ upstream' \cap freeMbufs' = {}
    BY <1>1, <1>2, <1>3, <2>1
  <2>3. RingMbufs' \cup PacketMbufs' \cup upstream' \cup freeMbufs' = Mbufs
    BY <1>1, <1>2, <1>3, <2>1
  <2>4. QED BY <1>1, <1>2, <2>2, <2>3 DEF MbufsConserved
<1>7. DmaToRingOnly'
  BY <1>1, <1>6, TakeBufferDesc
<1>8. PacketInv'
  BY <1>1 DEF PacketInv
<1>9. TypeOK'
  BY <1>1, <1>2, <1>5, StepSlot DEF IInv, TypeOK, TakeBuffer, NextDesc, nicVars
<1> QED BY <1>4, <1>5, <1>6, <1>7, <1>8, <1>9 DEF IInv

(* The network stack frees an mbuf it was given.                           *)
LEMMA StackFreeIInv ==
  ASSUME IInv, NEW m \in Mbufs, StackFree(m)
  PROVE  IInv'
<1> USE RxRingAssumption DEF IInv, StackFree, descVars, nicVars
<1>1. PacketMbufs' = PacketMbufs /\ RingMbufs' = RingMbufs /\ Status' = Status
  BY DEF PacketMbufs, RingMbufs, Status
<1>2. TypeOK'
  BY DEF TypeOK
<1>3. DmaToRingOnly'
  BY <1>1 DEF DmaToRingOnly
<1>4. MbufsConserved'
  BY <1>1 DEF MbufsConserved
<1>5. OneFrameInOrder'
  BY DEF OneFrameInOrder
<1>6. OffInv' /\ WindowInv' /\ FragInv'
  BY DEF OffInv, WindowInv, Ahead, FragInv
<1>7. ChainInv' /\ PacketInv'
  BY <1>1 DEF ChainInv, PacketInv
<1> QED BY <1>2, <1>3, <1>4, <1>5, <1>6, <1>7

(* A link that goes down discards the chain and gives the ring to the NIC. *)
LEMMA SetLinkDownIInv ==
  ASSUME IInv, SetLinkDown
  PROVE  IInv'
<1> USE RxRingAssumption DEF SetLinkDown, DiscardPacketFragment
<1>1. /\ PacketMbufs \subseteq Mbufs /\ RingMbufs' = RingMbufs
      /\ PacketMbufs' = {} /\ 0 \in Slots
  BY PacketShape DEF IInv, PacketMbufs, RingMbufs, Slots
<1>2. TypeOK'
  <2>1. /\ descOwn' \in [Slots -> BOOLEAN] /\ descEnd' \in [Slots -> BOOLEAN]
        /\ descAddr' \in [Slots -> Mbufs]
        /\ descFrag' \in [Slots -> Fragments \cup {NoFrag}]
    BY DEF IInv, TypeOK
  <2>2. rxPacket' \in Seq(Mbufs \X Fragments) /\ Len(rxPacket') = 0
    OBVIOUS
  <2>3. 0 < MaxFrags /\ 0 \in 0 .. MaxFrags - 1 /\ NoMbuf \in Mbufs \cup {NoMbuf}
    OBVIOUS
  <2>4. TypeOK
    BY DEF IInv
  <2>5. freeMbufs' \subseteq Mbufs
    BY <1>1, <2>4 DEF TypeOK
  <2>6. Len(rxPacket') < MaxFrags
    BY <2>2, <2>3
  <2>7. QED BY <1>1, <2>1, <2>2, <2>3, <2>4, <2>5, <2>6, Zenon DEF TypeOK
<1>3. MbufsConserved'
  BY <1>1 DEF IInv, MbufsConserved
<1>4. DmaToRingOnly'
  BY <1>1, <1>3 DEF DmaToRingOnly, MbufsConserved, RingMbufs
<1>5. OneFrameInOrder'
  BY DEF IInv, OneFrameInOrder
<1>6. OffInv' /\ WindowInv' /\ FragInv' /\ ChainInv' /\ PacketInv'
  BY DEF OffInv, WindowInv, FragInv, ChainInv, PacketInv
<1> QED BY <1>2, <1>3, <1>4, <1>5, <1>6 DEF IInv

(* A link that comes up finds the ring as the link down left it.           *)
LEMMA SetLinkUpIInv ==
  ASSUME IInv, SetLinkUp
  PROVE  IInv'
<1> USE RxRingAssumption DEF SetLinkUp, descVars
<1>1. /\ ~rxEnabled /\ rxPacket = <<>> /\ rxNextDescIndex = 0 /\ nicIndex = 0
      /\ \A s \in Slots : descOwn[s]
  BY DEF IInv, OffInv
<1>2. /\ UNCHANGED <<descVars, rxBufArray, rxNextDescIndex, rxPacket, freeMbufs,
                     upstream, delivered, nicIndex>>
      /\ PacketMbufs' = PacketMbufs /\ RingMbufs' = RingMbufs
  BY <1>1 DEF PacketMbufs, RingMbufs
<1>3. TypeOK'
  BY <1>2 DEF IInv, TypeOK
<1>4. DmaToRingOnly' /\ MbufsConserved' /\ OneFrameInOrder'
  BY <1>2 DEF IInv, DmaToRingOnly, MbufsConserved, OneFrameInOrder
<1>5. OffInv' /\ WindowInv' /\ FragInv' /\ ChainInv' /\ PacketInv'
  BY <1>1, <1>2 DEF OffInv, WindowInv, FragInv, ChainInv, PacketInv
<1> QED BY <1>3, <1>4, <1>5 DEF IInv

(* initRxMap() and setupRxRing() establish the invariant.                  *)
LEMMA InitIInv == Init /\ LinkFlaps = FALSE => IInv
<1> SUFFICES ASSUME Init, LinkFlaps = FALSE PROVE IInv
  OBVIOUS
<1> USE RxRingAssumption DEF Init
<1>1. 0 \in Slots /\ PacketMbufs = {} /\ RingMbufs \subseteq Mbufs
      /\ freeMbufs = Mbufs \ RingMbufs
  BY DEF Slots, PacketMbufs, RingMbufs
<1>2. TypeOK
  BY <1>1 DEF TypeOK, Slots
<1>3. MbufsConserved
  BY <1>1 DEF MbufsConserved
<1>4. DmaToRingOnly
  BY <1>1 DEF DmaToRingOnly, RingMbufs
<1>5. OneFrameInOrder
  BY DEF OneFrameInOrder
<1>6. OffInv /\ WindowInv /\ FragInv /\ ChainInv /\ PacketInv
  BY DEF OffInv, WindowInv, FragInv, ChainInv, PacketInv
<1> QED BY <1>2, <1>3, <1>4, <1>5, <1>6 DEF IInv

-----------------------------------------------------------------------------
(* The theorems.                                                           *)

(* Every action preserves it.                                              *)
LEMMA NextIInv == IInv /\ [Next]_vars => IInv'
<1> SUFFICES ASSUME IInv, [Next]_vars PROVE IInv'
  OBVIOUS
<1>1. CASE NicReceive
  BY <1>1, NicReceiveIInv
<1>2. CASE DropFragment
  BY <1>2, DropFragmentIInv
<1>3. ASSUME NEW fresh \in Mbufs, NEW replaced \in BOOLEAN,
             ReceiveFragment(fresh, replaced)
      PROVE  IInv'
  BY <1>3, ReceiveFragmentIInv
<1>4. ASSUME NEW fresh \in Mbufs, NEW replaced \in BOOLEAN,
             DropFcs(fresh, replaced) \/ ReceiveLast(fresh, replaced)
      PROVE  IInv'
  BY <1>4, LastFragmentIInv
<1>5. CASE SetLinkDown
  BY <1>5, SetLinkDownIInv
<1>6. CASE SetLinkUp
  BY <1>6, SetLinkUpIInv
<1>7. ASSUME NEW m \in Mbufs, StackFree(m)
      PROVE  IInv'
  BY <1>7, StackFreeIInv
<1>8. CASE UNCHANGED vars
  <2> USE <1>8 DEF vars, descVars, nicVars, IInv
  <2>1. PacketMbufs' = PacketMbufs /\ RingMbufs' = RingMbufs /\ Status' = Status
    BY DEF PacketMbufs, RingMbufs, Status
  <2>2. TypeOK' /\ DmaToRingOnly' /\ MbufsConserved' /\ OneFrameInOrder'
    BY <2>1 DEF TypeOK, DmaToRingOnly, MbufsConserved, OneFrameInOrder
  <2>3. OffInv' /\ WindowInv' /\ FragInv'
    BY DEF OffInv, WindowInv, Ahead, FragInv
  <2>4. ChainInv' /\ PacketInv'
    BY <2>1 DEF ChainInv, PacketInv
  <2>5. QED BY <2>2, <2>3, <2>4
<1> QED BY <1>1, <1>2, <1>3, <1>4, <1>5, <1>6, <1>7, <1>8 DEF Next, RxInterrupt

(* IInv holds in every state of a run in which LinkChg reports changes only. *)
THEOREM Invariant == LinkFlaps = FALSE /\ Spec => []IInv
BY InitIInv, NextIInv, PTL DEF Spec

(* Every variable keeps its type; an unfinished frame is shorter than the  *)
(* largest one.                                                            *)
THEOREM TypeCorrect == LinkFlaps = FALSE /\ Spec => []TypeOK
<1>1. IInv => TypeOK
  BY DEF IInv
<1> QED BY <1>1, Invariant, PTL

(* The NIC writes only to the mbuf recorded for a descriptor of the ring,  *)
(* never to one the stack, the allocator or the unfinished frame has.      *)
THEOREM DmaSafe == LinkFlaps = FALSE /\ Spec => []DmaToRingOnly
<1>1. IInv => DmaToRingOnly
  BY DEF IInv
<1> QED BY <1>1, Invariant, PTL

(* No mbuf is lost and none is in two places, whatever fails in            *)
(* rxInterrupt and whenever the link goes.                                 *)
THEOREM NoMbufLost == LinkFlaps = FALSE /\ Spec => []MbufsConserved
<1>1. IInv => MbufsConserved
  BY DEF IInv
<1> QED BY <1>1, Invariant, PTL

(* A packet handed to the stack never mixes two frames and misses no       *)
(* fragment between its first and its last.                                *)
THEOREM FramesNotMixed == LinkFlaps = FALSE /\ Spec => []OneFrameInOrder
<1>1. IInv => OneFrameInOrder
  BY DEF IInv
<1> QED BY <1>1, Invariant, PTL
=============================================================================
