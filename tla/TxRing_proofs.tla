---------------------------- MODULE TxRing_proofs ----------------------------
(***************************************************************************)
(* Safety of the transmit ring for every ring size, packet size, pointer   *)
(* width and set of packets, when LinkChg never reports "up" while the     *)
(* link is up.  IInv is the inductive invariant.                           *)
(***************************************************************************)
EXTENDS TxMap, FiniteSetTheorems, SequenceTheorems, TLAPS

-----------------------------------------------------------------------------
(* The inductive invariant.                                                *)

(* Where outputStart is decides what its locals mean. *)
OutInv ==
  /\ outPc \in {"map", "publish", "fill"} <=> outPkt # NoMbuf
  /\ outPc = "map" => txNumFreeDesc > kMinFreeDescs
  /\ outPc = "publish" => outSegs >= 1
  /\ outPc = "fill" => /\ outDone < outSegs
                       /\ Ahead(outIndex, txDirtyDescIndex) + outSegs - outDone
                            = InFlight
  /\ ~linkUp => outPc = "idle" /\ InFlight = 0
  /\ txNumFreeDesc > kMinFreeDescs - kMaxSegs

(* The NIC is between the reclaimed and the filled descriptors, and its    *)
(* close pointer counts what it sent since the last reclaim.               *)
NicInv ==
  /\ Ahead(nicIndex, txDirtyDescIndex) <= Ahead(FilledEnd, txDirtyDescIndex)
  /\ Wrap(hwClosePtr - txClosePtr0, TxPtrMod) + rclLeft
       = Ahead(nicIndex, txDirtyDescIndex)
  /\ rclPc = "idle" => rclLeft = 0

(* The NIC owns exactly the descriptors filled and not sent. *)
OwnInv ==
  \A s \in Slots :
    descOwn[s] <=>
      /\ Ahead(nicIndex, txDirtyDescIndex) <= Ahead(s, txDirtyDescIndex)
      /\ Ahead(s, txDirtyDescIndex) < Ahead(FilledEnd, txDirtyDescIndex)

(* Mbufs are recorded only for descriptors filled and not reclaimed. *)
BufInv ==
  \A s \in Slots :
    txBufArray[s] # NoMbuf =>
      Ahead(s, txDirtyDescIndex) < Ahead(FilledEnd, txDirtyDescIndex)

IInv ==
  /\ LinkFlaps = FALSE
  /\ TypeOK /\ Accounting /\ OutInv /\ NicInv /\ OwnInv /\ BufInv
  /\ EachMbufOnce

-----------------------------------------------------------------------------
(* One lemma per action: it preserves each conjunct of the invariant.      *)

(* The empty ring has the invariant.                                       *)
LEMMA InitIInv == Init /\ LinkFlaps = FALSE => IInv
<1> SUFFICES ASSUME Init, LinkFlaps = FALSE PROVE IInv
  OBVIOUS
<1> USE TxRingAssumption
    DEF Init, InFlight, Reserved, Ahead, Wrap, FilledEnd, Slots
<1>1. TypeOK
  <2>1. /\ kNumTxDesc \in 0 .. kNumTxDesc /\ 0 \in 0 .. kNumTxDesc - 1
        /\ 0 \in 0 .. TxPtrMod - 1 /\ 0 \in 0 .. kMaxSegs
    OBVIOUS
  <2>2. QED BY <2>1, Zenon DEF TypeOK
<1>2. Accounting
  BY DEF Accounting
<1>3. OutInv
  BY DEF OutInv
<1>4. NicInv
  BY DEF NicInv
<1>5. OwnInv
  BY DEF OwnInv
<1>6. BufInv
  BY DEF BufInv
<1>7. EachMbufOnce
  BY DEF EachMbufOnce
<1> QED BY <1>1, <1>2, <1>3, <1>4, <1>5, <1>6, <1>7 DEF IInv

(* The actions of outputStart(), the NIC and txInterrupt(), each with the  *)
(* conjuncts it disturbs as steps of their own.                            *)
LEMMA OutputStartIInv ==
  ASSUME IInv, OutputStart
  PROVE  IInv'
<1> USE TxRingAssumption
    DEF IInv, TypeOK, OutputStart, ringVars, nicVars, rclVars, InFlight,
        Reserved, Ahead, Wrap, FilledEnd, Slots
<1>1. TypeOK'
  BY DEF TypeOK
<1>2. Accounting'
  BY DEF Accounting
<1>3. OutInv'
  BY DEF OutInv
<1>4. NicInv'
  BY DEF NicInv
<1>5. OwnInv'
  BY DEF OwnInv
<1>6. BufInv'
  BY DEF BufInv
<1>7. EachMbufOnce'
  BY DEF EachMbufOnce
<1> QED BY <1>1, <1>2, <1>3, <1>4, <1>5, <1>6, <1>7

LEMMA DequeueIInv ==
  ASSUME IInv, NEW p \in Packets, Dequeue(p)
  PROVE  IInv'
<1> USE TxRingAssumption
    DEF IInv, TypeOK, Dequeue, RoomForPacket, ringVars, nicVars, rclVars,
        InFlight, Reserved, Ahead, Wrap, FilledEnd, Slots
<1>1. TypeOK'
  BY DEF TypeOK
<1>2. Accounting'
  BY DEF Accounting
<1>3. OutInv'
  BY DEF OutInv
<1>4. NicInv'
  BY DEF NicInv
<1>5. OwnInv'
  BY DEF OwnInv
<1>6. BufInv'
  BY DEF BufInv
<1>7. EachMbufOnce'
  BY DEF EachMbufOnce, OutInv
<1> QED BY <1>1, <1>2, <1>3, <1>4, <1>5, <1>6, <1>7

LEMMA DropPacketIInv ==
  ASSUME IInv, DropPacket
  PROVE  IInv'
<1> USE TxRingAssumption
    DEF IInv, TypeOK, DropPacket, ringVars, nicVars, rclVars, InFlight,
        Reserved, Ahead, Wrap, FilledEnd, Slots
<1>1. TypeOK'
  BY DEF TypeOK
<1>2. Accounting'
  BY DEF Accounting
<1>3. OutInv'
  BY DEF OutInv
<1>4. NicInv'
  BY DEF NicInv
<1>5. OwnInv'
  BY DEF OwnInv
<1>6. BufInv'
  BY DEF BufInv
<1>7. EachMbufOnce'
  BY DEF EachMbufOnce
<1> QED BY <1>1, <1>2, <1>3, <1>4, <1>5, <1>6, <1>7

LEMMA ReserveIInv ==
  ASSUME IInv, NEW n \in 1 .. kMaxSegs, Reserve(n)
  PROVE  IInv'
<1> USE TxRingAssumption
    DEF IInv, TypeOK, Reserve, nicVars, rclVars, InFlight, Reserved, Ahead,
        Wrap, FilledEnd, Slots
<1>1. TypeOK'
  BY DEF TypeOK, OutInv
<1>2. Accounting'
  BY DEF Accounting
<1>3. OutInv'
  BY DEF OutInv
<1>4. NicInv'
  BY DEF NicInv
<1>5. OwnInv'
  BY DEF OwnInv
<1>6. BufInv'
  BY DEF BufInv
<1>7. EachMbufOnce'
  BY DEF EachMbufOnce
<1> QED BY <1>1, <1>2, <1>3, <1>4, <1>5, <1>6, <1>7

LEMMA PublishIInv ==
  ASSUME IInv, Publish
  PROVE  IInv'
<1> USE TxRingAssumption
    DEF IInv, TypeOK, Publish, nicVars, rclVars, InFlight, Reserved, Ahead,
        Wrap, FilledEnd, Slots
<1>1. TypeOK'
  BY DEF TypeOK
<1>2. Accounting'
  BY DEF Accounting, OutInv
<1>3. OutInv'
  BY DEF OutInv, Accounting
<1>4. NicInv'
  BY DEF NicInv
<1>5. OwnInv'
  BY DEF OwnInv
<1>6. BufInv'
  BY DEF BufInv
<1>7. EachMbufOnce'
  BY DEF EachMbufOnce
<1> QED BY <1>1, <1>2, <1>3, <1>4, <1>5, <1>6, <1>7

LEMMA FillDescIInv ==
  ASSUME IInv, FillDesc
  PROVE  IInv'
<1> USE TxRingAssumption
    DEF IInv, TypeOK, FillDesc, MbufAt, ringVars, nicVars, rclVars,
        InFlight, Reserved, Ahead, Wrap, FilledEnd, Slots
<1>1. TypeOK'
  BY DEF TypeOK, OutInv
<1>2. Accounting'
  BY DEF Accounting
<1>3. OutInv'
  BY DEF OutInv
<1>4. NicInv'
  BY DEF NicInv, OutInv
<1>5. OwnInv'
  BY DEF OwnInv, OutInv, NicInv
<1>6. BufInv'
  BY DEF BufInv, OutInv
<1>7. EachMbufOnce'
  BY DEF EachMbufOnce, BufInv
<1> QED BY <1>1, <1>2, <1>3, <1>4, <1>5, <1>6, <1>7

LEMMA LeaveLoopIInv ==
  ASSUME IInv, LeaveLoop
  PROVE  IInv'
<1> USE TxRingAssumption
    DEF IInv, TypeOK, LeaveLoop, KickNic, ringVars, rclVars, InFlight,
        Reserved, Ahead, Wrap, FilledEnd, Slots
<1>1. TypeOK'
  BY DEF TypeOK
<1>2. Accounting'
  BY DEF Accounting
<1>3. OutInv'
  BY DEF OutInv
<1>4. NicInv'
  BY DEF NicInv
<1>5. OwnInv'
  BY DEF OwnInv
<1>6. BufInv'
  BY DEF BufInv
<1>7. EachMbufOnce'
  BY DEF EachMbufOnce
<1> QED BY <1>1, <1>2, <1>3, <1>4, <1>5, <1>6, <1>7

LEMMA OutputReturnIInv ==
  ASSUME IInv, OutputReturn
  PROVE  IInv'
<1> USE TxRingAssumption
    DEF IInv, TypeOK, OutputReturn, RoomForPacket, ringVars, nicVars,
        rclVars, InFlight, Reserved, Ahead, Wrap, FilledEnd, Slots
<1>1. TypeOK'
  BY DEF TypeOK
<1>2. Accounting'
  BY DEF Accounting
<1>3. OutInv'
  BY DEF OutInv
<1>4. NicInv'
  BY DEF NicInv
<1>5. OwnInv'
  BY DEF OwnInv
<1>6. BufInv'
  BY DEF BufInv
<1>7. EachMbufOnce'
  BY DEF EachMbufOnce
<1> QED BY <1>1, <1>2, <1>3, <1>4, <1>5, <1>6, <1>7

LEMMA NicSendIInv ==
  ASSUME IInv, NicSend
  PROVE  IInv'
<1> USE TxRingAssumption
    DEF IInv, TypeOK, NicSend, ringVars, outVars, rclVars, InFlight,
        Reserved, Ahead, Wrap, FilledEnd, Slots
<1>1. TypeOK'
  BY DEF TypeOK
<1>2. Accounting'
  BY DEF Accounting
<1>3. OutInv'
  BY DEF OutInv
<1>4. NicInv'
  BY DEF NicInv, OwnInv
<1>5. OwnInv'
  BY DEF OwnInv
<1>6. BufInv'
  BY DEF BufInv
<1>7. EachMbufOnce'
  BY DEF EachMbufOnce
<1> QED BY <1>1, <1>2, <1>3, <1>4, <1>5, <1>6, <1>7

LEMMA NicStopIInv ==
  ASSUME IInv, NicStop
  PROVE  IInv'
<1> USE TxRingAssumption
    DEF IInv, TypeOK, NicStop, ringVars, outVars, rclVars, InFlight,
        Reserved, Ahead, Wrap, FilledEnd, Slots
<1>1. TypeOK'
  BY DEF TypeOK
<1>2. Accounting'
  BY DEF Accounting
<1>3. OutInv'
  BY DEF OutInv
<1>4. NicInv'
  BY DEF NicInv
<1>5. OwnInv'
  BY DEF OwnInv
<1>6. BufInv'
  BY DEF BufInv
<1>7. EachMbufOnce'
  BY DEF EachMbufOnce
<1> QED BY <1>1, <1>2, <1>3, <1>4, <1>5, <1>6, <1>7

LEMMA TxInterruptIInv ==
  ASSUME IInv, TxInterrupt
  PROVE  IInv'
<1> USE TxRingAssumption
    DEF IInv, TypeOK, TxInterrupt, NumDone, UnmaskedInFlight, nicVars,
        outVars, InFlight, Reserved, Ahead, Wrap, FilledEnd, Slots
<1>1. TypeOK'
  <2>1. NumDone \in 0 .. kNumTxDesc - 1
    BY DEF NicInv
  <2>2. Wrap(txClosePtr0 + NumDone, TxPtrMod) \in 0 .. TxPtrMod - 1
    BY <2>1
  <2> HIDE DEF NumDone, Wrap, Ahead, InFlight, UnmaskedInFlight
  <2>3. QED BY <2>1, <2>2
<1>2. Accounting'
  BY DEF Accounting, OutInv, NicInv
<1>3. OutInv'
  BY DEF OutInv
<1>4. NicInv'
  BY DEF NicInv
<1>5. OwnInv'
  BY DEF OwnInv
<1>6. BufInv'
  BY DEF BufInv
<1>7. EachMbufOnce'
  BY DEF EachMbufOnce
<1> QED BY <1>1, <1>2, <1>3, <1>4, <1>5, <1>6, <1>7

LEMMA ReclaimIInv ==
  ASSUME IInv, Reclaim
  PROVE  IInv'
<1> USE TxRingAssumption
    DEF IInv, TypeOK, Reclaim, nicVars, outVars, InFlight, Reserved, Ahead,
        Wrap, FilledEnd, Slots
<1>1. TypeOK'
  BY DEF TypeOK, Accounting
<1>2. Accounting'
  BY DEF Accounting
<1>3. OutInv'
  BY DEF OutInv, NicInv
<1>4. NicInv'
  BY DEF NicInv
<1>5. OwnInv'
  BY DEF OwnInv, NicInv
<1>6. BufInv'
  BY DEF BufInv
<1>7. EachMbufOnce'
  BY DEF EachMbufOnce
<1> QED BY <1>1, <1>2, <1>3, <1>4, <1>5, <1>6, <1>7

LEMMA ReclaimDoneIInv ==
  ASSUME IInv, ReclaimDone
  PROVE  IInv'
<1> USE TxRingAssumption
    DEF IInv, TypeOK, ReclaimDone, WakeOutput, ringVars, nicVars, outVars,
        InFlight, Reserved, Ahead, Wrap, FilledEnd, Slots
<1>1. TypeOK'
  BY DEF TypeOK
<1>2. Accounting'
  BY DEF Accounting
<1>3. OutInv'
  BY DEF OutInv
<1>4. NicInv'
  BY DEF NicInv
<1>5. OwnInv'
  BY DEF OwnInv
<1>6. BufInv'
  BY DEF BufInv
<1>7. EachMbufOnce'
  BY DEF EachMbufOnce
<1> QED BY <1>1, <1>2, <1>3, <1>4, <1>5, <1>6, <1>7

(* txClearDescriptors() with nobody in outputStart() or txInterrupt()      *)
(* leaves every mbuf freed.                                                *)
LEMMA SetLinkDownIInv ==
  ASSUME IInv, SetLinkDown
  PROVE  IInv'
<1> USE TxRingAssumption
    DEF TypeOK, InFlight, Reserved, Ahead, Wrap, FilledEnd, Slots
(* No packet is in the hands of outputStart, so the ring holds them all. *)
<1>1. /\ LinkFlaps = FALSE /\ outPc = "idle" /\ outPkt = NoMbuf
      /\ rclPc = "idle" /\ rclLeft = 0
  BY DEF IInv, SetLinkDown, OutInv, NicInv
<1>2. /\ UNCHANGED <<outPc, outPkt, outSegs, outDone, outIndex, stalled,
                     signalled, rclPc, rclLeft, rclMoved>>
      /\ linkUp' = FALSE
      /\ nicIndex' = 0 /\ hwClosePtr' = 0
      /\ nicPolling' = FALSE
      /\ txNumFreeDesc' = kNumTxDesc
      /\ txNextDescIndex' = 0 /\ txDirtyDescIndex' = 0
      /\ txTailPtr0' = 0 /\ txClosePtr0' = 0
      /\ descOwn' = [s \in Slots |-> FALSE]
      /\ txBufArray' = [s \in Slots |-> NoMbuf]
  BY DEF SetLinkDown, NicReset, ResetIndices, outVars, rclVars
<1>3. mbufs' = {}
  <2>1. mbufs' = mbufs \ {txBufArray[s] : s \in Slots}
    BY DEF SetLinkDown
  <2>2. \A p \in mbufs : \E s \in Slots : txBufArray[s] = p
    BY <1>1 DEF IInv, EachMbufOnce
  <2>3. QED BY <2>1, <2>2, Zenon
<1>4. TypeOK'
  <2>1. /\ kNumTxDesc \in 0 .. kNumTxDesc /\ 0 \in 0 .. kNumTxDesc - 1
        /\ 0 \in 0 .. TxPtrMod - 1
    OBVIOUS
  <2>2. TypeOK
    BY DEF IInv
  <2>3. QED BY <1>2, <1>3, <2>1, <2>2, Zenon
<1>5. Accounting'
  BY <1>1, <1>2 DEF Accounting
<1>6. OutInv'
  BY <1>1, <1>2 DEF OutInv
<1>7. NicInv'
  BY <1>1, <1>2 DEF NicInv
<1>8. OwnInv'
  BY <1>1, <1>2 DEF OwnInv
<1>9. BufInv'
  BY <1>1, <1>2 DEF BufInv
<1>10. EachMbufOnce'
  BY <1>1, <1>2, <1>3 DEF EachMbufOnce
<1> QED BY <1>1, <1>4, <1>5, <1>6, <1>7, <1>8, <1>9, <1>10 DEF IInv

(* A link that comes up starts with both indices at zero.                  *)
LEMMA SetLinkUpIInv ==
  ASSUME IInv, SetLinkUp
  PROVE  IInv'
<1> USE TxRingAssumption
    DEF IInv, TypeOK, SetLinkUp, NicReset, ResetIndices, rclVars, InFlight,
        Reserved, Ahead, Wrap, FilledEnd, Slots
<1>1. TypeOK'
  <2>1. /\ kNumTxDesc \in 0 .. kNumTxDesc /\ 0 \in 0 .. kNumTxDesc - 1
        /\ 0 \in 0 .. TxPtrMod - 1
    OBVIOUS
  <2>2. QED BY <2>1, Zenon
<1>2. Accounting'
  BY DEF Accounting, OutInv
<1>3. OutInv'
  BY DEF OutInv
<1>4. NicInv'
  BY DEF NicInv
<1>5. OwnInv'
  BY DEF OwnInv, OutInv
<1>6. BufInv'
  BY DEF BufInv, OutInv
<1>7. EachMbufOnce'
  BY DEF EachMbufOnce
<1> QED BY <1>1, <1>2, <1>3, <1>4, <1>5, <1>6, <1>7

-----------------------------------------------------------------------------
(* Every action preserves the invariant.                                   *)
LEMMA NextIInv == IInv /\ [Next]_vars => IInv'
<1> SUFFICES ASSUME IInv, [Next]_vars PROVE IInv'
  OBVIOUS
<1>1. CASE OutputThread
  BY <1>1, OutputStartIInv, DequeueIInv, DropPacketIInv, ReserveIInv,
     PublishIInv, FillDescIInv, LeaveLoopIInv, OutputReturnIInv
  DEF OutputThread
<1>2. CASE Nic
  BY <1>2, NicSendIInv, NicStopIInv DEF Nic
<1>3. CASE Reclaimer
  BY <1>3, TxInterruptIInv, ReclaimIInv, ReclaimDoneIInv DEF Reclaimer
<1>4. CASE SetLinkDown
  BY <1>4, SetLinkDownIInv
<1>5. CASE SetLinkUp
  BY <1>5, SetLinkUpIInv
<1>6. CASE UNCHANGED vars
  BY <1>6 DEF vars, ringVars, nicVars, outVars, rclVars, IInv, TypeOK, Accounting,
     OutInv, NicInv, OwnInv, BufInv, EachMbufOnce, InFlight, Reserved, Ahead,
     FilledEnd
<1> QED BY <1>1, <1>2, <1>3, <1>4, <1>5, <1>6 DEF Next

(* The invariant holds in every reachable state. *)
THEOREM Inductive == Spec /\ LinkFlaps = FALSE => []IInv
<1> QED BY InitIInv, NextIInv, PTL DEF Spec

(* Every variable keeps its type: the indices stay in the ring, the free   *)
(* counter never leaves 0 .. kNumTxDesc (outputStart and txInterrupt       *)
(* change it from two threads).                                            *)
THEOREM TypeCorrect == Spec /\ LinkFlaps = FALSE => []TypeOK
<1>1. IInv => TypeOK
  BY DEF IInv
<1> QED BY <1>1, Inductive, PTL

(* The free counter, the indices and the tail and close pointers agree     *)
(* between any two steps of outputStart and txInterrupt.                   *)
THEOREM AccountingCorrect == Spec /\ LinkFlaps = FALSE => []Accounting
<1>1. IInv => Accounting
  BY DEF IInv
<1> QED BY <1>1, Inductive, PTL

(* outputStart's comment: the ring is never filled completely. *)
THEOREM RingNeverFull == Spec /\ LinkFlaps = FALSE => []NeverFull
<1>1. ASSUME IInv PROVE NeverFull
  <2> DEFINE s == Wrap(txDirtyDescIndex - 1, kNumTxDesc)
  <2> USE <1>1, TxRingAssumption DEF IInv, TypeOK, Ahead, Wrap, Slots, InFlight
  <2>1. s \in Slots /\ Ahead(s, txDirtyDescIndex) = kNumTxDesc - 1
    OBVIOUS
  <2>2. InFlight + Reserved < kNumTxDesc /\ Reserved >= 0
    BY DEF Accounting, OutInv, Reserved
  <2>3. Ahead(FilledEnd, txDirtyDescIndex) <= InFlight
    BY DEF OutInv, FilledEnd
  <2> HIDE DEF s, Ahead, InFlight
  <2>4. ~descOwn[s] /\ txBufArray[s] = NoMbuf
    <3>1. /\ kNumTxDesc \in Nat /\ InFlight \in Int /\ Reserved \in Int
          /\ Ahead(FilledEnd, txDirtyDescIndex) \in Int
      BY DEF Ahead, InFlight, Reserved, FilledEnd
    <3>2. ~(kNumTxDesc - 1 < Ahead(FilledEnd, txDirtyDescIndex))
      BY <2>2, <2>3, <3>1
    <3>3. QED BY <2>1, <3>2 DEF OwnInv, BufInv
  <2>5. QED
    <3>1. kNumTxDesc - 1 >= InFlight + Reserved
      BY <2>2 DEF Ahead, InFlight, Reserved
    <3>2. QED BY <2>1, <2>4, <3>1 DEF NeverFull
<1> QED BY <1>1, Inductive, PTL

(* outputStart never writes a descriptor that is still in use. *)
THEOREM NeverOverwrites == Spec /\ LinkFlaps = FALSE => []NoOverwrite
<1>1. ASSUME IInv PROVE NoOverwrite
  BY <1>1, TxRingAssumption
  DEF IInv, TypeOK, OwnInv, BufInv, NoOverwrite, FilledEnd, Ahead, Wrap, Slots
<1> QED BY <1>1, Inductive, PTL

(* No packet is leaked and none is recorded twice. *)
THEOREM MbufsAccounted == Spec /\ LinkFlaps = FALSE => []EachMbufOnce
<1>1. IInv => EachMbufOnce
  BY DEF IInv
<1> QED BY <1>1, Inductive, PTL

(* txInterrupt frees only what was filled and sent. *)
THEOREM ReclaimsOnlySent == Spec /\ LinkFlaps = FALSE => []ReclaimOnlySent
<1>1. ASSUME IInv PROVE ReclaimOnlySent
  <2> USE <1>1, TxRingAssumption DEF IInv, TypeOK, Ahead, Wrap, Slots
  <2>1. rclLeft <= Ahead(nicIndex, txDirtyDescIndex)
    BY DEF NicInv
  <2>2. rclLeft <= Ahead(FilledEnd, txDirtyDescIndex)
    BY <2>1 DEF NicInv, FilledEnd
  <2>3. ASSUME NEW s \in Slots, Ahead(s, txDirtyDescIndex) < rclLeft
        PROVE  ~descOwn[s]
    BY <2>1, <2>3 DEF OwnInv
  <2> QED BY <2>1, <2>2, <2>3 DEF ReclaimOnlySent
<1> QED BY <1>1, Inductive, PTL

-----------------------------------------------------------------------------
(* What is listed of a ring. *)

(* Induction over the numbers, with a set in the place of a predicate: the *)
(* least number outside it cannot be.                                      *)
LEMMA NatSetInduction ==
  ASSUME NEW T \in SUBSET Nat, 0 \in T, \A n \in T : n + 1 \in T
  PROVE  T = Nat
<1>1. SUFFICES ASSUME Nat \ T # {} PROVE FALSE
  OBVIOUS
<1> DEFINE U == {0 .. n : n \in Nat \ T}
<1>2. PICK x \in U : \A y \in U : ~ (<<y, x>> \in StrictSubsetOrdering(Nat))
  <2>1. U \subseteq FiniteSubsetsOf(Nat)
    <3>1. \A n \in Nat : 0 .. n \in SUBSET Nat /\ IsFiniteSet(0 .. n)
      BY FS_Interval
    <3>2. QED BY <3>1, Zenon DEF FiniteSubsetsOf
  <2>2. U # {}
    BY <1>1
  <2>3. IsWellFoundedOn(StrictSubsetOrdering(Nat), FiniteSubsetsOf(Nat))
    BY FS_StrictSubsetOrderingWellFounded, Zenon
  <2> HIDE DEF U
  <2>4. QED BY <2>1, <2>2, <2>3, WFMin, Zenon
<1>3. PICK n \in Nat \ T : x = 0 .. n
  OBVIOUS
<1>4. n # 0 /\ n - 1 \in Nat
  BY <1>3
<1>5. n - 1 \notin T
  <2>1. (n - 1) + 1 = n
    BY <1>4
  <2>2. QED BY <1>3, <2>1
<1>6. /\ 0 .. n - 1 \in U
      /\ 0 .. n - 1 \in SUBSET Nat /\ 0 .. n \in SUBSET Nat
      /\ 0 .. n - 1 \subseteq 0 .. n /\ n \in 0 .. n /\ n \notin 0 .. n - 1
  BY <1>3, <1>4, <1>5
<1>7. 0 .. n - 1 # 0 .. n
  BY <1>6, Zenon
<1>8. <<0 .. n - 1, 0 .. n>> \in StrictSubsetOrdering(Nat)
  BY <1>6, <1>7, Zenon DEF StrictSubsetOrdering
<1> QED BY <1>2, <1>3, <1>6, <1>8, Zenon

(* A solution of MbufsIn's recursion for the ring m, up to n. *)
Lists(m, n, f) ==
  f = [k \in 0 .. n |->
         IF k = 0 THEN <<>>
         ELSE IF m[k] = NoMbuf THEN f[k - 1] ELSE Append(f[k - 1], m[k])]

(* For every n there is a function that collects the mbufs of m up to n,   *)
LEMMA ListsExist ==
  ASSUME NEW m, NEW n \in Nat
  PROVE  \E f : Lists(m, n, f)
<1> DEFINE T == {p \in Nat : \E f : Lists(m, p, f)}
<1>1. 0 \in T
  <2> DEFINE g == [k \in 0 .. 0 |-> <<>>]
  <2>1. Lists(m, 0, g)
    BY DEF Lists
  <2>2. QED BY <2>1
<1>2. ASSUME NEW p \in T PROVE p + 1 \in T
  <2>1. PICK f : Lists(m, p, f)
    BY <1>2
  <2> DEFINE g == [k \in 0 .. p + 1 |->
                     IF k <= p THEN f[k]
                     ELSE IF m[k] = NoMbuf THEN f[p] ELSE Append(f[p], m[k])]
  <2>2. p \in Nat /\ \A k \in 1 .. p : k - 1 \in 0 .. p /\ k - 1 \in 0 .. p + 1
    OBVIOUS
  <2>3. ASSUME NEW k \in 0 .. p + 1
        PROVE  g[k] = IF k = 0 THEN <<>>
                      ELSE IF m[k] = NoMbuf THEN g[k - 1]
                      ELSE Append(g[k - 1], m[k])
    <3>1. CASE k = p + 1
      <4>1. k - 1 = p /\ p \in 0 .. p + 1 /\ k # 0 /\ ~(k <= p) /\ p <= p
        BY <3>1
      <4>2. g[k] = IF m[k] = NoMbuf THEN f[p] ELSE Append(f[p], m[k])
        BY <4>1
      <4>3. g[k - 1] = f[p]
        BY <4>1
      <4>4. QED BY <4>1, <4>2, <4>3
    <3>2. CASE k # p + 1
      <4>1. k \in 0 .. p /\ k <= p
        BY <3>2
      <4>2. k # 0 => k - 1 \in 0 .. p + 1 /\ k - 1 <= p
        BY <4>1
      <4>3. g[k] = f[k] /\ (k # 0 => g[k - 1] = f[k - 1])
        BY <4>1, <4>2
      <4> HIDE DEF g
      <4>4. QED BY <2>1, <4>1, <4>3 DEF Lists
    <3>3. QED BY <3>1, <3>2
  <2>4. g = [k \in 0 .. p + 1 |->
              IF k = 0 THEN <<>>
              ELSE IF m[k] = NoMbuf THEN g[k - 1] ELSE Append(g[k - 1], m[k])]
    BY <2>3
  <2> HIDE DEF g
  <2>5. Lists(m, p + 1, g)
    BY <2>4 DEF Lists
  <2>6. QED BY <2>2, <2>5
<1>3. T \in SUBSET Nat
  OBVIOUS
<1> HIDE DEF T
<1>4. T = Nat
  BY <1>1, <1>2, <1>3, NatSetInduction, Zenon
<1> QED BY <1>4 DEF T

(* it does not depend on what is beyond n,                                 *)
LEMMA ListsAgree ==
  ASSUME NEW m, NEW h, NEW n \in Nat, NEW f, NEW g, NEW p \in Nat, p <= n,
         Lists(m, n, f), Lists(h, p, g), \A k \in 1 .. p : m[k] = h[k]
  PROVE  f[p] = g[p]
<1> DEFINE T == {k \in Nat : k <= p => f[k] = g[k]}
<1>1. 0 \in T
  BY DEF Lists
<1>2. ASSUME NEW k \in T PROVE k + 1 \in T
  <2>1. SUFFICES ASSUME k + 1 <= p PROVE f[k + 1] = g[k + 1]
    OBVIOUS
  <2>2. /\ k + 1 \in 0 .. n /\ k + 1 \in 0 .. p /\ (k + 1) - 1 = k /\ k + 1 # 0
        /\ f[k] = g[k] /\ m[k + 1] = h[k + 1]
    BY <2>1
  <2>3. /\ f[k + 1] = IF m[k + 1] = NoMbuf THEN f[k] ELSE Append(f[k], m[k + 1])
        /\ g[k + 1] = IF h[k + 1] = NoMbuf THEN g[k] ELSE Append(g[k], h[k + 1])
    BY <2>2 DEF Lists
  <2>4. QED BY <2>2, <2>3
<1>3. T \in SUBSET Nat
  OBVIOUS
<1> HIDE DEF T
<1>4. T = Nat
  BY <1>1, <1>2, <1>3, NatSetInduction, Zenon
<1> QED BY <1>4 DEF T

(* so that the recursive function is the one there is,                     *)
LEMMA MbufsInIs ==
  ASSUME NEW m, NEW n \in Nat, NEW f, Lists(m, n, f)
  PROVE  MbufsIn(m, n) = f[n]
<1> DEFINE first == CHOOSE g : g = [k \in 0 .. n |->
         IF k = 0 THEN <<>>
         ELSE IF m[k] = NoMbuf THEN g[k - 1] ELSE Append(g[k - 1], m[k])]
<1>1. Lists(m, n, first)
  BY DEF Lists
<1> HIDE DEF first
<1>2. first[n] = f[n]
  BY <1>1, ListsAgree
<1>3. MbufsIn(m, n) = first[n]
  BY DEF MbufsIn, first
<1> QED BY <1>2, <1>3

(* and its equations hold.                                                 *)
LEMMA MbufsInStep ==
  ASSUME NEW m
  PROVE  /\ MbufsIn(m, 0) = <<>>
         /\ \A n \in Nat : MbufsIn(m, n + 1) =
              IF m[n + 1] = NoMbuf THEN MbufsIn(m, n)
              ELSE Append(MbufsIn(m, n), m[n + 1])
<1>1. MbufsIn(m, 0) = <<>>
  <2>1. PICK f : Lists(m, 0, f)
    BY ListsExist
  <2>2. QED BY <2>1, MbufsInIs DEF Lists
<1>2. ASSUME NEW n \in Nat
      PROVE  MbufsIn(m, n + 1) = IF m[n + 1] = NoMbuf THEN MbufsIn(m, n)
                                 ELSE Append(MbufsIn(m, n), m[n + 1])
  <2>1. PICK f : Lists(m, n + 1, f)
    BY ListsExist
  <2>2. PICK g : Lists(m, n, g)
    BY ListsExist
  <2>3. f[n] = g[n] /\ MbufsIn(m, n) = g[n] /\ MbufsIn(m, n + 1) = f[n + 1]
    <3>1. n + 1 \in Nat /\ n <= n + 1
      OBVIOUS
    <3>2. f[n] = g[n]
      <4> DEFINE q == n + 1
      <4>1. q \in Nat /\ n <= q /\ Lists(m, q, f) /\ Lists(m, n, g)
        BY <2>1, <2>2, <3>1
      <4> HIDE DEF q
      <4>2. QED BY <4>1, ListsAgree
    <3>3. QED BY <2>1, <2>2, <3>1, <3>2, MbufsInIs
  <2>4. n + 1 \in 0 .. n + 1 /\ n + 1 # 0 /\ (n + 1) - 1 = n
    OBVIOUS
  <2>5. f[n + 1] = IF m[n + 1] = NoMbuf THEN f[n] ELSE Append(f[n], m[n + 1])
    BY <2>1, <2>4 DEF Lists
  <2>6. QED BY <2>3, <2>5
<1> QED BY <1>1, <1>2

(* Induction on the length of what is read of a ring: the mbufs found are  *)
(* those recorded, ...                                                     *)
LEMMA MbufsInType ==
  ASSUME NEW m, NEW n \in Nat, \A k \in 1 .. n : m[k] \in Packets \cup {NoMbuf}
  PROVE  /\ MbufsIn(m, n) \in Seq(Packets)
         /\ \A i \in 1 .. Len(MbufsIn(m, n)) :
              \E k \in 1 .. n : MbufsIn(m, n)[i] = m[k]
<1> DEFINE Good(k) ==
      /\ MbufsIn(m, k) \in Seq(Packets)
      /\ \A i \in 1 .. Len(MbufsIn(m, k)) :
           \E j \in 1 .. k : MbufsIn(m, k)[i] = m[j]
    T == {k \in Nat : k <= n => Good(k)}
<1>1. 0 \in T
  <2>1. MbufsIn(m, 0) = <<>>
    BY MbufsInStep
  <2>2. <<>> \in Seq(Packets) /\ Len(<<>>) = 0 /\ 1 .. 0 = {}
    OBVIOUS
  <2>3. Good(0)
    BY <2>1, <2>2
  <2> HIDE DEF Good
  <2>4. QED BY <2>3
<1>2. ASSUME NEW k \in T PROVE k + 1 \in T
  <2>1. SUFFICES ASSUME k + 1 <= n PROVE Good(k + 1)
    OBVIOUS
  <2>2. /\ k \in Nat /\ k + 1 \in 1 .. n
        /\ m[k + 1] \in Packets \cup {NoMbuf} /\ Good(k)
    BY <2>1
  <2>3. MbufsIn(m, k + 1) = IF m[k + 1] = NoMbuf THEN MbufsIn(m, k)
                            ELSE Append(MbufsIn(m, k), m[k + 1])
    BY <2>2, MbufsInStep
  <2>4. CASE m[k + 1] = NoMbuf
    <3>1. MbufsIn(m, k + 1) = MbufsIn(m, k) /\ 1 .. k \subseteq 1 .. k + 1
      BY <2>2, <2>3, <2>4
    <3>2. QED BY <2>2, <3>1
  <2>5. CASE m[k + 1] # NoMbuf
    <3> DEFINE s == MbufsIn(m, k)
    <3>1. /\ MbufsIn(m, k + 1) = Append(s, m[k + 1])
          /\ m[k + 1] \in Packets /\ s \in Seq(Packets)
          /\ \A i \in 1 .. Len(s) : \E j \in 1 .. k : s[i] = m[j]
      BY <2>2, <2>3, <2>5
    <3> HIDE DEF s
    <3>2. /\ Append(s, m[k + 1]) \in Seq(Packets)
          /\ Len(Append(s, m[k + 1])) = Len(s) + 1
          /\ \A i \in 1 .. Len(s) : Append(s, m[k + 1])[i] = s[i]
          /\ Append(s, m[k + 1])[Len(s) + 1] = m[k + 1]
      BY <3>1
    <3>3. ASSUME NEW i \in 1 .. Len(s) + 1
          PROVE  \E j \in 1 .. k + 1 : Append(s, m[k + 1])[i] = m[j]
      <4>1. CASE i = Len(s) + 1
        BY <2>2, <3>2, <4>1
      <4>2. CASE i # Len(s) + 1
        <5>1. i \in 1 .. Len(s)
          BY <3>1, <4>2
        <5>2. PICK j \in 1 .. k : s[i] = m[j]
          BY <3>1, <5>1
        <5>3. j \in 1 .. k + 1 /\ Append(s, m[k + 1])[i] = m[j]
          BY <2>2, <3>2, <5>1, <5>2
        <5>4. QED BY <5>3
      <4>3. QED BY <4>1, <4>2
    <3>4. QED BY <3>1, <3>2, <3>3
  <2>6. QED BY <2>4, <2>5
<1>3. T \in SUBSET Nat
  OBVIOUS
<1> HIDE DEF T
<1>4. T = Nat
  BY <1>1, <1>2, <1>3, NatSetInduction, Zenon
<1> QED BY <1>4 DEF T

(* ... two rings recording the same mbufs list the same, ... *)
LEMMA MbufsInSame ==
  ASSUME NEW m, NEW h, NEW n \in Nat, \A k \in 1 .. n : m[k] = h[k]
  PROVE  MbufsIn(m, n) = MbufsIn(h, n)
<1> DEFINE T == {k \in Nat : k <= n => MbufsIn(m, k) = MbufsIn(h, k)}
<1>1. 0 \in T
  BY MbufsInStep
<1>2. ASSUME NEW k \in T PROVE k + 1 \in T
  <2>1. SUFFICES ASSUME k + 1 <= n PROVE MbufsIn(m, k + 1) = MbufsIn(h, k + 1)
    OBVIOUS
  <2>2. k \in Nat /\ MbufsIn(m, k) = MbufsIn(h, k) /\ m[k + 1] = h[k + 1]
    BY <2>1
  <2>3. /\ MbufsIn(m, k + 1) = IF m[k + 1] = NoMbuf THEN MbufsIn(m, k)
                               ELSE Append(MbufsIn(m, k), m[k + 1])
        /\ MbufsIn(h, k + 1) = IF h[k + 1] = NoMbuf THEN MbufsIn(h, k)
                               ELSE Append(MbufsIn(h, k), h[k + 1])
    BY <2>2, MbufsInStep
  <2>4. QED BY <2>2, <2>3
<1>3. T \in SUBSET Nat
  OBVIOUS
<1> HIDE DEF T
<1>4. T = Nat
  BY <1>1, <1>2, <1>3, NatSetInduction, Zenon
<1> QED BY <1>4 DEF T

(* ... reading on finds more mbufs, unless there are none, ... *)
LEMMA MbufsInMore ==
  ASSUME NEW m, NEW n \in Nat, NEW p \in Nat, n <= p,
         \A k \in 1 .. p : m[k] \in Packets \cup {NoMbuf}
  PROVE  /\ Len(MbufsIn(m, n)) <= Len(MbufsIn(m, p))
         /\ (\A k \in n + 1 .. p : m[k] = NoMbuf) => MbufsIn(m, n) = MbufsIn(m, p)
<1> DEFINE More(k) ==
      /\ Len(MbufsIn(m, n)) <= Len(MbufsIn(m, k))
      /\ (\A j \in n + 1 .. k : m[j] = NoMbuf) => MbufsIn(m, n) = MbufsIn(m, k)
    T == {k \in Nat : n <= k /\ k <= p => More(k)}
<1>0. \A k \in Nat : k <= p => MbufsIn(m, k) \in Seq(Packets)
  <2>1. ASSUME NEW k \in Nat, k <= p PROVE MbufsIn(m, k) \in Seq(Packets)
    <3>1. \A j \in 1 .. k : m[j] \in Packets \cup {NoMbuf}
      BY <2>1
    <3>2. QED BY <3>1, MbufsInType
  <2>2. QED BY <2>1
<1>1. 0 \in T
  <2>1. n <= 0 => n = 0
    OBVIOUS
  <2>2. Len(MbufsIn(m, 0)) = 0
    BY MbufsInStep
  <2>3. QED BY <2>1, <2>2
<1>2. ASSUME NEW k \in T PROVE k + 1 \in T
  <2>1. SUFFICES ASSUME n <= k + 1, k + 1 <= p PROVE More(k + 1)
    OBVIOUS
  <2>2. MbufsIn(m, k + 1) \in Seq(Packets) /\ MbufsIn(m, k) \in Seq(Packets)
    BY <1>0, <2>1
  <2>3. CASE n = k + 1
    BY <2>2, <2>3
  <2>4. CASE n # k + 1
    <3>1. n <= k /\ k \in Nat /\ More(k)
      BY <2>1, <2>4
    <3>2. MbufsIn(m, k + 1) = IF m[k + 1] = NoMbuf THEN MbufsIn(m, k)
                              ELSE Append(MbufsIn(m, k), m[k + 1])
      BY <3>1, MbufsInStep
    <3>3. Len(MbufsIn(m, k)) <= Len(MbufsIn(m, k + 1))
      <4>1. m[k + 1] # NoMbuf => m[k + 1] \in Packets
        BY <2>1
      <4>2. CASE m[k + 1] = NoMbuf
        BY <2>2, <3>2, <4>2
      <4>3. CASE m[k + 1] # NoMbuf
        <5>1. Len(Append(MbufsIn(m, k), m[k + 1])) = Len(MbufsIn(m, k)) + 1
          BY <2>2, <4>1, <4>3
        <5>2. QED BY <2>2, <3>2, <4>3, <5>1
      <4>4. QED BY <4>2, <4>3
    <3>4. Len(MbufsIn(m, n)) <= Len(MbufsIn(m, k + 1))
      <4>1. MbufsIn(m, n) \in Seq(Packets)
        BY <1>0
      <4>2. QED BY <2>2, <3>1, <3>3, <4>1
    <3>5. ASSUME \A j \in n + 1 .. k + 1 : m[j] = NoMbuf
          PROVE  MbufsIn(m, n) = MbufsIn(m, k + 1)
      <4>1. k + 1 \in n + 1 .. k + 1 /\ n + 1 .. k \subseteq n + 1 .. k + 1
        BY <3>1
      <4>2. QED BY <3>1, <3>2, <3>5, <4>1
    <3>6. QED BY <3>4, <3>5
  <2>5. QED BY <2>3, <2>4
<1>3. T \in SUBSET Nat
  OBVIOUS
<1> HIDE DEF T
<1>4. T = Nat
  BY <1>1, <1>2, <1>3, NatSetInduction, Zenon
<1> QED BY <1>4 DEF T

(* ... and moving the start by one entry drops that entry's mbuf, if any.  *)
LEMMA MbufsInTail ==
  ASSUME NEW m, NEW h, NEW n \in Nat,
         \A k \in 1 .. n + 1 : m[k] \in Packets \cup {NoMbuf},
         \A k \in 1 .. n : h[k] = m[k + 1]
  PROVE  /\ m[1] = NoMbuf => MbufsIn(m, n + 1) = MbufsIn(h, n)
         /\ m[1] # NoMbuf => MbufsIn(m, n + 1) = <<m[1]>> \o MbufsIn(h, n)
<1> DEFINE Good(k) ==
      MbufsIn(m, k + 1) = IF m[1] = NoMbuf THEN MbufsIn(h, k)
                          ELSE <<m[1]>> \o MbufsIn(h, k)
    T == {k \in Nat : k <= n => Good(k)}
<1>0. m[1] # NoMbuf => m[1] \in Packets
  OBVIOUS
<1>1. 0 \in T
  <2>1. MbufsIn(m, 0) = <<>> /\ MbufsIn(h, 0) = <<>>
    BY MbufsInStep
  <2>2. MbufsIn(m, 0 + 1) = IF m[0 + 1] = NoMbuf THEN MbufsIn(m, 0)
                            ELSE Append(MbufsIn(m, 0), m[0 + 1])
    BY MbufsInStep
  <2>3. 0 + 1 = 1 /\ Append(<<>>, m[1]) = <<m[1]>>
    OBVIOUS
  <2>4. MbufsIn(m, 0 + 1) = IF m[1] = NoMbuf THEN <<>> ELSE <<m[1]>>
    BY <2>1, <2>2, <2>3
  <2>5. m[1] # NoMbuf => <<m[1]>> \o <<>> = <<m[1]>>
    <3>1. m[1] # NoMbuf => <<m[1]>> \in Seq(Packets)
      BY <1>0
    <3>2. QED BY <3>1
  <2>6. Good(0)
    BY <2>1, <2>4, <2>5
  <2> HIDE DEF Good
  <2>7. QED BY <2>6
<1>2. ASSUME NEW k \in T PROVE k + 1 \in T
  <2>1. SUFFICES ASSUME k + 1 <= n PROVE Good(k + 1)
    OBVIOUS
  <2>2. /\ k \in Nat /\ k + 1 \in Nat /\ k <= n /\ Good(k)
        /\ h[k + 1] = m[(k + 1) + 1]
    BY <2>1
  <2>3. /\ MbufsIn(m, (k + 1) + 1) =
             IF m[(k + 1) + 1] = NoMbuf THEN MbufsIn(m, k + 1)
             ELSE Append(MbufsIn(m, k + 1), m[(k + 1) + 1])
        /\ MbufsIn(h, k + 1) =
             IF h[k + 1] = NoMbuf THEN MbufsIn(h, k)
             ELSE Append(MbufsIn(h, k), h[k + 1])
    BY <2>2, MbufsInStep
  <2>4. CASE m[1] = NoMbuf
    BY <2>2, <2>3, <2>4
  <2>5. CASE m[1] # NoMbuf
    <3> DEFINE s == MbufsIn(h, k)  e == h[k + 1]
    <3>1. MbufsIn(m, k + 1) = <<m[1]>> \o s
      BY <2>2, <2>5
    <3>2. CASE e = NoMbuf
      BY <2>2, <2>3, <2>5, <3>1, <3>2
    <3>3. CASE e # NoMbuf
      <4>1. s \in Seq(Packets)
        <5>1. \A j \in 1 .. k : h[j] \in Packets \cup {NoMbuf}
          <6>1. ASSUME NEW j \in 1 .. k
                PROVE  h[j] \in Packets \cup {NoMbuf}
            BY <2>1
          <6>2. QED BY <6>1
        <5>2. QED BY <2>2, <5>1, MbufsInType
      <4>2. e \in Packets
        BY <2>1, <3>3
      <4>3. MbufsIn(m, (k + 1) + 1) = Append(<<m[1]>> \o s, e)
        BY <2>2, <2>3, <3>1, <3>3
      <4>4. MbufsIn(h, k + 1) = Append(s, e)
        BY <2>3, <3>3
      <4> HIDE DEF s, e
      <4>5. Append(<<m[1]>> \o s, e) = <<m[1]>> \o Append(s, e)
        BY <1>0, <2>5, <4>1, <4>2
      <4>6. QED BY <2>5, <4>3, <4>4, <4>5
    <3>4. QED BY <3>2, <3>3
  <2>6. QED BY <2>4, <2>5
<1>3. T \in SUBSET Nat
  OBVIOUS
<1> HIDE DEF T
<1>4. T = Nat
  BY <1>1, <1>2, <1>3, NatSetInduction, Zenon
<1>5. Good(n)
  BY <1>4 DEF T
<1> QED BY <1>5

-----------------------------------------------------------------------------
(* The ring as a queue.                                                    *)

(* The mbufs of the ring are at its start, before what is not filled. *)
LEMMA RingShape ==
  ASSUME IInv
  PROVE  /\ InFlight \in Nat /\ InFlight < kNumTxDesc
         /\ Ahead(nicIndex, txDirtyDescIndex) \in Nat
         /\ Ahead(FilledEnd, txDirtyDescIndex) \in Nat
         /\ Ahead(nicIndex, txDirtyDescIndex) <= Ahead(FilledEnd, txDirtyDescIndex)
         /\ Ahead(FilledEnd, txDirtyDescIndex) <= InFlight
         /\ \A k \in 1 .. kNumTxDesc :
              /\ RingOrder[k] \in Packets \cup {NoMbuf}
              /\ k > Ahead(FilledEnd, txDirtyDescIndex) => RingOrder[k] = NoMbuf
<1> USE TxRingAssumption DEF IInv, TypeOK, Slots
<1>1. /\ InFlight \in Nat /\ InFlight < kNumTxDesc
      /\ Ahead(nicIndex, txDirtyDescIndex) \in Nat
      /\ Ahead(FilledEnd, txDirtyDescIndex) \in Nat
      /\ Ahead(nicIndex, txDirtyDescIndex) <= Ahead(FilledEnd, txDirtyDescIndex)
      /\ Ahead(FilledEnd, txDirtyDescIndex) <= InFlight
  BY DEF NicInv, OutInv, FilledEnd, InFlight, Ahead, Wrap
<1>2. ASSUME NEW k \in 1 .. kNumTxDesc
      PROVE  /\ RingOrder[k] \in Packets \cup {NoMbuf}
             /\ k > Ahead(FilledEnd, txDirtyDescIndex) => RingOrder[k] = NoMbuf
  <2> DEFINE s == Wrap(txDirtyDescIndex + k - 1, kNumTxDesc)
  <2>1. s \in Slots /\ Ahead(s, txDirtyDescIndex) = k - 1
    BY DEF Ahead, Wrap
  <2>2. RingOrder[k] = txBufArray[s]
    BY DEF RingOrder
  <2> HIDE DEF s
  <2>3. txBufArray[s] \in Packets \cup {NoMbuf}
    BY <2>1
  <2>4. txBufArray[s] # NoMbuf => k - 1 < Ahead(FilledEnd, txDirtyDescIndex)
    BY <2>1 DEF BufInv
  <2>5. k > Ahead(FilledEnd, txDirtyDescIndex) => txBufArray[s] = NoMbuf
    BY <1>1, <2>4
  <2>6. QED BY <2>2, <2>3, <2>5
<1> QED BY <1>1, <1>2

(* The packets are listed in Seq(Packets), those sent among those queued.  *)
LEMMA RingLists ==
  ASSUME IInv
  PROVE  /\ RingQueue \in Seq(Packets)
         /\ RingSent \in Nat /\ RingSent <= Len(RingQueue)
         /\ \A i \in 1 .. Len(RingQueue) :
              \E s \in Slots : RingQueue[i] = txBufArray[s]
<1>1. kNumTxDesc \in Nat /\ txDirtyDescIndex \in Slots
  BY TxRingAssumption DEF IInv, TypeOK
<1>2. /\ RingQueue \in Seq(Packets)
      /\ \A i \in 1 .. Len(RingQueue) :
           \E k \in 1 .. InFlight : RingQueue[i] = RingOrder[k]
  <2>1. \A k \in 1 .. InFlight : RingOrder[k] \in Packets \cup {NoMbuf}
    BY <1>1, RingShape
  <2>2. QED BY <2>1, RingShape, MbufsInType DEF RingQueue
<1>3. RingSent <= Len(RingQueue)
  <2>1. \A k \in 1 .. InFlight : RingOrder[k] \in Packets \cup {NoMbuf}
    BY <1>1, RingShape
  <2>2. /\ Ahead(nicIndex, txDirtyDescIndex) \in Nat /\ InFlight \in Nat
        /\ Ahead(nicIndex, txDirtyDescIndex) <= InFlight
    BY RingShape
  <2>3. QED BY <2>1, <2>2, MbufsInMore DEF RingQueue, RingSent
<1>4. RingSent \in Nat
  <2>1. /\ Ahead(nicIndex, txDirtyDescIndex) \in Nat
        /\ \A k \in 1 .. Ahead(nicIndex, txDirtyDescIndex) :
             RingOrder[k] \in Packets \cup {NoMbuf}
    BY <1>1, RingShape
  <2>2. MbufsIn(RingOrder, Ahead(nicIndex, txDirtyDescIndex)) \in Seq(Packets)
    BY <2>1, MbufsInType
  <2>3. QED BY <2>2 DEF RingSent
<1>5. ASSUME NEW i \in 1 .. Len(RingQueue)
      PROVE  \E s \in Slots : RingQueue[i] = txBufArray[s]
  <2>1. PICK k \in 1 .. InFlight : RingQueue[i] = RingOrder[k]
    BY <1>2
  <2>2. k \in 1 .. kNumTxDesc
    BY <1>1, RingShape
  <2>3. RingQueue[i] = txBufArray[Wrap(txDirtyDescIndex + k - 1, kNumTxDesc)]
    BY <2>1, <2>2 DEF RingOrder
  <2>4. Wrap(txDirtyDescIndex + k - 1, kNumTxDesc) \in Slots
    BY <1>1, <2>2 DEF Wrap, Slots
  <2>5. QED BY <2>3, <2>4
<1> QED BY <1>2, <1>3, <1>4, <1>5

(* An empty ring is an empty queue. *)
LEMMA EmptyRing ==
  ASSUME txNextDescIndex = 0, txDirtyDescIndex = 0, nicIndex = 0
  PROVE  RingQueue = <<>> /\ RingSent = 0
<1>1. InFlight = 0 /\ Ahead(nicIndex, txDirtyDescIndex) = 0
  BY TxRingAssumption DEF InFlight, Ahead, Wrap
<1>2. MbufsIn(RingOrder, 0) = <<>>
  BY MbufsInStep
<1> QED BY <1>1, <1>2 DEF RingQueue, RingSent

(* What does not touch the ring's mbufs and indices leaves the queue. *)
LEMMA SameRing ==
  ASSUME UNCHANGED <<txBufArray, txDirtyDescIndex, txNextDescIndex, nicIndex>>
  PROVE  UNCHANGED <<RingQueue, RingSent>>
BY DEF RingQueue, RingSent, RingOrder, InFlight, Ahead

(* outputStart() publishes descriptors that hold nothing yet. *)
LEMMA PublishQueue ==
  ASSUME IInv, Publish
  PROVE  UNCHANGED <<RingQueue, RingSent>>
<1>1. UNCHANGED <<txBufArray, txDirtyDescIndex, nicIndex>>
  BY DEF Publish, nicVars
<1>2. RingOrder' = RingOrder /\ RingSent' = RingSent
  BY <1>1 DEF RingOrder, RingSent, Ahead
<1>3. /\ InFlight' = InFlight + outSegs /\ outSegs \in Nat
      /\ InFlight + outSegs <= kNumTxDesc
  BY TxRingAssumption
  DEF IInv, TypeOK, Accounting, OutInv, Publish, Reserved, InFlight, Ahead,
      Wrap, Slots
<1>4. Ahead(FilledEnd, txDirtyDescIndex) = InFlight
  BY DEF Publish, FilledEnd, InFlight
<1>5. /\ \A k \in 1 .. InFlight + outSegs : RingOrder[k] \in Packets \cup {NoMbuf}
      /\ \A k \in InFlight + 1 .. InFlight + outSegs : RingOrder[k] = NoMbuf
  BY <1>3, <1>4, RingShape, TxRingAssumption
<1>6. MbufsIn(RingOrder, InFlight) = MbufsIn(RingOrder, InFlight + outSegs)
  <2>1. /\ InFlight \in Nat /\ InFlight + outSegs \in Nat
        /\ InFlight <= InFlight + outSegs
    BY <1>3, RingShape
  <2>2. QED BY <1>5, <2>1, MbufsInMore
<1> QED BY <1>2, <1>3, <1>6 DEF RingQueue

(* A packet is in the queue when its last descriptor is filled. *)
LEMMA FillQueue ==
  ASSUME IInv, FillDesc
  PROVE  /\ RingSent' = RingSent
         /\ RingQueue' = IF outDone + 1 = outSegs THEN Append(RingQueue, outPkt)
                         ELSE RingQueue
<1> DEFINE a == Ahead(outIndex, txDirtyDescIndex)
           K == kNumTxDesc
<1>1. /\ UNCHANGED <<txDirtyDescIndex, txNextDescIndex, nicIndex>>
      /\ InFlight' = InFlight
      /\ Ahead(nicIndex, txDirtyDescIndex)' = Ahead(nicIndex, txDirtyDescIndex)
  BY DEF FillDesc, ringVars, nicVars, InFlight, Ahead
<1>2. /\ K \in Nat /\ a \in Nat /\ a < K /\ Ahead(FilledEnd, txDirtyDescIndex) = a
      /\ txDirtyDescIndex \in Slots /\ outIndex \in Slots
      /\ txBufArray \in [Slots -> Packets \cup {NoMbuf}]
      /\ Ahead(nicIndex, txDirtyDescIndex) <= a
      /\ Ahead(nicIndex, txDirtyDescIndex) \in Nat
  BY TxRingAssumption
  DEF IInv, TypeOK, FillDesc, OutInv, NicInv, FilledEnd, Ahead, Wrap, Slots
<1>3. RingOrder[a + 1] = NoMbuf /\ RingOrder[a + 1] = txBufArray[outIndex]
  <2>1. a + 1 \in 1 .. K /\ a + 1 > a
    BY <1>2
  <2>2. RingOrder[a + 1] = NoMbuf
    BY <1>2, <2>1, RingShape
  <2>3. Wrap(txDirtyDescIndex + (a + 1) - 1, kNumTxDesc) = outIndex
    BY <1>2 DEF Ahead, Wrap, Slots
  <2>4. QED BY <2>1, <2>2, <2>3 DEF RingOrder
<1>4. CASE outDone + 1 # outSegs
  <2>1. txBufArray' = [txBufArray EXCEPT ![outIndex] = NoMbuf]
    BY <1>4 DEF FillDesc, MbufAt
  <2>2. txBufArray' = txBufArray
    BY <1>2, <1>3, <2>1
  <2>3. QED BY <1>1, <1>4, <2>2, SameRing
<1>5. CASE outDone + 1 = outSegs
  <2>1. txBufArray' = [txBufArray EXCEPT ![outIndex] = outPkt]
    BY <1>5 DEF FillDesc, MbufAt
  <2>2. InFlight = a + 1
    BY <1>2, <1>5, TxRingAssumption
    DEF IInv, TypeOK, FillDesc, OutInv, InFlight, Ahead, Wrap, Slots
  <2>3. ASSUME NEW k \in 1 .. a PROVE RingOrder'[k] = RingOrder[k]
    <3>1. k \in 1 .. K
      BY <1>2
    <3>2. /\ Wrap(txDirtyDescIndex + k - 1, kNumTxDesc) # outIndex
          /\ Wrap(txDirtyDescIndex + k - 1, kNumTxDesc) \in Slots
      BY <1>2 DEF Ahead, Wrap, Slots
    <3>3. QED BY <1>1, <1>2, <2>1, <3>1, <3>2 DEF RingOrder
  <2>4. RingOrder'[a + 1] = outPkt /\ outPkt # NoMbuf
    <3>1. a + 1 \in 1 .. K
      BY <1>2
    <3>2. Wrap(txDirtyDescIndex + (a + 1) - 1, kNumTxDesc) = outIndex
      BY <1>2 DEF Ahead, Wrap, Slots
    <3>3. RingOrder'[a + 1] = txBufArray'[outIndex]
      BY <1>1, <3>1, <3>2 DEF RingOrder
    <3>4. QED BY <1>2, <2>1, <3>3 DEF IInv, OutInv, FillDesc
  <2>5. MbufsIn(RingOrder', a) = MbufsIn(RingOrder, a)
    BY <1>2, <2>3, MbufsInSame
  <2>6. RingQueue' = Append(MbufsIn(RingOrder, a), outPkt)
    <3>1. MbufsIn(RingOrder', a + 1) =
            IF RingOrder'[a + 1] = NoMbuf THEN MbufsIn(RingOrder', a)
            ELSE Append(MbufsIn(RingOrder', a), RingOrder'[a + 1])
      BY <1>2, MbufsInStep
    <3>2. RingQueue' = MbufsIn(RingOrder', a + 1)
      BY <1>1, <2>2 DEF RingQueue
    <3>3. QED BY <2>4, <2>5, <3>1, <3>2
  <2>7. RingQueue = MbufsIn(RingOrder, a)
    <3>1. MbufsIn(RingOrder, a + 1) =
            IF RingOrder[a + 1] = NoMbuf THEN MbufsIn(RingOrder, a)
            ELSE Append(MbufsIn(RingOrder, a), RingOrder[a + 1])
      BY <1>2, MbufsInStep
    <3>2. QED BY <1>3, <2>2, <3>1 DEF RingQueue
  <2>8. RingSent' = RingSent
    <3> DEFINE n == Ahead(nicIndex, txDirtyDescIndex)
    <3>1. n \in Nat /\ n' = n /\ \A k \in 1 .. n : RingOrder'[k] = RingOrder[k]
      BY <1>1, <1>2, <2>3
    <3>2. MbufsIn(RingOrder', n) = MbufsIn(RingOrder, n)
      BY <3>1, MbufsInSame
    <3>3. RingSent' = Len(MbufsIn(RingOrder', n')) /\ RingSent = Len(MbufsIn(RingOrder, n))
      BY DEF RingSent
    <3>4. QED BY <3>1, <3>2, <3>3
  <2>9. QED BY <1>5, <2>6, <2>7, <2>8
<1> QED BY <1>4, <1>5

(* The NIC sends a packet with its last descriptor, in the queue's order.  *)
LEMMA SendQueue ==
  ASSUME IInv, NicSend
  PROVE  /\ RingQueue' = RingQueue
         /\ \/ RingSent' = RingSent
            \/ RingSent' = RingSent + 1 /\ RingSent < Len(RingQueue)
<1> DEFINE n == Ahead(nicIndex, txDirtyDescIndex)
<1>1. UNCHANGED <<txBufArray, txDirtyDescIndex, txNextDescIndex>>
  BY DEF NicSend, ringVars
<1>2. RingOrder' = RingOrder /\ RingQueue' = RingQueue
  BY <1>1 DEF RingOrder, RingQueue, InFlight, Ahead
<1>3. n \in Nat /\ n' = n + 1 /\ n + 1 <= InFlight /\ InFlight \in Nat
  <2>1. n < Ahead(FilledEnd, txDirtyDescIndex)
    BY TxRingAssumption
    DEF IInv, TypeOK, OwnInv, NicSend, FilledEnd, Ahead, Wrap, Slots
  <2>2. n \in Nat /\ n + 1 <= InFlight /\ InFlight \in Nat /\ InFlight < kNumTxDesc
    BY <2>1, RingShape
  <2>3. n' = n + 1
    BY <2>2, TxRingAssumption
    DEF IInv, TypeOK, NicSend, ringVars, InFlight, Ahead, Wrap, Slots
  <2>4. QED BY <2>2, <2>3
<1> HIDE DEF n
<1>4. RingSent = Len(MbufsIn(RingOrder, n)) /\ RingSent' = Len(MbufsIn(RingOrder, n + 1))
  BY <1>2, <1>3 DEF RingSent, n
<1>5. MbufsIn(RingOrder, n + 1) = IF RingOrder[n + 1] = NoMbuf THEN MbufsIn(RingOrder, n)
                                  ELSE Append(MbufsIn(RingOrder, n), RingOrder[n + 1])
  BY <1>3, MbufsInStep
<1>6. /\ \A k \in 1 .. InFlight : RingOrder[k] \in Packets \cup {NoMbuf}
      /\ \A k \in 1 .. n : RingOrder[k] \in Packets \cup {NoMbuf}
  BY <1>3, RingShape, TxRingAssumption
<1>7. /\ MbufsIn(RingOrder, n) \in Seq(Packets)
      /\ MbufsIn(RingOrder, InFlight) \in Seq(Packets)
  BY <1>3, <1>6, MbufsInType
<1>8. Len(MbufsIn(RingOrder, n + 1)) <= Len(MbufsIn(RingOrder, InFlight))
  <2>1. n + 1 \in Nat
    BY <1>3
  <2>2. QED BY <1>3, <1>6, <2>1, MbufsInMore
<1>9. CASE RingOrder[n + 1] = NoMbuf
  BY <1>2, <1>4, <1>5, <1>9
<1>10. CASE RingOrder[n + 1] # NoMbuf
  <2>1. RingOrder[n + 1] \in Packets
    BY <1>3, <1>6, <1>10
  <2>2. Len(MbufsIn(RingOrder, n + 1)) = Len(MbufsIn(RingOrder, n)) + 1
    BY <1>5, <1>7, <1>10, <2>1
  <2>3. QED BY <1>2, <1>4, <1>7, <1>8, <2>2 DEF RingQueue
<1> QED BY <1>9, <1>10

(* txInterrupt() takes the head of the queue, which has been sent, when    *)
(* the descriptor it reclaims holds an mbuf.                               *)
LEMMA ReclaimQueue ==
  ASSUME IInv, Reclaim
  PROVE  IF txBufArray[txDirtyDescIndex] = NoMbuf
         THEN UNCHANGED <<RingQueue, RingSent>>
         ELSE /\ RingQueue = <<txBufArray[txDirtyDescIndex]>> \o RingQueue'
              /\ RingQueue' = Tail(RingQueue)
              /\ RingSent > 0 /\ RingSent' = RingSent - 1
<1> DEFINE m == RingOrder
           h == RingOrder'
           n == Ahead(nicIndex, txDirtyDescIndex)
           mbuf == txBufArray[txDirtyDescIndex]
<1>1. /\ kNumTxDesc \in Nat /\ kNumTxDesc > 0 /\ txDirtyDescIndex \in Slots
      /\ txBufArray \in [Slots -> Packets \cup {NoMbuf}]
      /\ txDirtyDescIndex' = Wrap(txDirtyDescIndex + 1, kNumTxDesc)
      /\ txBufArray' = [txBufArray EXCEPT ![txDirtyDescIndex] = NoMbuf]
      /\ UNCHANGED <<txNextDescIndex, nicIndex>>
  BY TxRingAssumption DEF IInv, TypeOK, Reclaim, nicVars
<1>2. n \in Nat /\ n > 0 /\ n <= InFlight /\ InFlight \in Nat /\ InFlight < kNumTxDesc
  <2>1. n >= rclLeft /\ rclLeft > 0 /\ rclLeft \in Nat
    BY TxRingAssumption DEF IInv, TypeOK, NicInv, Reclaim, Ahead, Wrap, Slots
  <2>2. QED BY <2>1, RingShape
<1>3. n' = n - 1 /\ InFlight' = InFlight - 1
  BY <1>1, <1>2, TxRingAssumption DEF IInv, TypeOK, InFlight, Ahead, Wrap, Slots
<1>4. \A k \in 1 .. kNumTxDesc : m[k] \in Packets \cup {NoMbuf}
  BY RingShape
<1>5. m[1] = mbuf
  <2>1. /\ 1 \in 1 .. kNumTxDesc
        /\ Wrap(txDirtyDescIndex + 1 - 1, kNumTxDesc) = txDirtyDescIndex
    BY <1>1 DEF Wrap, Slots
  <2>2. QED BY <2>1 DEF RingOrder
<1>6. ASSUME NEW k \in 1 .. kNumTxDesc - 1 PROVE h[k] = m[k + 1]
  <2> DEFINE s == Wrap(txDirtyDescIndex + (k + 1) - 1, kNumTxDesc)
  <2>1. k \in 1 .. kNumTxDesc /\ k + 1 \in 1 .. kNumTxDesc
    BY <1>1
  <2>2. /\ s \in Slots
        /\ s # txDirtyDescIndex
        /\ Wrap(txDirtyDescIndex' + k - 1, kNumTxDesc) = s
    BY <1>1 DEF Wrap, Slots
  <2>3. m[k + 1] = txBufArray[s] /\ h[k] = txBufArray'[s]
    BY <2>1, <2>2 DEF RingOrder
  <2>4. QED BY <1>1, <2>2, <2>3
<1> HIDE DEF m, h, n, mbuf
<1>7. ASSUME NEW i \in Nat, i > 0, i < kNumTxDesc
      PROVE  /\ MbufsIn(h, i - 1) \in Seq(Packets)
             /\ MbufsIn(m, i) = IF mbuf = NoMbuf THEN MbufsIn(h, i - 1)
                                ELSE <<mbuf>> \o MbufsIn(h, i - 1)
  <2> DEFINE j == i - 1
  <2>1. j \in Nat /\ i = j + 1
    BY <1>7
  <2>2. \A k \in 1 .. j + 1 : m[k] \in Packets \cup {NoMbuf}
    BY <1>1, <1>4, <1>7
  <2>3. \A k \in 1 .. j : h[k] = m[k + 1] /\ h[k] \in Packets \cup {NoMbuf}
    BY <1>1, <1>4, <1>6, <1>7
  <2> HIDE DEF j
  <2>4. MbufsIn(h, j) \in Seq(Packets)
    BY <2>1, <2>3, MbufsInType
  <2>5. /\ m[1] = NoMbuf => MbufsIn(m, j + 1) = MbufsIn(h, j)
        /\ m[1] # NoMbuf => MbufsIn(m, j + 1) = <<m[1]>> \o MbufsIn(h, j)
    BY <2>1, <2>2, <2>3, MbufsInTail
  <2>6. QED BY <1>5, <2>1, <2>4, <2>5 DEF j
<1>8. /\ RingQueue = MbufsIn(m, InFlight) /\ RingQueue' = MbufsIn(h, InFlight - 1)
      /\ RingSent = Len(MbufsIn(m, n)) /\ RingSent' = Len(MbufsIn(h, n - 1))
  BY <1>3 DEF RingQueue, RingSent, m, h, n
<1>9. /\ InFlight > 0 /\ n < kNumTxDesc
  BY <1>1, <1>2
<1>10. CASE mbuf = NoMbuf
  BY <1>2, <1>7, <1>8, <1>9, <1>10 DEF mbuf
<1>11. CASE mbuf # NoMbuf
  <2>1. mbuf \in Packets
    BY <1>1, <1>11 DEF mbuf
  <2>2. /\ MbufsIn(h, n - 1) \in Seq(Packets) /\ MbufsIn(h, InFlight - 1) \in Seq(Packets)
        /\ MbufsIn(m, n) = <<mbuf>> \o MbufsIn(h, n - 1)
        /\ MbufsIn(m, InFlight) = <<mbuf>> \o MbufsIn(h, InFlight - 1)
    BY <1>2, <1>7, <1>9, <1>11
  <2>3. \A q \in Seq(Packets) : Len(<<mbuf>> \o q) = Len(q) + 1 /\ Tail(<<mbuf>> \o q) = q
    <3>1. ASSUME NEW q \in Seq(Packets)
          PROVE  Len(<<mbuf>> \o q) = Len(q) + 1 /\ Tail(<<mbuf>> \o q) = q
      BY <2>1
    <3>2. QED BY <3>1
  <2>4. RingQueue' = Tail(RingQueue)
    BY <1>8, <2>2, <2>3
  <2>5. RingSent > 0 /\ RingSent' = RingSent - 1
    BY <1>8, <2>2, <2>3
  <2>6. QED BY <1>8, <1>11, <2>2, <2>4, <2>5 DEF mbuf
<1> QED BY <1>10, <1>11

(* Link changes empty the ring. *)
LEMMA FlushQueue ==
  ASSUME SetLinkDown \/ SetLinkUp
  PROVE  RingQueue' = <<>> /\ RingSent' = 0
<1>1. txNextDescIndex' = 0 /\ txDirtyDescIndex' = 0 /\ nicIndex' = 0
  BY DEF SetLinkDown, SetLinkUp, NicReset, ResetIndices
<1>2. InFlight' = 0 /\ Ahead(nicIndex, txDirtyDescIndex)' = 0
  BY <1>1, TxRingAssumption DEF InFlight, Ahead, Wrap
<1>3. MbufsIn(RingOrder', 0) = <<>>
  BY MbufsInStep
<1> QED BY <1>2, <1>3 DEF RingQueue, RingSent

(* The other steps leave the queue alone. *)
LEMMA OtherQueue ==
  ASSUME \/ OutputStart \/ DropPacket \/ LeaveLoop \/ OutputReturn
         \/ NicStop \/ TxInterrupt \/ ReclaimDone
         \/ \E p \in Packets : Dequeue(p)
         \/ \E numSegs \in 1 .. kMaxSegs : Reserve(numSegs)
  PROVE  UNCHANGED <<RingQueue, RingSent>>
<1>1. UNCHANGED <<txBufArray, txDirtyDescIndex, txNextDescIndex, nicIndex>>
  BY DEF OutputStart, DropPacket, LeaveLoop, OutputReturn, NicStop, TxInterrupt,
         ReclaimDone, Dequeue, Reserve, ringVars, nicVars
<1> QED BY <1>1, SameRing

-----------------------------------------------------------------------------
(* The transmit side keeps its promise to the stack (TxQueue): whatever    *)
(* the threads and the NIC do, packets are sent in the order in which      *)
(* outputStart() took them and given back once, after they were sent.      *)
THEOREM RingIsQueue == Spec /\ LinkFlaps = FALSE => TxQueueSpec
<1>1. Init => Q!Init
  BY EmptyRing DEF Init, Q!Init
<1>2. IInv /\ [Next]_vars => [Q!Next]_(Q!vars)
  <2> SUFFICES ASSUME IInv, [Next]_vars PROVE [Q!Next]_(Q!vars)
    OBVIOUS
  <2>0. UNCHANGED <<RingQueue, RingSent>> => UNCHANGED Q!vars
    BY DEF Q!vars
  <2>1. CASE OutputThread
    <3>1. CASE FillDesc
      <4>1. CASE outDone + 1 = outSegs
        <5>1. outPkt \in Packets
          BY <3>1 DEF IInv, TypeOK, OutInv, FillDesc
        <5>2. outPkt \notin Q!Queued
          <6>1. \A s \in Slots : txBufArray[s] # outPkt
            BY <5>1, TxRingAssumption DEF IInv, EachMbufOnce
          <6>2. QED BY <6>1, RingLists DEF Q!Queued
        <5>3. RingQueue' = Append(RingQueue, outPkt) /\ RingSent' = RingSent
          BY <3>1, <4>1, FillQueue
        <5>4. QED BY <5>1, <5>2, <5>3 DEF Q!Next, Q!Accept
      <4>2. CASE outDone + 1 # outSegs
        BY <2>0, <3>1, <4>2, FillQueue
      <4>3. QED BY <4>1, <4>2
    <3>2. CASE Publish
      BY <2>0, <3>2, PublishQueue
    <3>3. QED BY <2>0, <2>1, <3>1, <3>2, OtherQueue DEF OutputThread
  <2>2. CASE Nic
    <3>1. CASE NicSend
      BY <2>0, <3>1, SendQueue DEF Q!Next, Q!Transmit
    <3>2. QED BY <2>0, <2>2, <3>1, OtherQueue DEF Nic
  <2>3. CASE Reclaimer
    <3>1. CASE Reclaim
      BY <2>0, <3>1, ReclaimQueue DEF Q!Next, Q!Release
    <3>2. QED BY <2>0, <2>3, <3>1, OtherQueue DEF Reclaimer
  <2>4. CASE SetLinkDown \/ SetLinkUp
    BY <2>4, FlushQueue DEF Q!Next, Q!Flush
  <2>5. CASE UNCHANGED vars
    BY <2>0, <2>5, SameRing DEF vars, ringVars, nicVars
  <2> QED BY <2>1, <2>2, <2>3, <2>4, <2>5 DEF Next
<1> QED BY <1>1, <1>2, Inductive, PTL DEF Spec, TxQueueSpec, Q!Spec

-----------------------------------------------------------------------------
(***************************************************************************)
(* The transmit ring with its map is a transmit ring: what is shown above  *)
(* of every TxRing holds with AppleVTD too.  And as long as there are      *)
(* memory descriptors, the map follows the ring.                           *)
(***************************************************************************)

(* What txMapPacket() and txUnmapPacket() do changes nothing of the ring,  *)
(* and they run within steps of the ring: the ring's behaviour is the one  *)
(* it has without a map.                                                   *)
LEMMA MapKeepsRing == MapSpec => Spec
<1>1. MapInit => Init
  BY DEF MapInit
<1>2. [MapNext]_allVars => [Next]_vars
  <2>1. CASE MapNext
    BY <2>1 DEF MapNext, MapStep, OtherStep, Next, OutputThread, Nic, Reclaimer
  <2>2. CASE UNCHANGED allVars
    BY <2>2 DEF allVars
  <2> QED
    BY <2>1, <2>2
<1> QED
  BY <1>1, <1>2, PTL DEF MapSpec, Spec

(* Whatever is mapped, txNumFreeDesc, the indices and the close pointer    *)
(* account for every descriptor of the ring.                               *)
THEOREM AccountingWithMap == MapSpec /\ LinkFlaps = FALSE => []Accounting
BY MapKeepsRing, AccountingCorrect

-----------------------------------------------------------------------------
(* The two rings in step.                                                  *)

(* The memory descriptors in use, and the k-th from the one freed next on. *)
InUse    == kNumTxMemDesc - txNumFreeMem
MemAt(k) == (txNextMem2Free + k) % kNumTxMemDesc

MapType ==
  /\ kNumTxMemDesc \in Nat \ {0}
  /\ txNextMem2Use \in MemDescs /\ txNextMem2Free \in MemDescs
  /\ txNumFreeMem \in Int
  /\ txMemIO \in [MemDescs -> Packets \cup {NoMbuf}]

(* The memory descriptors in use are those from txNextMem2Free up to       *)
(* txNextMem2Use, and they map the packets in the ring one after another.  *)
InStep ==
  /\ txNumFreeMem >= 1 /\ txNumFreeMem <= kNumTxMemDesc
  /\ Len(PacketsInRing) = InUse
  /\ txNextMem2Use = MemAt(InUse)
  /\ \A k \in MemDescs :
       txMemIO[MemAt(k)] = IF k < InUse THEN PacketsInRing[k + 1] ELSE NoMbuf

MapInv == MapType /\ (~starved => InStep)

(* A modulus of a sum of two remainders.                                   *)
LEMMA ModOnce ==
  ASSUME NEW x \in Nat, NEW n \in Nat, n > 0, x < n + n
  PROVE  x % n = IF x < n THEN x ELSE x - n
OBVIOUS

(* MemAt counts the memory descriptors through, each once. *)
LEMMA MemAtIs ==
  ASSUME MapType
  PROVE  /\ \A k \in MemDescs :
              /\ MemAt(k) = IF txNextMem2Free + k < kNumTxMemDesc
                            THEN txNextMem2Free + k
                            ELSE txNextMem2Free + k - kNumTxMemDesc
              /\ MemAt(k) \in MemDescs
         /\ \A i \in MemDescs : \E k \in MemDescs : MemAt(k) = i
<1>1. /\ kNumTxMemDesc \in Nat /\ kNumTxMemDesc > 0 /\ txNextMem2Free \in Nat
      /\ txNextMem2Free < kNumTxMemDesc
  BY DEF MapType, MemDescs
<1>2. ASSUME NEW k \in MemDescs
      PROVE  /\ MemAt(k) = IF txNextMem2Free + k < kNumTxMemDesc
                           THEN txNextMem2Free + k
                           ELSE txNextMem2Free + k - kNumTxMemDesc
             /\ MemAt(k) \in MemDescs
  <2>1. txNextMem2Free + k \in Nat /\ txNextMem2Free + k < kNumTxMemDesc + kNumTxMemDesc
    BY <1>1 DEF MemDescs
  <2>2. MemAt(k) = IF txNextMem2Free + k < kNumTxMemDesc THEN txNextMem2Free + k
                   ELSE (txNextMem2Free + k) - kNumTxMemDesc
    BY <1>1, <2>1, ModOnce, Zenon DEF MemAt
  <2>3. QED BY <1>1, <2>1, <2>2 DEF MemDescs
<1>3. ASSUME NEW i \in MemDescs PROVE \E k \in MemDescs : MemAt(k) = i
  <2> DEFINE k == IF i >= txNextMem2Free THEN i - txNextMem2Free
                  ELSE i - txNextMem2Free + kNumTxMemDesc
  <2>1. k \in MemDescs
    BY <1>1 DEF MemDescs
  <2>2. MemAt(k) = i
    BY <1>1, <1>2, <2>1 DEF MemDescs
  <2>3. QED BY <2>1, <2>2
<1> QED BY <1>2, <1>3

(* Two of them are never the same. *)
LEMMA MemAtOnce ==
  ASSUME MapType, NEW i \in MemDescs, NEW k \in MemDescs, MemAt(i) = MemAt(k)
  PROVE  i = k
<1>1. /\ kNumTxMemDesc \in Nat /\ txNextMem2Free \in Nat
      /\ txNextMem2Free < kNumTxMemDesc
  BY DEF MapType, MemDescs
<1>2. QED BY <1>1, MemAtIs DEF MemDescs

(* The next one in turn. *)
LEMMA NextMem ==
  ASSUME MapType, NEW i \in MemDescs
  PROVE  /\ (i + 1) % kNumTxMemDesc \in MemDescs
         /\ (i + 1) % kNumTxMemDesc = IF i + 1 = kNumTxMemDesc THEN 0 ELSE i + 1
<1>1. /\ kNumTxMemDesc \in Nat /\ kNumTxMemDesc > 0 /\ i + 1 \in Nat
      /\ i + 1 <= kNumTxMemDesc /\ i + 1 < kNumTxMemDesc + kNumTxMemDesc
  BY DEF MapType, MemDescs
<1>2. (i + 1) % kNumTxMemDesc = IF i + 1 < kNumTxMemDesc THEN i + 1
                                ELSE (i + 1) - kNumTxMemDesc
  BY <1>1, ModOnce, Zenon
<1> QED BY <1>1, <1>2 DEF MemDescs

(* PacketsInRing is a sequence of packets. *)
LEMMA PacketsInRingType ==
  ASSUME IInv
  PROVE  /\ PacketsInRing \in Seq(Packets) /\ RingQueue \in Seq(Packets)
         /\ outPc \in {"publish", "fill"} =>
              outPkt \in Packets /\ PacketsInRing = Append(RingQueue, outPkt)
         /\ outPc \notin {"publish", "fill"} => PacketsInRing = RingQueue
<1>1. RingQueue \in Seq(Packets)
  BY RingLists
<1>2. CASE outPc \in {"publish", "fill"}
  <2>1. outPkt \in Packets
    BY <1>2 DEF IInv, TypeOK, OutInv
  <2>2. PacketsInRing = RingQueue \o <<outPkt>>
    BY <1>2 DEF PacketsInRing
  <2>3. RingQueue \o <<outPkt>> = Append(RingQueue, outPkt)
    BY <1>1, <2>1
  <2>4. QED BY <1>1, <1>2, <2>1, <2>2, <2>3
<1>3. CASE outPc \notin {"publish", "fill"}
  <2>1. PacketsInRing = RingQueue \o <<>>
    BY <1>3 DEF PacketsInRing
  <2>2. QED BY <1>1, <1>3, <2>1
<1> QED BY <1>2, <1>3

(* The packets in the ring are a sequence,                                 *)
LEMMA PacketsInRingSeq ==
  IInv => PacketsInRing \in Seq(Packets) /\ RingQueue \in Seq(Packets)
BY PacketsInRingType

(* in the next state too.                                                  *)
LEMMA PacketsInRingNext ==
  IInv' => PacketsInRing' \in Seq(Packets) /\ RingQueue' \in Seq(Packets)
<1>1. IInv' => (PacketsInRing \in Seq(Packets) /\ RingQueue \in Seq(Packets))'
  BY PacketsInRingSeq, PTL
<1> QED BY <1>1

(* The invariant is what the property says. *)
LEMMA InStepFollows ==
  ASSUME IInv, MapType, InStep
  PROVE  MapOrder = PacketsInRing /\ txNumFreeMem + NumMapped = kNumTxMemDesc
<1> DEFINE S == {i \in MemDescs : txMemIO[i] # NoMbuf}
           f == [j \in 1 .. InUse |-> MemAt(j - 1)]
<1>1. /\ kNumTxMemDesc \in Nat /\ InUse \in Nat /\ InUse < kNumTxMemDesc
      /\ txNumFreeMem = kNumTxMemDesc - InUse /\ txNextMem2Free \in Nat
  BY DEF MapType, InStep, InUse, MemDescs
<1>2. PacketsInRing \in Seq(Packets) /\ Len(PacketsInRing) = InUse
  BY PacketsInRingType DEF InStep
<1>3. \A j \in 1 .. InUse : j - 1 \in MemDescs /\ j - 1 < InUse /\ (j - 1) + 1 = j
  BY <1>1 DEF MemDescs
<1>4. \A j \in 1 .. InUse : txMemIO[MemAt(j - 1)] = PacketsInRing[j]
  BY <1>3 DEF InStep
<1>5. f \in Injection(1 .. InUse, S)
  <2>1. ASSUME NEW j \in 1 .. InUse PROVE f[j] \in S
    <3>1. PacketsInRing[j] \in Packets
      BY <1>2
    <3>2. PacketsInRing[j] # NoMbuf
      BY <3>1, TxRingAssumption
    <3>3. MemAt(j - 1) \in MemDescs
      BY <1>3, MemAtIs
    <3>4. QED BY <1>4, <3>2, <3>3
  <2>2. ASSUME NEW i \in 1 .. InUse, NEW j \in 1 .. InUse, f[i] = f[j]
        PROVE  i = j
    <3>1. MemAt(i - 1) = MemAt(j - 1)
      BY <2>2
    <3>2. i - 1 = j - 1
      BY <1>3, <3>1, MemAtOnce
    <3>3. QED BY <3>2
  <2> HIDE DEF S
  <2>3. f \in [1 .. InUse -> S]
    BY <2>1
  <2> HIDE DEF f
  <2>4. \A i, j \in 1 .. InUse : f[i] = f[j] => i = j
    BY <2>2
  <2>5. QED BY <2>3, <2>4, Zenon DEF Injection, IsInjective
<1>6. \A i \in S : \E j \in 1 .. InUse : f[j] = i
  <2>1. ASSUME NEW i \in S PROVE \E j \in 1 .. InUse : f[j] = i
    <3>1. PICK k \in MemDescs : MemAt(k) = i
      BY MemAtIs
    <3>2. k < InUse
      BY <3>1 DEF InStep
    <3>3. k + 1 \in 1 .. InUse /\ (k + 1) - 1 = k
      BY <1>1, <3>2 DEF MemDescs
    <3>4. f[k + 1] = i
      BY <3>1, <3>3
    <3>5. QED BY <3>3, <3>4
  <2>2. QED BY <2>1
<1>7. NumMapped = InUse
  <2> HIDE DEF f, S
  <2>1. f \in Bijection(1 .. InUse, S)
    BY <1>5, <1>6 DEF Bijection, Surjection, Injection
  <2>2. ExistsBijection(1 .. InUse, S)
    BY <2>1, Zenon DEF ExistsBijection
  <2>3. Cardinality(S) = InUse
    BY <1>1, <2>2, FS_CountingElements
  <2>4. QED BY <2>3 DEF NumMapped, S
<1>8. MapOrder = [j \in 1 .. InUse |-> PacketsInRing[j]]
  <2>1. \A j \in 1 .. InUse : MemAt(j - 1) = (txNextMem2Free + j - 1) % kNumTxMemDesc
    <3>1. \A j \in 1 .. InUse : txNextMem2Free + (j - 1) = txNextMem2Free + j - 1
      BY <1>1
    <3>2. QED BY <3>1 DEF MemAt
  <2>2. QED BY <1>4, <1>7, <2>1 DEF MapOrder
<1>9. PacketsInRing = [j \in 1 .. InUse |-> PacketsInRing[j]]
  BY <1>2
<1> QED BY <1>1, <1>7, <1>8, <1>9

-----------------------------------------------------------------------------
(* The map of each step.                                                   *)

(* AppleVTD starts with nothing mapped, as the ring with nothing queued.   *)
LEMMA InitMapInv == MapInit => MapInv
<1> SUFFICES ASSUME MapInit PROVE MapInv
  OBVIOUS
<1>1. /\ kNumTxMemDesc \in Nat \ {0} /\ txNextMem2Use = 0 /\ txNextMem2Free = 0
      /\ txNumFreeMem = kNumTxMemDesc /\ txMemIO = [i \in MemDescs |-> NoMbuf]
  BY TxMapAssumption DEF MapInit
<1>2. MapType
  BY <1>1 DEF MapType, MemDescs
<1>3. PacketsInRing = <<>>
  <2>1. RingQueue = <<>> /\ outPc = "idle"
    BY EmptyRing DEF MapInit, Init
  <2>2. QED BY <2>1 DEF PacketsInRing
<1>4. InUse = 0 /\ 0 \in MemDescs /\ 0 % kNumTxMemDesc = 0
  BY <1>1 DEF InUse, MemDescs
<1>5. MemAt(0) = 0
  BY <1>1, <1>4 DEF MemAt
<1>6. \A k \in MemDescs : txMemIO[MemAt(k)] = NoMbuf /\ ~(k < InUse)
  BY <1>1, <1>2, <1>4, MemAtIs DEF MemDescs
<1>7. InStep
  BY <1>1, <1>3, <1>4, <1>5, <1>6 DEF InStep
<1> QED BY <1>2, <1>7 DEF MapInv

(* A packet is mapped: its memory descriptor is the first free one.        *)
LEMMA MapPacketInv ==
  ASSUME IInv, IInv', MapInv, NEW numSegs \in 1 .. kMaxSegs, Reserve(numSegs),
         MapPacket, UNCHANGED kNumTxMemDesc
  PROVE  MapInv'
<1> DEFINE K == kNumTxMemDesc
           n == InUse
<1>1. /\ K \in Nat /\ K > 0 /\ txNextMem2Free \in MemDescs
      /\ txNextMem2Use \in MemDescs
      /\ txNumFreeMem \in Int /\ txMemIO \in [MemDescs -> Packets \cup {NoMbuf}]
      /\ MapType
  BY DEF MapInv, MapType
<1>2. /\ txNumFreeMem > 1 /\ txNumFreeMem' = txNumFreeMem - 1
      /\ txNextMem2Use' = (txNextMem2Use + 1) % kNumTxMemDesc
      /\ txMemIO' = [txMemIO EXCEPT ![txNextMem2Use] = outPkt]
      /\ txNextMem2Free' = txNextMem2Free /\ starved' = starved
      /\ MemDescs' = MemDescs /\ kNumTxMemDesc' = kNumTxMemDesc
  BY DEF MapPacket, MemDescs
<1>3. outPkt \in Packets /\ outPkt' = outPkt /\ outPc = "map" /\ outPc' = "publish"
  BY DEF IInv, TypeOK, OutInv, Reserve
<1>4. MapType'
  <2>1. txNextMem2Use' \in MemDescs
    BY <1>1, <1>2, NextMem
  <2>2. txMemIO' \in [MemDescs -> Packets \cup {NoMbuf}]
    BY <1>1, <1>2, <1>3
  <2>3. QED BY <1>1, <1>2, <2>1, <2>2 DEF MapType
<1>5. ASSUME ~starved, InStep PROVE InStep'
  <2>1. /\ n \in Nat /\ n + 1 < K /\ InUse' = n + 1 /\ txNumFreeMem = K - n
        /\ n \in MemDescs /\ n + 1 \in MemDescs
    BY <1>1, <1>2, <1>5 DEF InStep, InUse, MemDescs
  <2>2. \A k : MemAt(k)' = MemAt(k)
    BY <1>2 DEF MemAt
  <2>3. PacketsInRing' = Append(PacketsInRing, outPkt)
    <3>1. RingQueue' = RingQueue
      BY OtherQueue
    <3>2. PacketsInRing = RingQueue
      BY <1>3, PacketsInRingType
    <3>3. PacketsInRing' = RingQueue \o <<outPkt>>
      BY <1>3, <3>1 DEF PacketsInRing
    <3>4. QED BY <1>3, <3>2, <3>3, PacketsInRingType
  <2>4. PacketsInRing \in Seq(Packets) /\ Len(PacketsInRing) = n
    BY <1>5, PacketsInRingType DEF InStep
  <2>5. /\ Len(PacketsInRing') = n + 1
        /\ PacketsInRing'[n + 1] = outPkt
        /\ \A j \in 1 .. n : PacketsInRing'[j] = PacketsInRing[j]
    BY <1>3, <2>3, <2>4
  <2>6. txNextMem2Use = MemAt(n)
    BY <1>5 DEF InStep
  <2>7. txNextMem2Use' = MemAt(n + 1)
    <3>1. /\ MemAt(n) = IF txNextMem2Free + n < K THEN txNextMem2Free + n
                        ELSE txNextMem2Free + n - K
          /\ MemAt(n + 1) = IF txNextMem2Free + (n + 1) < K
                            THEN txNextMem2Free + (n + 1)
                            ELSE txNextMem2Free + (n + 1) - K
      BY <1>1, <2>1, MemAtIs
    <3>2. txNextMem2Use' = IF txNextMem2Use + 1 = K THEN 0 ELSE txNextMem2Use + 1
      BY <1>1, <1>2, NextMem
    <3>3. txNextMem2Free \in 0 .. K - 1
      BY <1>1 DEF MemDescs
    <3> HIDE DEF n
    <3>4. QED BY <1>1, <2>1, <2>6, <3>1, <3>2, <3>3
  <2>8. ASSUME NEW k \in MemDescs
        PROVE  txMemIO'[MemAt(k)] =
                 IF k < n + 1 THEN PacketsInRing'[k + 1] ELSE NoMbuf
    <3>1. MemAt(k) \in MemDescs
      BY <1>1, MemAtIs
    <3>2. CASE k = n
      BY <1>1, <1>2, <2>1, <2>5, <2>6, <3>1, <3>2
    <3>3. CASE k # n
      <4>1. MemAt(k) # MemAt(n)
        BY <1>1, <2>1, <3>3, MemAtOnce
      <4>2. txMemIO'[MemAt(k)] = txMemIO[MemAt(k)]
        BY <1>1, <1>2, <2>6, <3>1, <4>1
      <4>3. txMemIO[MemAt(k)] = IF k < n THEN PacketsInRing[k + 1] ELSE NoMbuf
        BY <1>5 DEF InStep
      <4>4. k < n + 1 <=> k < n
        BY <1>1, <2>1, <3>3 DEF MemDescs
      <4>5. k < n => k + 1 \in 1 .. n
        BY <1>1, <2>1 DEF MemDescs
      <4>6. QED BY <2>5, <4>2, <4>3, <4>4, <4>5
    <3>4. QED BY <3>2, <3>3
  <2> HIDE DEF n
  <2>9. QED BY <1>1, <1>2, <2>1, <2>2, <2>5, <2>7, <2>8 DEF InStep
<1> QED BY <1>2, <1>4, <1>5 DEF MapInv

(* A packet is unmapped: it is the oldest one, and so is the descriptor.   *)
LEMMA UnmapPacketInv ==
  ASSUME IInv, IInv', MapInv, Reclaim, TxUnmapPacket, UNCHANGED kNumTxMemDesc
  PROVE  MapInv'
<1> DEFINE K == kNumTxMemDesc
           n == InUse
           mbuf == txBufArray[txDirtyDescIndex]
<1>1. /\ K \in Nat /\ K > 0 /\ txNextMem2Free \in MemDescs
      /\ txNextMem2Use \in MemDescs
      /\ txNumFreeMem \in Int /\ txMemIO \in [MemDescs -> Packets \cup {NoMbuf}]
      /\ MapType
  BY DEF MapInv, MapType
<1>2. /\ mbuf # NoMbuf /\ txNumFreeMem' = txNumFreeMem + 1
      /\ txNextMem2Free' = (txNextMem2Free + 1) % kNumTxMemDesc
      /\ txMemIO' = [txMemIO EXCEPT ![txNextMem2Free] = NoMbuf]
      /\ txNextMem2Use' = txNextMem2Use /\ starved' = starved
      /\ MemDescs' = MemDescs /\ kNumTxMemDesc' = kNumTxMemDesc
  BY DEF TxUnmapPacket, UnmapNow, MemDescs
<1>3. txNextMem2Free' = IF txNextMem2Free + 1 = K THEN 0 ELSE txNextMem2Free + 1
  BY <1>1, <1>2, NextMem
<1>4. MapType'
  <2>1. txNextMem2Free' \in MemDescs
    BY <1>1, <1>2, NextMem
  <2>2. txMemIO' \in [MemDescs -> Packets \cup {NoMbuf}]
    BY <1>1, <1>2
  <2>3. QED BY <1>1, <1>2, <2>1, <2>2 DEF MapType
<1>5. ASSUME ~starved, InStep PROVE InStep'
  <2>1. PacketsInRing = <<mbuf>> \o PacketsInRing' /\ mbuf \in Packets
    <3>1. mbuf \in Packets
      BY <1>2 DEF IInv, TypeOK
    <3>2. RingQueue = <<mbuf>> \o RingQueue' /\ UNCHANGED <<outPc, outPkt>>
      BY <1>2, ReclaimQueue DEF Reclaim, outVars
    <3>3. RingQueue' \in Seq(Packets)
      BY PacketsInRingNext
    <3>4. CASE outPc \in {"publish", "fill"}
      <4>1. outPkt \in Packets /\ PacketsInRing = Append(RingQueue, outPkt)
        BY <3>4, PacketsInRingType
      <4>2. PacketsInRing' = RingQueue' \o <<outPkt>>
        BY <3>2, <3>4 DEF PacketsInRing
      <4>3. \A q \in Seq(Packets) :
              Append(<<mbuf>> \o q, outPkt) = <<mbuf>> \o (q \o <<outPkt>>)
        <5>1. ASSUME NEW q \in Seq(Packets)
              PROVE  Append(<<mbuf>> \o q, outPkt) = <<mbuf>> \o (q \o <<outPkt>>)
          BY <3>1, <4>1
        <5>2. QED BY <5>1
      <4>4. QED BY <3>1, <3>2, <3>3, <4>1, <4>2, <4>3
    <3>5. CASE outPc \notin {"publish", "fill"}
      <4>1. PacketsInRing = RingQueue
        BY <3>5, PacketsInRingType
      <4>2. PacketsInRing' = RingQueue' \o <<>>
        BY <3>2, <3>5 DEF PacketsInRing
      <4>3. RingQueue' \o <<>> = RingQueue'
        BY <3>3
      <4>4. QED BY <3>1, <3>2, <4>1, <4>2, <4>3
    <3>6. QED BY <3>4, <3>5
  <2>2. PacketsInRing' \in Seq(Packets)
    BY PacketsInRingNext
  <2>3. Len(PacketsInRing) = n
    BY <1>5 DEF InStep
  <2>4. /\ n = Len(PacketsInRing') + 1 /\ Len(PacketsInRing') \in Nat
        /\ \A j \in 1 .. Len(PacketsInRing') : PacketsInRing'[j] = PacketsInRing[j + 1]
    <3>1. \A q \in Seq(Packets) :
            /\ Len(<<mbuf>> \o q) = Len(q) + 1 /\ Len(q) \in Nat
            /\ \A j \in 1 .. Len(q) : q[j] = (<<mbuf>> \o q)[j + 1]
      <4>1. ASSUME NEW q \in Seq(Packets)
            PROVE  /\ Len(<<mbuf>> \o q) = Len(q) + 1 /\ Len(q) \in Nat
                   /\ \A j \in 1 .. Len(q) : q[j] = (<<mbuf>> \o q)[j + 1]
        BY <2>1
      <4>2. QED BY <4>1
    <3>2. QED BY <2>1, <2>2, <2>3, <3>1
  <2>5. /\ n \in Nat /\ n > 0 /\ n < K /\ InUse' = n - 1 /\ txNumFreeMem = K - n
        /\ n \in MemDescs /\ n - 1 \in MemDescs /\ 0 \in MemDescs
    BY <1>1, <1>2, <1>5, <2>4 DEF InStep, InUse, MemDescs
  <2>6. ASSUME NEW k \in MemDescs
        PROVE  IF k = K - 1 THEN MemAt(k)' = txNextMem2Free
               ELSE k + 1 \in MemDescs /\ MemAt(k)' = MemAt(k + 1)
    <3>1. MemAt(k)' = IF txNextMem2Free' + k < K THEN txNextMem2Free' + k
                      ELSE (txNextMem2Free' + k) - K
      <4>1. /\ txNextMem2Free' + k \in Nat /\ txNextMem2Free' + k < K + K
            /\ K \in Nat /\ K > 0
        BY <1>1, <1>3 DEF MemDescs
      <4>2. MemAt(k)' = (txNextMem2Free' + k) % K
        BY <1>2 DEF MemAt
      <4>3. QED BY <4>1, <4>2, ModOnce, Zenon
    <3>2. k + 1 < K => k + 1 \in MemDescs /\ MemAt(k + 1) =
             IF txNextMem2Free + (k + 1) < K THEN txNextMem2Free + (k + 1)
             ELSE txNextMem2Free + (k + 1) - K
      <4>1. k + 1 < K => k + 1 \in MemDescs
        BY <1>1 DEF MemDescs
      <4>2. QED BY <1>1, <4>1, MemAtIs
    <3>3. txNextMem2Free \in 0 .. K - 1 /\ k \in 0 .. K - 1
      BY <1>1 DEF MemDescs
    <3>4. QED BY <1>1, <1>3, <3>1, <3>2, <3>3
  <2>7. txNextMem2Use' = MemAt(InUse)'
    <3>1. txNextMem2Use = MemAt(n) /\ n - 1 \in MemDescs /\ InUse' = n - 1
      BY <1>5, <2>5 DEF InStep
    <3> HIDE DEF n
    <3>2. PICK j \in MemDescs : j = n - 1
      BY <3>1
    <3>3. j # K - 1 /\ j + 1 = n
      BY <1>1, <2>5, <3>2
    <3>4. txNextMem2Use' = MemAt(j)'
      BY <1>2, <2>6, <3>1, <3>3
    <3>5. QED BY <3>1, <3>2, <3>4 DEF MemAt
  <2>8. ASSUME NEW k \in MemDescs
        PROVE  txMemIO'[MemAt(k)'] =
                 IF k < n - 1 THEN PacketsInRing'[k + 1] ELSE NoMbuf
    <3>1. CASE k = K - 1
      <4>1. MemAt(k)' = txNextMem2Free /\ ~(k < n - 1)
        BY <1>1, <2>5, <2>6, <3>1
      <4>2. QED BY <1>1, <1>2, <4>1
    <3>2. CASE k # K - 1
      <4>1. k + 1 \in MemDescs /\ MemAt(k)' = MemAt(k + 1)
        BY <2>6, <3>2
      <4>2. MemAt(k + 1) \in MemDescs /\ MemAt(k + 1) # txNextMem2Free
        <5>1. MemAt(0) = txNextMem2Free
          BY <1>1, <2>5, MemAtIs DEF MemDescs
        <5>2. k + 1 # 0
          BY DEF MemDescs
        <5>3. QED BY <1>1, <2>5, <4>1, <5>1, <5>2, MemAtIs, MemAtOnce
      <4>3. txMemIO'[MemAt(k)'] = txMemIO[MemAt(k + 1)]
        BY <1>1, <1>2, <4>1, <4>2
      <4>4. txMemIO[MemAt(k + 1)] =
              IF k + 1 < n THEN PacketsInRing[(k + 1) + 1] ELSE NoMbuf
        BY <1>5, <4>1 DEF InStep
      <4>5. /\ k + 1 < n <=> k < n - 1
            /\ k < n - 1 => k + 1 \in 1 .. Len(PacketsInRing')
        BY <1>1, <2>4, <2>5 DEF MemDescs
      <4>6. QED BY <2>4, <4>3, <4>4, <4>5
    <3>3. QED BY <3>1, <3>2
  <2>9. /\ txNumFreeMem' >= 1 /\ txNumFreeMem' <= kNumTxMemDesc'
        /\ Len(PacketsInRing') = n - 1
    BY <1>1, <1>2, <2>4, <2>5
  <2>10. n - 1 = InUse'
    BY <2>5
  <2> HIDE DEF n
  <2>11. QED BY <1>2, <2>7, <2>8, <2>9, <2>10 DEF InStep
<1> QED BY <1>2, <1>4, <1>5 DEF MapInv

(* What leaves the packets and the map alone. *)
LEMMA SameMapInv ==
  ASSUME MapInv, PacketsInRing' = PacketsInRing,
         UNCHANGED <<txNextMem2Use, txNextMem2Free, txNumFreeMem, txMemIO,
                     starved, kNumTxMemDesc>>
  PROVE  MapInv'
BY DEF MapInv, MapType, InStep, InUse, MemAt, MemDescs

(* Every step of the ring and of the mapping preserves MapInv.             *)
LEMMA MapNextInv == IInv /\ IInv' /\ MapInv /\ [MapNext]_allVars => MapInv'
<1> SUFFICES ASSUME IInv, IInv', MapInv, [MapNext]_allVars PROVE MapInv'
  OBVIOUS
<1>0. UNCHANGED <<RingQueue, outPc, outPkt>> => PacketsInRing' = PacketsInRing
  BY DEF PacketsInRing
<1>1. ASSUME MapStep, UNCHANGED kNumTxMemDesc PROVE MapInv'
  <2>1. ASSUME NEW numSegs \in 1 .. kMaxSegs, Reserve(numSegs), MapPacket
        PROVE  MapInv'
    BY <1>1, <2>1, MapPacketInv
  <2>2. CASE SkipMapping
    BY <1>1, <2>2 DEF MapInv, MapType, SkipMapping, MemDescs
  <2>3. CASE FillDesc /\ FillAddress
    <3>1. UNCHANGED <<txNextMem2Use, txNextMem2Free, txNumFreeMem, txMemIO, starved>>
      BY <2>3 DEF FillAddress
    <3>2. /\ outPc = "fill" /\ outPkt \in Packets
          /\ PacketsInRing = Append(RingQueue, outPkt) /\ RingQueue \in Seq(Packets)
      BY <2>3, PacketsInRingType DEF FillDesc
    <3>3. PacketsInRing' = PacketsInRing
      <4>1. CASE outDone + 1 = outSegs
        <5>1. RingQueue' = Append(RingQueue, outPkt) /\ outPc' = "loop"
          BY <2>3, <4>1, FillQueue DEF FillDesc
        <5>2. PacketsInRing' = Append(RingQueue, outPkt) \o <<>>
          BY <5>1 DEF PacketsInRing
        <5>3. Append(RingQueue, outPkt) \o <<>> = Append(RingQueue, outPkt)
          BY <3>2
        <5>4. QED BY <3>2, <5>2, <5>3
      <4>2. CASE outDone + 1 # outSegs
        BY <1>0, <2>3, <4>2, FillQueue DEF FillDesc
      <4>3. QED BY <4>1, <4>2
    <3>4. QED BY <1>1, <3>1, <3>3, SameMapInv
  <2>4. CASE Reclaim /\ TxUnmapPacket
    BY <1>1, <2>4, UnmapPacketInv
  <2>5. CASE SetLinkDown /\ ClearTxMap
    <3>1. RingQueue' = <<>>
      BY <2>5, FlushQueue
    <3>2. outPc' = "idle"
      BY <2>5 DEF SetLinkDown, outVars
    <3>3. PacketsInRing' = <<>>
      BY <3>1, <3>2 DEF PacketsInRing
    <3>4. /\ kNumTxMemDesc \in Nat /\ kNumTxMemDesc > 0
          /\ kNumTxMemDesc' = kNumTxMemDesc /\ MemDescs' = MemDescs
          /\ txNextMem2Use' = 0 /\ txNextMem2Free' = 0
          /\ txNumFreeMem' = kNumTxMemDesc
          /\ txMemIO' = [i \in MemDescs |-> NoMbuf]
      BY <1>1, <2>5 DEF MapInv, MapType, ClearTxMap, MemDescs
    <3>5. ASSUME NEW k \in MemDescs PROVE MemAt(k)' = k
      <4>1. k \in Nat /\ k < kNumTxMemDesc + kNumTxMemDesc /\ k < kNumTxMemDesc
        BY <3>4 DEF MemDescs
      <4>2. k % kNumTxMemDesc = IF k < kNumTxMemDesc THEN k ELSE k - kNumTxMemDesc
        BY <3>4, <4>1, ModOnce, Zenon
      <4>3. 0 + k = k
        BY <4>1
      <4>4. MemAt(k)' = (0 + k) % kNumTxMemDesc
        BY <3>4 DEF MemAt
      <4>5. QED BY <4>1, <4>2, <4>3, <4>4
    <3>6. 0 \in MemDescs /\ InUse' = 0
      BY <3>4 DEF MemDescs, InUse
    <3>7. MapType'
      BY <3>4, <3>6 DEF MapType
    <3>8. \A k \in MemDescs : txMemIO'[MemAt(k)'] = NoMbuf /\ ~(k < 0)
      BY <3>4, <3>5 DEF MemDescs
    <3>9. InStep'
      <4>1. txNextMem2Use' = MemAt(0)'
        BY <3>4, <3>5, <3>6
      <4>2. txNumFreeMem' >= 1 /\ txNumFreeMem' <= kNumTxMemDesc'
        BY <3>4
      <4>3. QED BY <3>3, <3>4, <3>6, <3>8, <4>1, <4>2 DEF InStep
    <3>10. QED BY <3>7, <3>9 DEF MapInv
  <2>6. CASE NicSend /\ ForgetAddress
    <3>1. UNCHANGED <<RingQueue, outPc, outPkt>>
      BY <2>6, SendQueue DEF NicSend, outVars
    <3>2. QED BY <1>0, <1>1, <2>6, <3>1, SameMapInv DEF ForgetAddress
  <2>7. QED BY <1>1, <2>1, <2>2, <2>3, <2>4, <2>5, <2>6 DEF MapStep
<1>2. ASSUME OtherStep, UNCHANGED kNumTxMemDesc PROVE MapInv'
  <2>1. UNCHANGED <<txNextMem2Use, txNextMem2Free, txNumFreeMem, txMemIO, starved>>
    BY <1>2 DEF OtherStep, mapVars
  <2>2. SUFFICES PacketsInRing' = PacketsInRing
    BY <1>2, <2>1, SameMapInv
  <2>3. ASSUME UNCHANGED RingQueue,
               outPc \notin {"publish", "fill"}, outPc' \notin {"publish", "fill"}
        PROVE  PacketsInRing' = PacketsInRing
    BY <2>3 DEF PacketsInRing
  <2>4. CASE OutputStart \/ DropPacket \/ LeaveLoop \/ OutputReturn
             \/ \E p \in Packets : Dequeue(p)
    <3>1. UNCHANGED RingQueue
      BY <2>4, OtherQueue
    <3>2. outPc \notin {"publish", "fill"} /\ outPc' \notin {"publish", "fill"}
      BY <2>4 DEF OutputStart, DropPacket, LeaveLoop, OutputReturn, Dequeue
    <3>3. QED BY <2>3, <3>1, <3>2
  <2>5. CASE Publish
    <3>1. UNCHANGED RingQueue
      BY <2>5, PublishQueue
    <3>2. outPc = "publish" /\ outPc' = "fill" /\ outPkt' = outPkt
      BY <2>5 DEF Publish
    <3>3. QED BY <3>1, <3>2 DEF PacketsInRing
  <2>6. CASE NicStop \/ TxInterrupt \/ ReclaimDone
    <3>1. UNCHANGED RingQueue
      BY <2>6, OtherQueue
    <3>2. UNCHANGED <<outPc, outPkt>>
      BY <2>6 DEF NicStop, TxInterrupt, ReclaimDone, outVars
    <3>3. QED BY <1>0, <3>1, <3>2
  <2>7. CASE SetLinkUp
    <3>1. outPc = "idle" /\ InFlight = 0 /\ outPc' = outPc
      BY <2>7 DEF IInv, OutInv, SetLinkUp
    <3>2. RingQueue = <<>>
      BY <3>1, MbufsInStep DEF RingQueue
    <3>3. RingQueue' = <<>>
      BY <2>7, FlushQueue
    <3>4. QED BY <2>3, <3>1, <3>2, <3>3
  <2>8. CASE Reclaim /\ ~UnmapNow
    <3>1. UNCHANGED <<RingQueue, outPc, outPkt>>
      BY <2>8, ReclaimQueue DEF UnmapNow, Reclaim, outVars
    <3>2. QED BY <1>0, <3>1
  <2>9. QED BY <1>2, <2>4, <2>5, <2>6, <2>7, <2>8 DEF OtherStep
<1>3. CASE UNCHANGED allVars
  <2>1. UNCHANGED <<RingQueue, outPc, outPkt>>
    BY <1>3, SameRing DEF allVars, vars, ringVars, nicVars, outVars
  <2>2. QED BY <1>0, <1>3, <2>1, SameMapInv DEF allVars, mapVars
<1> QED BY <1>1, <1>2, <1>3 DEF MapNext

(* txUnmapPacket() completes the memory descriptor of the packet it is     *)
(* called for, although it knows the packet by nothing but its turn: until *)
(* the memory descriptors run out, the two rings go in step, whatever the  *)
(* number of either.                                                       *)
THEOREM MapInStep == MapSpec /\ LinkFlaps = FALSE => []MapFollowsRing
<1>1. MapInit => MapInv
  BY InitMapInv
<1>2. IInv /\ IInv' /\ MapInv /\ [MapNext]_allVars => MapInv'
  BY MapNextInv
<1>3. IInv /\ MapInv => MapFollowsRing
  BY InStepFollows DEF MapInv, MapFollowsRing
<1>4. MapSpec /\ LinkFlaps = FALSE => []IInv
  BY MapKeepsRing, Inductive
<1> QED BY <1>1, <1>2, <1>3, <1>4, PTL DEF MapSpec
=============================================================================
