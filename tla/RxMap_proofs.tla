----------------------------- MODULE RxMap_proofs -----------------------------
(***************************************************************************)
(* Safety of the receive ring with AppleVTD for every number and size of   *)
(* the batches.  IInv is the inductive invariant.                          *)
(***************************************************************************)
EXTENDS RxMap, TLAPS

-----------------------------------------------------------------------------
(* The inductive invariant.                                                *)

Addresses == {Current, Old, NoAddr}

TypeOK ==
  /\ phyAddr \in [Slots -> {Current, NoAddr}]
  /\ rxMemRange \in [Slots -> {Current, Old}]
  /\ prepared \subseteq Batches
  /\ descOwn \in [Slots -> BOOLEAN] /\ descEnd \in [Slots -> BOOLEAN]
  /\ descAddr \in [Slots -> Addresses]
  /\ rxNextDescIndex \in Slots /\ rxMapNextIndex \in Slots /\ nicIndex \in Slots
  /\ numMap \in 0 .. kMaxNumMap
  /\ rxPc \in {"idle", "loop", "map"}
  /\ filled \subseteq Slots
  /\ anyGood \in BOOLEAN /\ opened \in BOOLEAN /\ rxEnabled \in BOOLEAN
  /\ stale \in BOOLEAN /\ clearFailed \in BOOLEAN

(* The first slot of a batch, and the batches are mapped from there on. *)
MapIndexInv == rxMapNextIndex % kRxMemBatchSize = 0

(* An address on record leads to the buffer on record. *)
RecordInv == \A s \in Slots : phyAddr[s] = Current => rxMemRange[s] = Current

(* The NIC may write to slot s. *)
GoodSlot(s) ==
  Batch(s) \in prepared /\ descAddr[s] = Current /\ rxMemRange[s] = Current

(* The rings of a receiver that is off have been cleared, once opened. *)
OffInv ==
  /\ ~rxEnabled => rxPc = "idle"
  /\ ~rxEnabled /\ opened =>
       /\ \A s \in Slots : descOwn[s] /\ (~clearFailed => GoodSlot(s))
       /\ \A s \in Slots : descEnd[s] <=> s = kRxLastDesc
       /\ filled = {} /\ rxMapNextIndex = 0

FilledInv == \A s \in filled : ~descOwn[s]

(* How far s is ahead of rxMapNextIndex, and how many slots await mapping. *)
Ahead(s) == IF s >= rxMapNextIndex THEN s - rxMapNextIndex
            ELSE s - rxMapNextIndex + kNumRxDesc
NumAwaiting == IF Awaiting = Slots THEN kNumRxDesc ELSE Ahead(rxNextDescIndex)

(* The batches to be mapped after the loop have been processed, and so has *)
(* the part of the next one that lies behind rxNextDescIndex.              *)
CountInv ==
  /\ rxPc = "map" => numMap > 0
  /\ rxEnabled /\ ~stale =>
       /\ rxPc = "loop" =>
            NumAwaiting >= kRxMemBatchSize * numMap + (rxNextDescIndex % kRxMemBatchSize)
       /\ rxPc = "map" => NumAwaiting >= kRxMemBatchSize * numMap

IInv ==
  /\ LinkFlaps = FALSE
  /\ TypeOK /\ MapIndexInv /\ RecordInv /\ OffInv /\ FilledInv
  /\ AwaitingIsWindow /\ CountInv
  /\ NicAddressMapped

-----------------------------------------------------------------------------
(* Batches and the arithmetic of the indices.                              *)

(* The numbers are positive. *)
LEMMA Sizes ==
  /\ kRxMemBatchSize \in Nat /\ kRxMemBatchSize > 0
  /\ kNumRxMemDesc \in Nat /\ kNumRxMemDesc > 0
  /\ kNumRxDesc \in Nat /\ kNumRxDesc > 0
  /\ kNumRxDesc = kRxMemBatchSize * kNumRxMemDesc
  /\ kMaxNumMap = kNumRxMemDesc + 1
  /\ kRxLastDesc = kNumRxDesc - 1
BY RxMapAssumption DEF kMaxNumMap, kRxLastDesc

(* Quotient and remainder. *)
LEMMA DivMod ==
  ASSUME NEW s \in Nat, NEW b \in Nat, b > 0
  PROVE  /\ s \div b \in Nat /\ s % b \in 0 .. b - 1
         /\ s = b * (s \div b) + (s % b)
OBVIOUS

(* Multiples of a number are that number apart. *)
LEMMA Multiples ==
  ASSUME NEW m \in Int, NEW n \in Int, NEW b \in Nat, m < n
  PROVE  b * m + b <= b * n
OBVIOUS

(* The quotient is the number of whole batches below. *)
LEMMA DivIs ==
  ASSUME NEW s \in Nat, NEW q \in Nat, NEW b \in Nat, b > 0
  PROVE  s \div b = q <=> b * q <= s /\ s < b * q + b
<1>1. b * (s \div b) \in Int /\ b * q \in Int
  BY DivMod
<1>2. s \div b < q => b * (s \div b) + b <= b * q
  BY Multiples, DivMod
<1>3. q < s \div b => b * q + b <= b * (s \div b)
  BY Multiples, DivMod
<1>4. s \div b \in Nat /\ s % b \in 0 .. b - 1 /\ s = b * (s \div b) + (s % b)
  BY DivMod
<1>. QED
  BY <1>1, <1>2, <1>3, <1>4

(* The remainder counts up to the end of the batch. *)
LEMMA ModStep ==
  ASSUME NEW s \in Nat, NEW b \in Nat, b > 0
  PROVE  (s + 1) % b = IF s % b = b - 1 THEN 0 ELSE (s % b) + 1
<1>. DEFINE q == s \div b
<1>1. s \div b \in Nat /\ s % b \in 0 .. b - 1 /\ s = b * (s \div b) + (s % b)
  BY DivMod
<1>2. /\ (s + 1) \div b \in Nat /\ (s + 1) % b \in 0 .. b - 1
      /\ s + 1 = b * ((s + 1) \div b) + ((s + 1) % b)
  BY DivMod
<1>3. b * q \in Int /\ b * (q + 1) = b * q + b
  BY <1>1
<1>4. CASE s % b = b - 1
  <2>1. (s + 1) \div b = q + 1
    BY <1>1, <1>3, <1>4, DivIs
  <2>. QED
    BY <2>1, <1>1, <1>2, <1>3, <1>4
<1>5. CASE s % b # b - 1
  <2>1. (s + 1) \div b = q
    BY <1>1, <1>3, <1>5, DivIs
  <2>. QED
    BY <2>1, <1>1, <1>2, <1>3, <1>5
<1>. QED
  BY <1>4, <1>5

(* An index taken modulo the size of the ring. *)
LEMMA ModRing ==
  ASSUME NEW i \in Int, NEW n \in Nat, - n <= i, i <= n, n > 0
  PROVE  i % n = IF i = n \/ i = - n THEN 0 ELSE IF i < 0 THEN i + n ELSE i
OBVIOUS

(* How far one slot is ahead of another. *)
LEMMA DistanceIs ==
  ASSUME NEW s \in Slots, NEW t \in Slots
  PROVE  (s - t) % kNumRxDesc = IF s >= t THEN s - t ELSE s - t + kNumRxDesc
<1>1. s \in Int /\ t \in Int
  BY Sizes DEF Slots
<1>2. s - t \in Int /\ - kNumRxDesc < s - t /\ s - t < kNumRxDesc
  BY Sizes DEF Slots
<1>3. (s - t) % kNumRxDesc = IF s - t < 0 THEN s - t + kNumRxDesc ELSE s - t
  BY <1>2, ModRing, Sizes
<1>. QED
  BY <1>1, <1>3

(* The batch that begins at m is the slots m .. m + kRxMemBatchSize - 1,   *)
(* and the ring ends with a batch.                                         *)
LEMMA BatchAt ==
  ASSUME NEW m \in Slots, m % kRxMemBatchSize = 0
  PROVE  /\ \A s \in Slots : Batch(s) = Batch(m) <=> m <= s /\ s < m + kRxMemBatchSize
         /\ Batch(m) \in Batches
         /\ m + kRxMemBatchSize <= kNumRxDesc
         /\ (m + kRxMemBatchSize) % kRxMemBatchSize = 0
<1>. DEFINE b == kRxMemBatchSize  q == m \div b
<1>1. q \in Nat /\ m = b * q /\ m \in Nat /\ m < kNumRxDesc
  BY DivMod, Sizes DEF Slots
<1>2. ASSUME NEW s \in Slots PROVE s \div b = q <=> b * q <= s /\ s < b * q + b
  BY DivIs, Sizes, <1>1 DEF Slots
<1>3. b * q < b * kNumRxMemDesc
  BY <1>1, Sizes
<1>4. q < kNumRxMemDesc
  <2>1. CASE q > kNumRxMemDesc
    BY <2>1, <1>1, <1>3, Multiples, Sizes
  <2>2. CASE q = kNumRxMemDesc
    BY <2>2, <1>3, Sizes
  <2>. QED
    BY <2>1, <2>2, <1>1, Sizes
<1>5. b * q + b <= b * kNumRxMemDesc
  BY <1>1, <1>4, Multiples, Sizes
<1>6. (m + b) % b = 0
  <2>1. m + b = b * (q + 1) /\ b * (q + 1) \in Nat
    BY <1>1, Sizes
  <2>2. (m + b) \div b = q + 1
    BY <2>1, <1>1, DivIs, Sizes
  <2>3. m + b = b * ((m + b) \div b) + ((m + b) % b) /\ (m + b) % b \in Int
    BY <1>1, <2>1, DivMod, Sizes
  <2>. QED
    BY <2>1, <2>2, <2>3
<1>7. \A s \in Slots : Batch(s) = Batch(m) <=> m <= s /\ s < m + kRxMemBatchSize
  BY <1>1, <1>2 DEF Batch
<1>8. Batch(m) \in Batches
  BY <1>1, <1>4, Sizes DEF Batch, Batches
<1>9. m + kRxMemBatchSize <= kNumRxDesc
  BY <1>1, <1>5, Sizes
<1>. QED
  BY <1>6, <1>7, <1>8, <1>9

(* Every slot belongs to a batch. *)
LEMMA BatchOf == \A s \in Slots : Batch(s) \in Batches
<1>. SUFFICES ASSUME NEW s \in Slots PROVE Batch(s) \in Batches
  OBVIOUS
<1>. DEFINE b == kRxMemBatchSize  q == s \div b
<1>1. s \in Nat /\ s < b * kNumRxMemDesc
  BY Sizes DEF Slots
<1>2. q \in Nat /\ s = b * q + (s % b) /\ s % b \in Nat
  BY <1>1, DivMod, Sizes
<1>3. kNumRxMemDesc < q => b * kNumRxMemDesc + b <= b * q
  <2>1. q \in Int /\ kNumRxMemDesc \in Int /\ b \in Nat
    BY <1>2, Sizes
  <2>. QED
    BY <2>1, Multiples
<1>4. kNumRxMemDesc = q => b * kNumRxMemDesc = b * q
  OBVIOUS
<1>5. b * q \in Int /\ b * kNumRxMemDesc \in Int
  BY <1>2, Sizes
<1>. QED
  BY <1>1, <1>2, <1>3, <1>4, <1>5, Sizes DEF Batch, Batches

(* The last slot of the ring is the last of its batch. *)
LEMMA LastOfBatch == kRxLastDesc % kRxMemBatchSize = kRxMemBatchSize - 1
<1>. DEFINE b == kRxMemBatchSize  q == kNumRxMemDesc - 1
<1>1. q \in Nat /\ b * q \in Int /\ kRxLastDesc = b * q + b - 1 /\ kRxLastDesc \in Nat
  BY Sizes
<1>2. kRxLastDesc \div b = q
  BY <1>1, DivIs, Sizes
<1>3. kRxLastDesc = b * (kRxLastDesc \div b) + (kRxLastDesc % b) /\ kRxLastDesc % b \in Int
  BY <1>1, DivMod, Sizes
<1>. QED
  BY <1>1, <1>2, <1>3, Sizes

(* The rest of a batch up to i is no more than i is ahead of a batch.      *)
LEMMA AheadOfBatch ==
  ASSUME NEW m \in Slots, m % kRxMemBatchSize = 0, NEW i \in Slots
  PROVE  /\ i >= m => i % kRxMemBatchSize <= i - m
         /\ i % kRxMemBatchSize < kRxMemBatchSize /\ i % kRxMemBatchSize \in Nat
<1>. DEFINE b == kRxMemBatchSize  q == m \div b
<1>1. q \in Nat /\ m = b * q /\ m \in Nat /\ i \in Nat
  BY DivMod, Sizes DEF Slots
<1>2. i \div b \in Nat /\ i % b \in 0 .. b - 1 /\ i = b * (i \div b) + (i % b)
  BY <1>1, DivMod, Sizes
<1>3. i \div b < q => b * (i \div b) + b <= b * q
  BY <1>1, <1>2, Multiples, Sizes
<1>4. q < i \div b => b * q + b <= b * (i \div b)
  BY <1>1, <1>2, Multiples, Sizes
<1>5. b * q \in Int /\ b * (i \div b) \in Int
  BY <1>1, <1>2, Sizes
<1>. QED
  BY <1>1, <1>2, <1>3, <1>4, <1>5, Sizes

(* Distance and Window in terms of Ahead. *)
LEMMA WindowIs ==
  ASSUME rxMapNextIndex \in Slots, rxNextDescIndex \in Slots
  PROVE  /\ \A s \in Slots : Distance(s) = Ahead(s) /\ Ahead(s) \in 0 .. kNumRxDesc - 1
         /\ Window = {s \in Slots : Ahead(s) < Ahead(rxNextDescIndex)}
<1>1. ASSUME NEW s \in Slots
      PROVE  Distance(s) = Ahead(s) /\ Ahead(s) \in 0 .. kNumRxDesc - 1
  <2>1. /\ s - rxMapNextIndex \in Int /\ - kNumRxDesc < s - rxMapNextIndex
        /\ s - rxMapNextIndex < kNumRxDesc
    BY Sizes DEF Slots
  <2>. QED
    BY <2>1, ModRing, Sizes DEF Distance, Ahead, Slots
<1>. QED
  BY <1>1 DEF Window

-----------------------------------------------------------------------------
(* The actions.                                                            *)

(* Nothing but filled slots leaves the NIC's hands. *)
LEMMA NicReceiveStep ==
  ASSUME IInv, NicReceive
  PROVE  IInv'
<1>. USE DEF NicReceive, IInv, bufVars, loopVars
<1>0. kRxLastDesc \in Slots /\ 0 \in Slots
  BY Sizes DEF Slots
<1>1. TypeOK'
  <2>1. (nicIndex + 1) % kNumRxDesc \in Slots
    BY ModRing, Sizes DEF TypeOK, Slots
  <2>. QED
    BY <1>0, <2>1 DEF TypeOK
<1>2. Awaiting' = Awaiting /\ Window' = Window /\ NumAwaiting' = NumAwaiting
  BY DEF TypeOK, Awaiting, Window, Distance, NumAwaiting, Ahead
<1>3. RecordInv' /\ MapIndexInv' /\ OffInv' /\ FilledInv'
  BY DEF TypeOK, RecordInv, MapIndexInv, OffInv, FilledInv
<1>4. AwaitingIsWindow' /\ CountInv'
  BY <1>2 DEF AwaitingIsWindow, CountInv
<1>5. NicAddressMapped'
  BY DEF TypeOK, NicAddressMapped
<1>. QED
  BY <1>1, <1>3, <1>4, <1>5

(* At the start of the loop rxNextDescIndex is ahead by the rest of its    *)
(* batch at least.                                                         *)
LEMMA RxInterruptStep ==
  ASSUME IInv, RxInterruptVTD
  PROVE  IInv'
<1>. USE DEF RxInterruptVTD, IInv, bufVars, descVars, nicVars
<1>1. TypeOK'
  <2>1. 0 \in 0 .. kMaxNumMap
    BY Sizes
  <2>. QED
    BY <2>1 DEF TypeOK
<1>2. Awaiting' = Awaiting /\ Window' = Window /\ NumAwaiting' = NumAwaiting
  BY DEF Awaiting, Window, Distance, NumAwaiting, Ahead
<1>3. RecordInv' /\ MapIndexInv' /\ OffInv' /\ FilledInv' /\ NicAddressMapped'
  BY DEF RecordInv, MapIndexInv, OffInv, FilledInv, NicAddressMapped, GoodSlot
<1>4. NumAwaiting >= rxNextDescIndex % kRxMemBatchSize
  <2>. DEFINE m == rxMapNextIndex  i == rxNextDescIndex  b == kRxMemBatchSize
  <2>1. /\ i >= m => i % b <= i - m
        /\ i % b < b /\ i % b \in Nat
    BY AheadOfBatch DEF TypeOK, MapIndexInv
  <2>2. m + b <= kNumRxDesc
    BY BatchAt DEF TypeOK, MapIndexInv
  <2>. QED
    BY <2>1, <2>2, Sizes DEF NumAwaiting, Ahead, TypeOK, Slots
<1>5. AwaitingIsWindow' /\ CountInv'
  <2>1. /\ kRxMemBatchSize * 0 = 0
        /\ 0 + (rxNextDescIndex % kRxMemBatchSize) = rxNextDescIndex % kRxMemBatchSize
    BY DivMod, Sizes DEF TypeOK, Slots
  <2>. QED
    BY <1>2, <1>4, <2>1 DEF AwaitingIsWindow, CountInv
<1>. QED
  BY <1>1, <1>3, <1>5

(* A buffer is replaced in a slot the NIC does not own. *)
LEMMA ReceivePacketStep ==
  ASSUME IInv, NEW good \in BOOLEAN, NEW replaced \in BOOLEAN,
         ReceivePacket(good, replaced)
  PROVE  IInv'
<1>. USE DEF ReceivePacket, HasPacket, IInv, bufVars, nicVars
<1>. DEFINE i == rxNextDescIndex
<1>0. i \in Slots /\ i \in Nat /\ i < kNumRxDesc /\ i' \in Slots
      /\ i' = IF i + 1 = kNumRxDesc THEN 0 ELSE i + 1
  BY ModRing, Sizes DEF TypeOK, Slots
<1>1. TypeOK'
  <2>1. /\ phyAddr' \in [Slots -> {Current, NoAddr}]
        /\ rxMemRange' \in [Slots -> {Current, Old}]
        /\ descAddr' \in [Slots -> Addresses] /\ prepared' = prepared
    BY DEF ReplaceBuffer, TypeOK, Addresses
  <2>2. numMap' \in 0 .. kMaxNumMap
    BY Sizes DEF TypeOK
  <2>3. stale' \in BOOLEAN /\ anyGood' \in BOOLEAN
    BY DEF TypeOK
  <2>. QED
    BY <1>0, <2>1, <2>2, <2>3 DEF TypeOK
<1>2. RecordInv'
  BY DEF RecordInv, ReplaceBuffer, TypeOK, Current, NoAddr, Old
<1>3. MapIndexInv' /\ OffInv' /\ FilledInv'
  BY DEF MapIndexInv, OffInv, FilledInv
<1>4. NicAddressMapped'
  <2>1. ~stale' => ~stale
    OBVIOUS
  <2>2. \A s \in Slots : descOwn[s] => s # i
    OBVIOUS
  <2>3. \A s \in Slots : descOwn[s] =>
          descAddr'[s] = descAddr[s] /\ rxMemRange'[s] = rxMemRange[s]
    BY <2>2 DEF ReplaceBuffer, TypeOK
  <2>4. prepared' = prepared /\ descEnd' = descEnd /\ descOwn' = descOwn
    BY DEF ReplaceBuffer
  <2>. QED
    BY <2>1, <2>3, <2>4 DEF NicAddressMapped
<1>5. CASE rxEnabled /\ ~stale'
  <2>1. ~stale /\ i \in filled /\ rxPc = "loop" /\ rxEnabled
    BY <1>5
  <2>2. Awaiting # Slots /\ Awaiting = Window
    BY <2>1, <1>0 DEF AwaitingIsWindow, Awaiting
  <2>3. Awaiting' = Awaiting \cup {i}
    BY <1>0 DEF Awaiting, TypeOK
  <2>4. \A s \in Slots : Ahead(s) \in 0 .. kNumRxDesc - 1 /\ Ahead(s)' = Ahead(s)
    BY WindowIs DEF Ahead, TypeOK
  <2>5. Awaiting = {s \in Slots : Ahead(s) < Ahead(i)}
    BY <2>2, WindowIs DEF TypeOK
  <2>6. Window' = {s \in Slots : Ahead(s) < Ahead(i')}
    <3>1. rxMapNextIndex' \in Slots /\ rxMapNextIndex' = rxMapNextIndex
      BY DEF TypeOK
    <3>2. \A s \in Slots : Distance(s)' = Ahead(s)
      BY <3>1, WindowIs DEF Distance, TypeOK
    <3>3. Distance(i)' = Ahead(i')
      BY <1>0, <3>1, WindowIs DEF Distance, TypeOK
    <3>. QED
      BY <3>2, <3>3 DEF Window
  <2>7. \A s \in Slots : Ahead(s) = Ahead(i) => s = i
    BY <1>0, Sizes DEF Ahead, TypeOK, Slots
  <2>8. ASSUME i' = rxMapNextIndex
        PROVE  AwaitingIsWindow' /\ NumAwaiting' = NumAwaiting + 1
    <3>1. Ahead(i) = kNumRxDesc - 1 /\ Ahead(i') = 0
      BY <2>8, <1>0, Sizes DEF Ahead, TypeOK, Slots
    <3>2. Awaiting' = Slots /\ Window' = {}
      <4>1. ASSUME NEW s \in Slots PROVE s \in Awaiting'
        BY <3>1, <2>3, <2>4, <2>5, <2>7, <1>0, Sizes
      <4>2. \A s \in Slots : s \notin Window'
        BY <3>1, <2>4, <2>6
      <4>3. Awaiting' \subseteq Slots /\ Window' \subseteq Slots
        BY <2>6 DEF Awaiting
      <4>. QED
        BY <4>1, <4>2, <4>3
    <3>3. NumAwaiting' = NumAwaiting + 1
      BY <3>1, <3>2, <2>2, Sizes DEF NumAwaiting
    <3>. QED
      BY <3>2, <3>3 DEF AwaitingIsWindow
  <2>9. ASSUME i' # rxMapNextIndex
        PROVE  AwaitingIsWindow' /\ NumAwaiting' = NumAwaiting + 1
    <3>1. Ahead(i') = Ahead(i) + 1
      BY <2>9, <1>0, Sizes DEF Ahead, TypeOK, Slots
    <3>2. Awaiting' = Window'
      <4>1. ASSUME NEW s \in Slots PROVE s \in Awaiting' <=> s \in Window'
        BY <3>1, <2>3, <2>4, <2>5, <2>6, <2>7, <1>0, Sizes
      <4>2. Awaiting' \subseteq Slots /\ Window' \subseteq Slots
        BY <2>6 DEF Awaiting
      <4>. QED
        BY <4>1, <4>2
    <3>3. Awaiting' # Slots
      <4>1. i' \notin Awaiting'
        BY <3>2, <2>6, <2>4, <1>0
      <4>. QED
        BY <4>1, <1>0
    <3>4. Ahead(i)' = Ahead(i')
      BY DEF Ahead
    <3>5. NumAwaiting' = NumAwaiting + 1
      BY <3>1, <3>3, <3>4, <2>2 DEF NumAwaiting
    <3>. QED
      BY <3>2, <3>5 DEF AwaitingIsWindow
  <2>10. AwaitingIsWindow'
    BY <2>8, <2>9
  <2>11. i' % kRxMemBatchSize = IF BatchDone THEN 0 ELSE (i % kRxMemBatchSize) + 1
    <3>1. 0 % kRxMemBatchSize = 0
      BY ModRing, Sizes
    <3>2. i + 1 = kNumRxDesc => BatchDone
      BY LastOfBatch, Sizes, <1>0 DEF BatchDone
    <3>. QED
      BY <1>0, <3>1, <3>2, ModStep, Sizes DEF BatchDone
  <2>12. i % kRxMemBatchSize \in 0 .. kRxMemBatchSize - 1
    BY <1>0, DivMod, Sizes
  <2>13. /\ kRxMemBatchSize * (numMap + 1) = kRxMemBatchSize * numMap + kRxMemBatchSize
         /\ kRxMemBatchSize * numMap \in Nat /\ numMap \in Nat
    BY Sizes DEF TypeOK
  <2>14. NumAwaiting \in Nat /\ NumAwaiting' = NumAwaiting + 1
    BY <1>0, <2>4, <2>8, <2>9, Sizes DEF NumAwaiting
  <2>15. NumAwaiting >= kRxMemBatchSize * numMap + (i % kRxMemBatchSize)
    BY <2>1 DEF CountInv
  <2>16. NumAwaiting' >= kRxMemBatchSize * numMap' + (i' % kRxMemBatchSize)
    <3>1. CASE BatchDone /\ numMap' = numMap + 1
      BY <3>1, <2>11, <2>12, <2>13, <2>14, <2>15, Sizes DEF BatchDone
    <3>2. CASE numMap' = numMap
      BY <3>2, <2>11, <2>12, <2>13, <2>14, <2>15, Sizes
    <3>. QED
      BY <3>1, <3>2
  <2>17. CountInv'
    BY <2>1, <2>16 DEF CountInv
  <2>. QED
    BY <1>1, <1>2, <1>3, <1>4, <2>10, <2>17
<1>6. CASE ~(rxEnabled /\ ~stale')
  BY <1>6, <1>1, <1>2, <1>3, <1>4 DEF AwaitingIsWindow, CountInv
<1>. QED
  BY <1>5, <1>6

(* The loop ends with the batches counted, and no part of another. *)
LEMMA LeaveLoopStep ==
  ASSUME IInv, LeaveLoop
  PROVE  IInv'
<1>. USE DEF LeaveLoop, IInv, bufVars, descVars, nicVars
<1>1. TypeOK'
  BY DEF TypeOK
<1>2. Awaiting' = Awaiting /\ Window' = Window /\ NumAwaiting' = NumAwaiting
  BY DEF Awaiting, Window, Distance, NumAwaiting, Ahead
<1>3. RecordInv' /\ MapIndexInv' /\ FilledInv' /\ NicAddressMapped'
  BY DEF RecordInv, MapIndexInv, FilledInv, NicAddressMapped
<1>4. OffInv'
  BY DEF OffInv, GoodSlot
<1>5. NumAwaiting \in Nat /\ kRxMemBatchSize * numMap \in Nat
      /\ rxNextDescIndex % kRxMemBatchSize \in Nat
  <2>1. Ahead(rxNextDescIndex) \in Nat
    BY WindowIs DEF TypeOK
  <2>. QED
    BY <2>1, DivMod, Sizes DEF NumAwaiting, TypeOK, Slots
<1>6. AwaitingIsWindow' /\ CountInv'
  BY <1>2, <1>5 DEF AwaitingIsWindow, CountInv, TypeOK
<1>. QED
  BY <1>1, <1>3, <1>4, <1>6

(* The batch at rxMapNextIndex has been processed when it is mapped. *)
LEMMA BatchAwaits ==
  ASSUME IInv, rxPc = "map", ~stale
  PROVE  /\ NumAwaiting >= kRxMemBatchSize * numMap /\ numMap > 0
         /\ NumAwaiting >= kRxMemBatchSize
         /\ \A s \in Slots : Batch(s) = Batch(rxMapNextIndex) => s \in Awaiting
<1>. USE DEF IInv
<1>. DEFINE m == rxMapNextIndex  b == kRxMemBatchSize
<1>1. rxEnabled /\ numMap > 0 /\ NumAwaiting >= b * numMap
  BY DEF OffInv, CountInv
<1>2. numMap \in Nat /\ NumAwaiting \in Nat
  BY WindowIs, Sizes DEF TypeOK, NumAwaiting
<1>3. b * numMap >= b
  <2>1. b * 1 + b * (numMap - 1) = b * numMap /\ b * (numMap - 1) >= 0 /\ b * 1 = b
    BY <1>1, <1>2, Sizes
  <2>. QED
    BY <2>1, <1>2, Sizes
<1>4. NumAwaiting >= b
  BY <1>1, <1>2, <1>3, Sizes
<1>5. ASSUME NEW s \in Slots, Batch(s) = Batch(m)
      PROVE  s \in Awaiting
  <2>1. CASE Awaiting = Slots
    BY <2>1, <1>5
  <2>2. CASE Awaiting # Slots
    <3>1. m <= s /\ s < m + b
      BY <1>5, BatchAt DEF TypeOK, MapIndexInv
    <3>2. Ahead(s) < b
      BY <3>1, Sizes DEF Ahead, TypeOK, Slots
    <3>3. Ahead(s) < Ahead(rxNextDescIndex)
      BY <2>2, <3>2, <1>4, WindowIs, Sizes DEF NumAwaiting, TypeOK, Slots
    <3>. QED
      BY <3>3, <2>2, <1>1, WindowIs DEF AwaitingIsWindow, TypeOK
  <2>. QED
    BY <2>1, <2>2
<1>. QED
  BY <1>1, <1>4, <1>5

(* What mapping and re-mapping do to the record. *)
LEMMA RecordStep ==
  ASSUME TypeOK, RecordInv, NEW tried, NEW good, good \subseteq tried,
         rxMemRange' = UpdatedRanges(tried),
         phyAddr' = Mapped(good, phyAddr)
  PROVE  /\ RecordInv'
         /\ rxMemRange' \in [Slots -> {Current, Old}]
         /\ phyAddr' \in [Slots -> {Current, NoAddr}]
         /\ \A s \in Slots : Batch(s) \in good => phyAddr'[s] = Current
<1>1. ASSUME NEW s \in Slots
      PROVE  /\ UpdatedRanges(good)[s] = UpdatedRanges(tried)[s]
                  \/ Batch(s) \notin good
             /\ Batch(s) \in good => UpdatedRanges(good)[s] = Current
             /\ phyAddr[s] = Current => UpdatedRanges(tried)[s] = Current
             /\ UpdatedRanges(tried)[s] \in {Current, Old}
  BY DEF UpdatedRanges, TypeOK, RecordInv
<1>2. ASSUME NEW s \in Slots
      PROVE  /\ Batch(s) \in good => phyAddr'[s] = Current
             /\ phyAddr'[s] \in {Current, NoAddr}
             /\ phyAddr'[s] = Current => rxMemRange'[s] = Current
  BY <1>1 DEF Mapped, TypeOK
<1>3. phyAddr' \in [Slots -> {Current, NoAddr}] /\ rxMemRange' \in [Slots -> {Current, Old}]
  BY <1>1, <1>2 DEF Mapped, UpdatedRanges
<1>. QED
  BY <1>2, <1>3 DEF RecordInv

(* A mapped batch passes from the window to the NIC. *)
LEMMA MapBatchStep ==
  ASSUME IInv, RxMapBuffers,
         numMap' = numMap - 1,
         rxMapNextIndex' = (rxMapNextIndex + kRxMemBatchSize) % kNumRxDesc,
         rxPc' = IF numMap = 1 THEN "idle" ELSE "map",
         prepared' = prepared \cup {Batch(rxMapNextIndex)},
         phyAddr'  = Mapped({Batch(rxMapNextIndex)}, phyAddr),
         descAddr' = Mapped({Batch(rxMapNextIndex)}, descAddr),
         descOwn' = [s \in Slots |-> Batch(s) = Batch(rxMapNextIndex) \/ descOwn[s]],
         descEnd' = [s \in Slots |-> IF Batch(s) = Batch(rxMapNextIndex)
                                     THEN s = kRxLastDesc ELSE descEnd[s]],
         filled' = {s \in filled : Batch(s) # Batch(rxMapNextIndex)}
  PROVE  IInv'
<1>. USE DEF RxMapBuffers, IInv, nicVars
<1>. DEFINE m == rxMapNextIndex  b == kRxMemBatchSize  batch == Batch(m)
            i == rxNextDescIndex
<1>0. /\ m \in Slots /\ m % b = 0 /\ rxEnabled /\ rxPc = "map"
      /\ \A s \in Slots : Batch(s) = batch <=> m <= s /\ s < m + b
      /\ batch \in Batches /\ m + b <= kNumRxDesc /\ (m + b) % b = 0
  BY BatchAt DEF TypeOK, MapIndexInv, OffInv
<1>1. m' = (IF m + b = kNumRxDesc THEN 0 ELSE m + b) /\ m' \in Slots
  BY <1>0, ModRing, Sizes DEF Slots
<1>2. rxMemRange' = UpdatedRanges({batch})
  OBVIOUS
<1>3. /\ RecordInv' /\ rxMemRange' \in [Slots -> {Current, Old}]
      /\ phyAddr' \in [Slots -> {Current, NoAddr}]
      /\ \A s \in Slots : Batch(s) \in {batch} => phyAddr'[s] = Current
  BY <1>2, RecordStep
<1>4. \A s \in Slots : Batch(s) = batch =>
        rxMemRange'[s] = Current /\ descAddr'[s] = Current
  <2>1. ASSUME NEW s \in Slots, Batch(s) = batch
        PROVE  UpdatedRanges({batch})[s] = Current
    BY <2>1 DEF UpdatedRanges, TypeOK, RecordInv
  <2>. QED
    BY <2>1, <1>2 DEF Mapped
<1>5. \A s \in Slots : Batch(s) # batch =>
        /\ rxMemRange'[s] = rxMemRange[s] /\ descAddr'[s] = descAddr[s]
        /\ descOwn'[s] = descOwn[s] /\ descEnd'[s] = descEnd[s]
  BY <1>2 DEF Mapped, UpdatedRanges, TypeOK
<1>6. \A s \in Slots : Batch(s) = batch =>
        descOwn'[s] /\ (descEnd'[s] <=> s = kRxLastDesc)
  OBVIOUS
<1>7. TypeOK'
  <2>1. descAddr' \in [Slots -> Addresses]
    BY <1>4, <1>5 DEF Mapped, TypeOK, Addresses
  <2>2. descOwn' \in [Slots -> BOOLEAN]
    BY DEF TypeOK
  <2>3. descEnd' \in [Slots -> BOOLEAN]
    BY DEF TypeOK
  <2>4. numMap' \in 0 .. kMaxNumMap
    BY <1>0, Sizes DEF TypeOK, CountInv
  <2>. QED
    BY <1>0, <1>1, <1>3, <2>1, <2>2, <2>3, <2>4 DEF TypeOK
<1>8. MapIndexInv' /\ OffInv' /\ FilledInv'
  <2>1. 0 % b = 0
    BY ModRing, Sizes
  <2>2. \A s \in filled' : ~descOwn'[s]
    BY <1>5 DEF FilledInv, TypeOK
  <2>. QED
    BY <2>1, <2>2, <1>0, <1>1 DEF MapIndexInv, OffInv, FilledInv
<1>9. NicAddressMapped'
  BY <1>4, <1>5, <1>6 DEF NicAddressMapped
<1>10. CASE stale
  <2>1. CountInv'
    BY <1>0, <1>10 DEF CountInv, TypeOK
  <2>. QED
    BY <1>3, <1>7, <1>8, <1>9, <1>10, <2>1 DEF AwaitingIsWindow
<1>11. CASE ~stale
  <2>1. /\ NumAwaiting >= b * numMap /\ numMap > 0 /\ NumAwaiting >= b
        /\ \A s \in Slots : Batch(s) = batch => s \in Awaiting
    BY <1>0, <1>11, BatchAwaits
  <2>2. ASSUME NEW s \in Slots
        PROVE  s \in Awaiting' <=> s \in Awaiting /\ Batch(s) # batch
    BY <1>5, <1>6 DEF Awaiting, TypeOK
  <2>3. ASSUME NEW s \in Slots
        PROVE  /\ Ahead(s)' = IF Ahead(s) >= b THEN Ahead(s) - b
                              ELSE Ahead(s) - b + kNumRxDesc
               /\ Batch(s) = batch <=> Ahead(s) < b
               /\ Ahead(s) \in 0 .. kNumRxDesc - 1
    BY <1>0, <1>1, Sizes DEF Ahead, Slots
  <2>4. i \in Slots /\ i' = i /\ b \in Nat /\ b > 0 /\ b <= kNumRxDesc
    BY <1>0, Sizes DEF TypeOK, Slots
  <2>5. \A s \in Slots : Ahead(s)' \in 0 .. kNumRxDesc - 1
    BY <2>3, <2>4, Sizes
  <2>6. Window' = {s \in Slots : Ahead(s)' < Ahead(i)'}
    <3>1. ASSUME NEW s \in Slots PROVE Distance(s)' = Ahead(s)'
      <4>1. m' \in Slots
        BY <1>1
      <4>. QED
        BY <4>1, DistanceIs DEF Distance, Ahead
    <3>2. Distance(i)' = Ahead(i)'
      BY <2>4, <3>1
    <3>. QED
      BY <3>1, <3>2 DEF Window
  <2>7. Awaiting' # Slots /\ NumAwaiting' = Ahead(i)'
    <3>1. m \in Slots /\ m \notin Awaiting'
      BY <1>0, <2>2
    <3>. QED
      BY <3>1, <2>4 DEF NumAwaiting
  <2>8. ASSUME Awaiting = Slots, Window = {}
        PROVE  NumAwaiting' = NumAwaiting - b /\ Awaiting' = Window'
    <3>1. Ahead(i) = 0
      <4>1. m \in Slots /\ Ahead(m) = 0
        BY <1>0, Sizes DEF Ahead, Slots
      <4>2. ~(Ahead(m) < Ahead(i))
        BY <2>4, <2>8, <4>1, WindowIs DEF TypeOK
      <4>. QED
        BY <4>1, <4>2, <2>3, <2>4
    <3>2. Ahead(i)' = kNumRxDesc - b
      BY <3>1, <2>3, <2>4, Sizes
    <3>3. ASSUME NEW s \in Slots PROVE s \in Awaiting' <=> s \in Window'
      BY <3>2, <2>2, <2>3, <2>4, <2>6, <2>8, Sizes
    <3>4. NumAwaiting' = NumAwaiting - b
      BY <3>2, <2>7, <2>8 DEF NumAwaiting
    <3>5. Awaiting' \subseteq Slots /\ Window' \subseteq Slots
      BY <2>6 DEF Awaiting
    <3>. QED
      BY <3>3, <3>4, <3>5
  <2>9. ASSUME Awaiting # Slots, Awaiting = Window
        PROVE  NumAwaiting' = NumAwaiting - b /\ Awaiting' = Window'
    <3>1. NumAwaiting = Ahead(i)
      BY <2>9 DEF NumAwaiting
    <3>2. Ahead(i)' = Ahead(i) - b
      BY <3>1, <2>1, <2>3, <2>4
    <3>3. ASSUME NEW s \in Slots PROVE s \in Awaiting' <=> s \in Window'
      <4>1. s \in Awaiting <=> Ahead(s) < Ahead(i)
        BY <2>9, WindowIs DEF TypeOK
      <4>. QED
        BY <4>1, <3>2, <2>2, <2>3, <2>4, <2>6, Sizes
    <3>4. Awaiting' \subseteq Slots /\ Window' \subseteq Slots
      BY <2>6 DEF Awaiting
    <3>. QED
      BY <3>1, <3>2, <3>3, <3>4, <2>7
  <2>10. AwaitingIsWindow /\ rxEnabled
    BY <1>0
  <2>11. NumAwaiting' = NumAwaiting - b /\ Awaiting' = Window'
    <3>1. i \notin Window
      BY <2>3, <2>4, WindowIs DEF TypeOK
    <3>2. Awaiting = Slots => Awaiting # Window
      BY <2>4, <3>1
    <3>. QED
      BY <2>8, <2>9, <2>10, <1>11, <3>2 DEF AwaitingIsWindow
  <2>12. /\ b * (numMap - 1) = b * numMap - b
         /\ NumAwaiting \in Nat /\ b * numMap \in Nat
    BY <2>3, <2>4, Sizes DEF NumAwaiting, TypeOK
  <2>13. CountInv'
    BY <2>1, <2>4, <2>11, <2>12 DEF CountInv, TypeOK
  <2>. QED
    BY <1>3, <1>7, <1>8, <1>9, <2>11, <2>13 DEF AwaitingIsWindow
<1>. QED
  BY <1>10, <1>11

(* A batch that cannot be prepared again has no descriptor of the NIC's.   *)
LEMMA MapFailsStep ==
  ASSUME IInv, RxMapBuffers,
         prepared' = prepared \ {Batch(rxMapNextIndex)},
         numMap' = 0, rxPc' = "idle",
         UNCHANGED <<phyAddr, descVars, filled, rxMapNextIndex>>
  PROVE  IInv'
<1>. USE DEF RxMapBuffers, IInv, nicVars, descVars
<1>. DEFINE batch == Batch(rxMapNextIndex)
<1>1. rxMemRange' = UpdatedRanges({batch}) /\ phyAddr' = Mapped({}, phyAddr)
  <2>1. Mapped({}, phyAddr) = [s \in Slots |-> phyAddr[s]]
    BY DEF Mapped
  <2>. QED
    BY <2>1 DEF TypeOK
<1>2. /\ RecordInv' /\ rxMemRange' \in [Slots -> {Current, Old}]
  BY <1>1, RecordStep
<1>3. TypeOK'
  <2>1. 0 \in 0 .. kMaxNumMap
    BY Sizes
  <2>. QED
    BY <1>2, <2>1 DEF TypeOK
<1>4. Awaiting' = Awaiting /\ Window' = Window
  BY DEF Awaiting, Window, Distance
<1>5. MapIndexInv' /\ OffInv' /\ FilledInv' /\ AwaitingIsWindow' /\ CountInv'
  BY <1>4 DEF MapIndexInv, OffInv, FilledInv, AwaitingIsWindow, CountInv
<1>6. NicAddressMapped'
  <2>1. SUFFICES ASSUME rxEnabled, ~clearFailed, ~stale, NEW s \in Slots
                 PROVE  /\ descOwn[s] => /\ Batch(s) \in prepared'
                                         /\ descAddr[s] = Current
                                         /\ rxMemRange'[s] = Current
                        /\ descEnd[s] <=> s = kRxLastDesc
    BY DEF NicAddressMapped
  <2>2. descOwn[s] => Batch(s) # batch
    BY <2>1, BatchAwaits DEF Awaiting
  <2>3. Batch(s) # batch => rxMemRange'[s] = rxMemRange[s]
    BY <1>1 DEF UpdatedRanges
  <2>. QED
    BY <2>1, <2>2, <2>3 DEF NicAddressMapped
<1>. QED
  BY <1>2, <1>3, <1>5, <1>6

(* The rings are cleared while the receiver is off. *)
LEMMA SetLinkDownStep ==
  ASSUME IInv, SetLinkDown
  PROVE  IInv'
<1>. USE DEF IInv
<1>1. PICK numOk \in 0 .. kNumRxMemDesc :
        LET good  == 0 .. numOk - 1
            tried == good \cup ({numOk} \cap Batches) IN
        /\ rxMemRange' = UpdatedRanges(tried)
        /\ prepared'   = (prepared \ tried) \cup good
        /\ phyAddr'    = Mapped(good, phyAddr)
        /\ descAddr'   = phyAddr'
        /\ descOwn'    = [s \in Slots |-> TRUE]
        /\ descEnd'    = [s \in Slots |-> s = kRxLastDesc]
        /\ ResetRxIndices
        /\ clearFailed' = (numOk < kNumRxMemDesc)
        /\ filled' = {} /\ stale' = FALSE
  BY DEF SetLinkDown, ClearRxTxRings
<1>. DEFINE good  == 0 .. numOk - 1
            tried == good \cup ({numOk} \cap Batches)
<1>2. /\ RecordInv' /\ rxMemRange' \in [Slots -> {Current, Old}]
      /\ phyAddr' \in [Slots -> {Current, NoAddr}]
      /\ \A s \in Slots : Batch(s) \in good => phyAddr'[s] = Current
  <2>1. good \subseteq tried
    OBVIOUS
  <2>. QED
    BY <1>1, <2>1, RecordStep
<1>3. /\ opened' = TRUE /\ rxEnabled' = FALSE /\ nicIndex' = 0 /\ rxPc = "idle"
      /\ numMap' = numMap /\ anyGood' = anyGood /\ rxPc' = rxPc
      /\ rxNextDescIndex' = 0 /\ rxMapNextIndex' = 0
  BY <1>1 DEF SetLinkDown, ResetRxIndices
<1>4. 0 \in Slots /\ 0 % kRxMemBatchSize = 0 /\ good \subseteq Batches
  BY ModRing, Sizes DEF Slots, Batches
<1>5. TypeOK'
  <2>1. descOwn' \in [Slots -> BOOLEAN] /\ descEnd' \in [Slots -> BOOLEAN]
    BY <1>1
  <2>2. prepared' \subseteq Batches /\ clearFailed' \in BOOLEAN
    BY <1>1, <1>4 DEF TypeOK
  <2>3. descAddr' \in [Slots -> Addresses]
    BY <1>1, <1>2 DEF Addresses
  <2>. QED
    BY <1>1, <1>2, <1>3, <1>4, <2>1, <2>2, <2>3 DEF TypeOK
<1>6. ASSUME ~clearFailed', NEW s \in Slots
      PROVE  GoodSlot(s)'
  <2>1. numOk = kNumRxMemDesc
    <3>1. clearFailed' <=> numOk < kNumRxMemDesc
      BY <1>1
    <3>. QED
      BY <1>6, <3>1, Sizes
  <2>2. Batch(s) \in good
    BY <2>1, BatchOf DEF Batches
  <2>. QED
    BY <1>1, <1>2, <2>2 DEF GoodSlot, RecordInv
<1>7. MapIndexInv' /\ OffInv' /\ FilledInv' /\ AwaitingIsWindow' /\ CountInv'
      /\ NicAddressMapped'
  BY <1>1, <1>3, <1>4, <1>6 DEF MapIndexInv, OffInv, FilledInv, AwaitingIsWindow,
     CountInv, NicAddressMapped
<1>. QED
  BY <1>2, <1>5, <1>7

(* The receiver starts with cleared rings. *)
LEMMA SetLinkUpStep ==
  ASSUME IInv, SetLinkUp
  PROVE  IInv'
<1>. USE DEF SetLinkUp, IInv, bufVars, descVars
<1>0. 0 \in Slots
  BY Sizes DEF Slots
<1>1. TypeOK' /\ RecordInv' /\ MapIndexInv' /\ FilledInv'
  BY <1>0 DEF TypeOK, RecordInv, MapIndexInv, FilledInv
<1>2. OffInv' /\ CountInv' /\ rxPc' = "idle"
  BY DEF OffInv, CountInv
<1>3. NicAddressMapped'
  BY DEF OffInv, GoodSlot, NicAddressMapped
<1>4. AwaitingIsWindow'
  <2>1. Awaiting' = {}
    BY DEF OffInv, Awaiting
  <2>2. rxMapNextIndex' = 0 /\ rxNextDescIndex' = 0
    BY DEF OffInv
  <2>3. ASSUME NEW s \in Slots PROVE ~(Distance(s) < Distance(rxNextDescIndex))'
    BY <2>2, <2>3, ModRing, DivMod, Sizes DEF Distance, Slots
  <2>. QED
    BY <2>1, <2>3 DEF AwaitingIsWindow, Window
<1>. QED
  BY <1>1, <1>2, <1>3, <1>4

(* IInv is inductive. *)
LEMMA Inductive ==
  ASSUME IInv, [Next]_vars
  PROVE  IInv'
<1>1. CASE NicReceive
  BY <1>1, NicReceiveStep
<1>2. CASE RxInterruptVTD
  BY <1>2, RxInterruptStep
<1>3. CASE \E good, replaced \in BOOLEAN : ReceivePacket(good, replaced)
  BY <1>3, ReceivePacketStep
<1>4. CASE LeaveLoop
  BY <1>4, LeaveLoopStep
<1>5. CASE RxMapBuffers
  BY <1>5, MapBatchStep, MapFailsStep DEF RxMapBuffers
<1>6. CASE SetLinkDown
  BY <1>6, SetLinkDownStep
<1>7. CASE SetLinkUp
  BY <1>7, SetLinkUpStep
<1>8. CASE UNCHANGED vars
  BY <1>8 DEF IInv, TypeOK, MapIndexInv, RecordInv, OffInv, GoodSlot, FilledInv,
     AwaitingIsWindow, CountInv, NicAddressMapped, Awaiting, Window, Distance,
     NumAwaiting, Ahead, vars, bufVars, descVars, loopVars, nicVars
<1>. QED
  BY <1>1, <1>2, <1>3, <1>4, <1>5, <1>6, <1>7, <1>8 DEF Next

(* IInv holds at first. *)
LEMMA Initially ==
  ASSUME Init, LinkFlaps = FALSE
  PROVE  IInv
<1>. USE DEF Init
<1>1. 0 \in Slots /\ 0 % kRxMemBatchSize = 0 /\ 0 \in 0 .. kMaxNumMap
  BY ModRing, Sizes DEF Slots
<1>2. TypeOK
  <2>1. /\ phyAddr \in [Slots -> {Current, NoAddr}]
        /\ rxMemRange \in [Slots -> {Current, Old}]
    OBVIOUS
  <2>2. descOwn \in [Slots -> BOOLEAN] /\ descEnd \in [Slots -> BOOLEAN]
    OBVIOUS
  <2>3. descAddr \in [Slots -> Addresses]
    BY DEF Addresses
  <2>. QED
    BY <1>1, <2>1, <2>2, <2>3 DEF TypeOK
<1>. QED
  BY <1>1, <1>2 DEF IInv, MapIndexInv, RecordInv, OffInv, FilledInv, AwaitingIsWindow,
     CountInv, NicAddressMapped

-----------------------------------------------------------------------------
(* The theorems.                                                           *)

(* The inductive invariant holds. *)
THEOREM Invariant == Spec /\ LinkFlaps = FALSE => []IInv
<1>1. Init /\ LinkFlaps = FALSE => IInv
  BY Initially
<1>2. IInv /\ [Next]_vars => IInv'
  BY Inductive
<1>. QED
  BY <1>1, <1>2, PTL DEF Spec

(* While the receiver is on, what the NIC owns leads to the buffer that is *)
(* on record and mapped, and the ring ends at its last descriptor.         *)
THEOREM NicWritesMapped == Spec /\ LinkFlaps = FALSE => []NicAddressMapped
<1>1. IInv => NicAddressMapped
  BY DEF IInv
<1>. QED
  BY <1>1, Invariant, PTL

(* The slots nobody has are those between the two indices. *)
THEOREM WindowAwaits == Spec /\ LinkFlaps = FALSE => []AwaitingIsWindow
<1>1. IInv => AwaitingIsWindow
  BY DEF IInv
<1>. QED
  BY <1>1, Invariant, PTL

(* rxMapBuffers() completes only memory descriptors of batches that were   *)
(* processed as a whole.                                                   *)
THEOREM CompletesOnlyDone == Spec /\ LinkFlaps = FALSE => []UnmapsOnlyDone
<1>1. IInv => UnmapsOnlyDone
  BY BatchAwaits DEF UnmapsOnlyDone
<1>. QED
  BY <1>1, Invariant, PTL
=============================================================================
