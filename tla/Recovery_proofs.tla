-------------------------- MODULE Recovery_proofs --------------------------
(***************************************************************************)
(* What the driver recovers from by itself: a transmitter that hangs, and  *)
(* a download of microcode that was cut short. First the watchdog, for all *)
(* thresholds, ring sizes and widths of its counter; then the download,    *)
(* for all sets of methods and numbers of polls. The two share no          *)
(* variable.                                                               *)
(***************************************************************************)
EXTENDS Watchdog, McuDownload, SequenceTheorems, TLAPS

-----------------------------------------------------------------------------
(* The transmit watchdog: it restarts the chip only after the ticks that it *)
(* promises to wait.                                                        *)

(* The warnings are the quiet ticks since the rings were last cleared, and *)
(* there are none without a link. After the check nothing is overdue.      *)
WarnInv ==
  /\ deadlockWarn = quiet
  /\ deadlockWarn = kTxCheckTreshhold => overdue = 0
  /\ ~linkUp => deadlockWarn = 0

(* txDescDoneCount has moved by what was reclaimed since the last tick,    *)
(* which never is so much that the counter is back where it was.           *)
CountInv ==
  /\ doneSince + inUse < DoneMod
  /\ txDescDoneCount = IF txDescDoneLast + doneSince < DoneMod
                       THEN txDescDoneLast + doneSince
                       ELSE txDescDoneLast + doneSince - DoneMod

IInv == TypeOK /\ WarnInv /\ CountInv

(* The type invariant in two parts, one for each kind of prover. *)
Flags ==
  /\ enabled \in BOOLEAN /\ linkUp \in BOOLEAN /\ timerArmed \in BOOLEAN
  /\ txOK \in BOOLEAN /\ hung \in BOOLEAN

Counts ==
  /\ deadlockWarn \in 0 .. kTxDeadlockTreshhold - 1
  /\ txDescDoneCount \in 0 .. DoneMod - 1 /\ txDescDoneLast \in 0 .. DoneMod - 1
  /\ inUse \in 0 .. MaxInUse /\ sent \in 0 .. inUse
  /\ doneSince \in 0 .. DoneMod - 1 /\ overdue \in 0 .. sent
  /\ quiet \in 0 .. kTxDeadlockTreshhold - 1

(* They make up the type invariant,                                        *)
LEMMA TypeParts == (Flags /\ Counts => TypeOK) /\ (TypeOK => Flags /\ Counts)
BY DEF TypeOK, Flags, Counts

(* in the next state too.                                                  *)
LEMMA TypePartsNext == Flags' /\ Counts' => TypeOK'
BY DEF TypeOK, Flags, Counts

(* A modulus of a sum of two remainders. *)
LEMMA ModOnce ==
  ASSUME NEW x \in Nat, NEW n \in Nat, n > 0, x < n + n
  PROVE  x % n = IF x < n THEN x ELSE x - n
OBVIOUS

(* What the condition of txHangCheck() means. *)
LEMMA NoProgressIs ==
  IInv => (NoProgress <=> doneSince = 0 /\ inUse > 0)
BY WatchdogAssumption DEF IInv, TypeOK, CountInv, NoProgress

(* txInterrupt() counts what it reclaims. *)
LEMMA ReclaimCounts ==
  ASSUME IInv, ReclaimSent
  PROVE  /\ txDescDoneCount' \in 0 .. DoneMod - 1
         /\ txDescDoneCount' = IF txDescDoneLast + (doneSince + sent) < DoneMod
                               THEN txDescDoneLast + (doneSince + sent)
                               ELSE txDescDoneLast + (doneSince + sent) - DoneMod
         /\ (doneSince + sent) + inUse' < DoneMod /\ doneSince + sent < DoneMod
         /\ inUse' \in 0 .. MaxInUse /\ sent' = 0 /\ inUse' >= 0
<1> USE WatchdogAssumption DEF IInv, TypeOK, CountInv, ReclaimSent
<1>1. /\ txDescDoneCount + sent \in Nat /\ txDescDoneCount + sent < DoneMod + DoneMod
      /\ DoneMod \in Nat /\ DoneMod > 0
  OBVIOUS
<1>2. txDescDoneCount' = IF txDescDoneCount + sent < DoneMod
                         THEN txDescDoneCount + sent
                         ELSE (txDescDoneCount + sent) - DoneMod
  <2>1. txDescDoneCount' = (txDescDoneCount + sent) % DoneMod
    OBVIOUS
  <2>2. QED BY <1>1, <2>1, ModOnce, Zenon
<1>3. inUse' = inUse - sent /\ sent' = 0
  OBVIOUS
<1> QED BY <1>2, <1>3

(* The driver starts with nothing counted. *)
LEMMA Initially == Init => IInv
<1>1. Init => Flags
  BY Zenon DEF Init, Flags
<1>2. Init => Counts /\ deadlockWarn = quiet /\ deadlockWarn = 0 /\ overdue = 0
                 /\ CountInv
  BY WatchdogAssumption DEF Init, Counts, CountInv
<1> QED BY <1>1, <1>2, TypeParts DEF IInv, WarnInv

(* The flags keep their type. *)
LEMMA FlagsStep ==
  ASSUME Flags, [Next]_vars
  PROVE  Flags'
<1> USE DEF Flags
<1>1. CASE Queue
  BY <1>1, Zenon DEF Queue, history
<1>2. CASE NicSend
  <2>1. txOK' \in BOOLEAN
    <3>1. CASE IrqLost
      BY <1>2, <3>1, Zenon DEF NicSend
    <3>2. CASE ~IrqLost
      BY <1>2, <3>2, Zenon DEF NicSend
    <3>3. QED BY <3>1, <3>2, Zenon
  <2>2. QED BY <1>2, <2>1, Zenon DEF NicSend
<1>3. CASE NicHang
  BY <1>3, Zenon DEF NicHang, history
<1>4. CASE TxInterrupt
  BY <1>4, Zenon DEF TxInterrupt
<1>5. CASE TxPoll
  BY <1>5, Zenon DEF TxPoll
<1>6. CASE TimerLinkDown
  BY <1>6, Zenon DEF TimerLinkDown, ringVars
<1>7. CASE TimerProgress
  BY <1>7, Zenon DEF TimerProgress, QuietTick, ringVars
<1>8. CASE TimerWarn
  BY <1>8, Zenon DEF TimerWarn, WarnOnly, QuietTick, ringVars
<1>9. CASE TimerCheck
  BY <1>9, Zenon DEF TimerCheck, QuietTick
<1>10. CASE TimerRestart
  BY <1>10, Zenon DEF TimerRestart, ClearRings, ClearWarn
<1>11. CASE LinkUp
  BY <1>11, Zenon DEF LinkUp, LinkUpTimer, ClearRings
<1>12. CASE LinkDown
  BY <1>12, Zenon DEF LinkDown, ClearRings, ClearWarn
<1>13. CASE Reconfigure
  BY <1>13, Zenon DEF Reconfigure, ClearRings, ClearWarn
<1>14. CASE Enable
  BY <1>14, Zenon DEF Enable, ClearRings
<1>15. CASE Disable
  BY <1>15, Zenon DEF Disable, ClearRings, ClearWarn
<1>16. CASE UNCHANGED vars
  BY <1>16, Zenon DEF vars, ringVars, history
<1> QED BY <1>1, <1>2, <1>3, <1>4, <1>5, <1>6, <1>7, <1>8, <1>9, <1>10, <1>11, <1>12,
           <1>13, <1>14, <1>15, <1>16,
           Zenon DEF Next, TimerAction

(* And so do the counts. *)
LEMMA CountsStep ==
  ASSUME IInv, [Next]_vars
  PROVE  Counts' /\ WarnInv' /\ CountInv'
<1> USE WatchdogAssumption DEF IInv, TypeOK, Counts, WarnInv, CountInv
<1>1. CASE Queue
  BY <1>1 DEF Queue, history
<1>2. CASE NicSend
  BY <1>2 DEF NicSend, history
<1>3. CASE NicHang
  BY <1>3 DEF NicHang, history
<1>4. CASE TxInterrupt
  BY <1>4, ReclaimCounts DEF TxInterrupt
<1>5. CASE TxPoll
  BY <1>5, ReclaimCounts DEF TxPoll
<1>6. CASE TimerLinkDown
  BY <1>6 DEF TimerLinkDown, ringVars
<1>7. CASE TimerProgress
  BY <1>7, NoProgressIs DEF TimerProgress, QuietTick, ringVars
<1>8. CASE TimerWarn
  BY <1>8, NoProgressIs DEF TimerWarn, WarnOnly, QuietTick, ringVars
<1>9. CASE TimerCheck
  BY <1>9, ReclaimCounts, NoProgressIs DEF TimerCheck, CheckRing, QuietTick
<1>10. CASE TimerRestart
  BY <1>10 DEF TimerRestart, ClearRings, ClearWarn
<1>11. CASE LinkUp
  BY <1>11 DEF LinkUp, LinkUpTimer, ClearRings
<1>12. CASE LinkDown
  BY <1>12 DEF LinkDown, ClearRings, ClearWarn
<1>13. CASE Reconfigure
  BY <1>13 DEF Reconfigure, ClearRings, ClearWarn
<1>14. CASE Enable
  BY <1>14 DEF Enable, ClearRings
<1>15. CASE Disable
  BY <1>15 DEF Disable, ClearRings, ClearWarn
<1>16. CASE UNCHANGED vars
  BY <1>16 DEF vars, ringVars, history
<1> QED BY <1>1, <1>2, <1>3, <1>4, <1>5, <1>6, <1>7, <1>8, <1>9, <1>10, <1>11, <1>12,
           <1>13, <1>14, <1>15, <1>16,
           Zenon DEF Next, TimerAction

(* Every step keeps the inductive invariant. *)
LEMMA Step == IInv /\ [Next]_vars => IInv'
<1>1. IInv /\ [Next]_vars => Flags'
  BY FlagsStep, TypeParts DEF IInv
<1>2. IInv /\ [Next]_vars => Counts' /\ WarnInv' /\ CountInv'
  BY CountsStep
<1> QED BY <1>1, <1>2, TypePartsNext DEF IInv

(* The inductive invariant holds. *)
THEOREM Invariant == Spec => []IInv
BY Initially, Step, PTL DEF Spec

(* No count passes its threshold, whatever the thresholds are. *)
THEOREM TypeCorrect == Spec => []TypeOK
<1>1. IInv => TypeOK
  BY DEF IInv
<1> QED BY <1>1, Invariant, PTL

(* txHangCheck() restarts the chip only after kTxDeadlockTreshhold ticks   *)
(* in a row that found descriptors in use and none reclaimed, none of them *)
(* from before the rings were cleared, in spite of a counter that wraps.   *)
THEOREM RestartsAreEarned == Spec => RestartAfterQuietTicks
<1>1. IInv /\ [Next]_vars =>
        [TimerRestart => /\ quiet + 1 = kTxDeadlockTreshhold
                         /\ doneSince = 0]_vars
  <2>1. IInv /\ TimerRestart =>
          quiet + 1 = kTxDeadlockTreshhold /\ doneSince = 0
    BY WatchdogAssumption, NoProgressIs DEF IInv, TypeOK, WarnInv, TimerRestart
  <2>2. QED BY <2>1
<1> QED BY <1>1, Invariant, PTL DEF Spec, RestartAfterQuietTicks

(* And it does not restart it for descriptors that the NIC had sent by the *)
(* tick before, with a check that is made, as the header has it, one tick  *)
(* before the restart.                                                     *)
THEOREM NoRestartForLostInterrupt ==
  ASSUME kTxDeadlockTreshhold = kTxCheckTreshhold + 1
  PROVE  Spec => LostInterruptMadeUp
<1>1. IInv /\ [Next]_vars => [TimerRestart => overdue = 0]_vars
  <2>1. IInv /\ TimerRestart => overdue = 0
    BY WatchdogAssumption DEF IInv, TypeOK, WarnInv, TimerRestart
  <2>2. QED BY <2>1
<1> QED BY <1>1, Invariant, PTL DEF Spec, LostInterruptMadeUp

-----------------------------------------------------------------------------
(* Scripts: what the images and tables of the source are put together      *)
(* from, and what holds of every concatenation of them                     *)

(* The names of images, versions and kinds that the scripts and the PHY    *)
(* carry.                                                                  *)
Names ==
  {"8125a_1", "8125a_2", "8125b_1", "8125b_2", "8125bp_1", "8125cp_1",
   "8125d_1", "8125d_2", "8126a_1", "8126a_2", "8126a_3", "8125bp_1_2",
   "8125d_1_2", "8125d_1_3", "8125d_2_2", "8126a_1_2", "8126a_1_3",
   "8126a_2_1", "8126a_2_3", "0b11", "0b33", "0b17", "0b99", "0001", "0010",
   "0013", "0021", "0023", "0024", "0027", "0031", "0033", "0060", "plain",
   "guarded", "held", "aldps", "watchdog", "none", "rom", "other", "torn",
   "8125bp_2"}

(* The operations of the PHY's scripts. *)
Ops ==
  [op : {"code"}, unit : Units, image : Names]
    \cup [op : {"aim"}, unit : Units, image : Names, hooks : SUBSET Hooks]
    \cup [op : {"enable"}, unit : Units, hooks : SUBSET Hooks]
    \cup [op : {"data"}, image : Names]
    \cup [op : {"b820"}, mode : BOOLEAN, request : BOOLEAN]
    \cup [op : {"keylock"}, open : BOOLEAN]
    \cup [op : {"patchMode"}, on : BOOLEAN]
    \cup [op : {"version"}, value : Names]
    \cup [op : {"setRequest", "clearRequest"}]
    \cup [op : {"parameters"}, kind : Names]

(* The operations that take a patch request back, and the ones that may    *)
(* only be carried out while one is granted.                               *)
Withdraws == {o \in Ops : \/ o.op = "clearRequest"
                          \/ o.op = "b820" /\ o.request = FALSE}
Needs     == {o \in Ops : \/ o.op \in {"code", "data"}
                          \/ o.op = "parameters" /\ o.kind = "held"}

(* Code, its hooks' addresses and their enabling follow one another as one *)
(* section of one unit and one image: the section that is written last was *)
(* written entirely.                                                       *)
Whole(s) ==
  \A k \in 1 .. Len(s) :
    /\ s[k].op = "code" =>
         /\ k < Len(s)
         /\ s[k+1].op = "aim"
         /\ s[k+1].unit = s[k].unit /\ s[k+1].image = s[k].image
    /\ s[k].op = "aim" =>
         /\ 1 < k /\ k < Len(s)
         /\ s[k-1].op = "code"
         /\ s[k-1].unit = s[k].unit /\ s[k-1].image = s[k].image
         /\ s[k+1].op = "enable"
         /\ s[k+1].unit = s[k].unit /\ s[k+1].hooks \subseteq s[k].hooks
    /\ s[k].op = "enable" =>
         /\ 1 < k
         /\ s[k-1].op = "aim"
         /\ s[k-1].unit = s[k].unit /\ s[k].hooks \subseteq s[k-1].hooks

(* What stands where in a concatenation of two scripts. *)
LEMMA ConcatIs ==
  ASSUME NEW s \in Seq(Ops), NEW t \in Seq(Ops)
  PROVE  /\ s \o t \in Seq(Ops)
         /\ Len(s) \in Nat /\ Len(t) \in Nat
         /\ Len(s \o t) = Len(s) + Len(t)
         /\ \A k \in 1 .. Len(s) : (s \o t)[k] = s[k]
         /\ \A k \in 1 .. Len(t) : (s \o t)[Len(s) + k] = t[k]
         /\ \A k \in Int : k > Len(s) /\ k <= Len(s) + Len(t) =>
              (s \o t)[k] = t[k - Len(s)]
<1>1. Len(s) \in Nat /\ Len(t) \in Nat
  BY LenProperties
<1> HIDE DEF Ops
<1>2. /\ s \o t \in Seq(Ops)
      /\ Len(s \o t) = Len(s) + Len(t)
      /\ \A i \in 1 .. Len(s) + Len(t) :
           (s \o t)[i] = IF i <= Len(s) THEN s[i] ELSE t[i - Len(s)]
  BY ConcatProperties
<1> DEFINE r == s \o t
<1>3. r = s \o t OBVIOUS
<1> HIDE DEF r
<1> QED BY <1>1, <1>2, <1>3

(* Sections stay whole when scripts are strung together. *)
LEMMA WholeConcat ==
  ASSUME NEW s \in Seq(Ops), NEW t \in Seq(Ops), Whole(s), Whole(t)
  PROVE  Whole(s \o t)
<1> DEFINE r == s \o t
<1>1. /\ Len(s) \in Nat /\ Len(t) \in Nat
      /\ Len(r) = Len(s) + Len(t)
      /\ \A k \in 1 .. Len(s) : r[k] = s[k]
      /\ \A k \in Int : k > Len(s) /\ k <= Len(s) + Len(t) => r[k] = t[k - Len(s)]
  BY ConcatIs
<1> HIDE DEF r
<1>2. Whole(r)
  <2> SUFFICES ASSUME NEW k \in 1 .. Len(r)
      PROVE Whole(r)!(k)
    BY DEF Whole
  <2>1. CASE k <= Len(s)
    <3>1. /\ k \in 1 .. Len(s)
          /\ k > 1 => k-1 \in 1 .. Len(s)
          /\ k < Len(s) => k+1 \in 1 .. Len(s) /\ k < Len(r)
      BY <1>1, <2>1
    <3>2. r[k] = s[k] /\ (k > 1 => r[k-1] = s[k-1]) /\ (k < Len(s) => r[k+1] = s[k+1])
      BY <3>1, <1>1
    <3>3. Whole(s)!(k)
      BY <3>1 DEF Whole
    <3>4. k \in Int /\ (1 < k <=> k > 1)
      BY <3>1
    <3> QED BY <3>1, <3>2, <3>3, <3>4
  <2>2. CASE k > Len(s)
    <3> DEFINE j == k - Len(s)
    <3>1. /\ j \in 1 .. Len(t) /\ r[k] = t[j]
          /\ (j > 1 => r[k-1] = t[j-1]) /\ (j < Len(t) => r[k+1] = t[j+1])
          /\ (j > 1 => k > 1) /\ (j < Len(t) => k < Len(r))
      <4>1. /\ k \in Int /\ k > Len(s) /\ k <= Len(s) + Len(t)
            /\ j > 1 => /\ k-1 \in Int /\ k-1 > Len(s) /\ k-1 <= Len(s)+Len(t)
                        /\ (k-1)-Len(s) = j-1
            /\ j < Len(t) => /\ k+1 \in Int /\ k+1 > Len(s) /\ k+1 <= Len(s)+Len(t)
                             /\ (k+1)-Len(s) = j+1
            /\ j \in 1 .. Len(t)
            /\ (j > 1 => k > 1) /\ (j < Len(t) => k < Len(r))
        BY <1>1, <2>2
      <4> HIDE DEF j
      <4>2. k - Len(s) = j BY DEF j
      <4> QED BY <4>1, <4>2, <1>1
    <3> HIDE DEF j
    <3>2. Whole(t)!(j)
      BY <3>1 DEF Whole
    <3>3. k \in Int /\ j \in Int /\ (1 < k <=> k > 1) /\ (1 < j <=> j > 1)
      BY <3>1, <1>1
    <3> QED BY <3>1, <3>2, <3>3
  <2> QED BY <1>1, <2>1, <2>2
<1> QED BY <1>2 DEF r

(* A request is in force when operation k is reached: it was set before    *)
(* and not withdrawn since.                                                *)
HeldAt(s, k) ==
  \E j \in 1 .. k-1 : /\ s[j].op = "setRequest"
                      /\ \A i \in j+1 .. k-1 : s[i] \notin Withdraws

(* Code and data are only written under a request. *)
AllHeld(s) == \A k \in 1 .. Len(s) : s[k] \in Needs => HeldAt(s, k)

(* Nothing that needs the request comes after its withdrawal. *)
Calm(s) ==
  \A j, k \in 1 .. Len(s) : j < k /\ s[j] \in Withdraws => s[k] \notin Needs

(* Before a request is withdrawn, the hooks of all the units of C have     *)
(* been enabled.                                                           *)
Ready(s, C) ==
  \A k \in 1 .. Len(s) :
    s[k] \in Withdraws =>
      \A u \in C : \E j \in 1 .. k-1 : s[j].op = "enable" /\ s[j].unit = u

(* Code is written for exactly the units of U, data for exactly the blocks *)
(* of D, and no version but those of V.                                    *)
Content(s, U, D, V) ==
  /\ \A k \in 1 .. Len(s) : /\ s[k].op = "code" => s[k].unit \in U
                            /\ s[k].op = "data" => s[k].image \in D
                            /\ s[k].op = "version" => s[k].value \in V
  /\ \A u \in U : \E k \in 1 .. Len(s) : s[k].op = "code" /\ s[k].unit = u
  /\ \A d \in D : \E k \in 1 .. Len(s) : s[k].op = "data" /\ s[k].image = d

(* All the code is of image i. *)
OfImage(s, i) ==
  \A k \in 1 .. Len(s) : s[k].op = "code" => s[k].image = i

(* What is turned on is turned off later in the same script. *)
Settles(s, On, Off) ==
  \A k \in 1 .. Len(s) :
    s[k] \in On => \E j \in k+1 .. Len(s) : s[j] \in Off

(* No operation of A occurs. *)
Without(s, A) == \A k \in 1 .. Len(s) : s[k] \notin A

(* The same as ConcatIs, for a proof that tells the two halves apart. *)
LEMMA ConcatParts ==
  ASSUME NEW s \in Seq(Ops), NEW t \in Seq(Ops)
  PROVE  /\ s \o t \in Seq(Ops)
         /\ Len(s) \in Nat /\ Len(t) \in Nat
         /\ Len(s \o t) = Len(s) + Len(t)
         /\ \A k \in 1 .. Len(s) : (s \o t)[k] = s[k]
         /\ \A j \in 1 .. Len(t) : (s \o t)[Len(s) + j] = t[j]
         /\ \A k \in 1 .. Len(s \o t) :
              \/ k \in 1 .. Len(s)
              \/ \E j \in 1 .. Len(t) : k = Len(s) + j
<1> HIDE DEF Ops
<1>1. /\ s \o t \in Seq(Ops)
      /\ Len(s) \in Nat /\ Len(t) \in Nat
      /\ Len(s \o t) = Len(s) + Len(t)
      /\ \A k \in 1 .. Len(s) : (s \o t)[k] = s[k]
      /\ \A j \in 1 .. Len(t) : (s \o t)[Len(s) + j] = t[j]
  BY ConcatIs
<1>2. ASSUME NEW k \in 1 .. Len(s \o t)
      PROVE  \/ k \in 1 .. Len(s)
             \/ \E j \in 1 .. Len(t) : k = Len(s) + j
  <2>1. \/ k \in 1 .. Len(s)
        \/ k - Len(s) \in 1 .. Len(t) /\ k = Len(s) + (k - Len(s))
    BY <1>1
  <2> QED BY <2>1
<1> QED BY <1>1, <1>2

(* The contents add up. *)
LEMMA ContentConcat ==
  ASSUME NEW s \in Seq(Ops), NEW t \in Seq(Ops), NEW U, NEW D, NEW V,
         NEW U2, NEW D2, NEW V2, Content(s, U, D, V), Content(t, U2, D2, V2)
  PROVE  Content(s \o t, U \cup U2, D \cup D2, V \cup V2)
<1> DEFINE r == s \o t
<1>1. /\ Len(s) \in Nat /\ Len(t) \in Nat
      /\ Len(r) = Len(s) + Len(t)
      /\ \A k \in 1 .. Len(s) : r[k] = s[k]
      /\ \A j \in 1 .. Len(t) : r[Len(s) + j] = t[j]
      /\ \A k \in 1 .. Len(r) :
              \/ k \in 1 .. Len(s)
              \/ \E j \in 1 .. Len(t) : k = Len(s) + j
  BY ConcatParts
<1> HIDE DEF r
<1>2. \A j \in 1 .. Len(t) : Len(s) + j \in 1 .. Len(r)
  BY <1>1
<1>3. \A k \in 1 .. Len(s) : k \in 1 .. Len(r)
  BY <1>1
<1>4. Content(r, U \cup U2, D \cup D2, V \cup V2)
  <2>1. ASSUME NEW k \in 1 .. Len(r)
        PROVE  /\ r[k].op = "code" => r[k].unit \in U \cup U2
               /\ r[k].op = "data" => r[k].image \in D \cup D2
               /\ r[k].op = "version" => r[k].value \in V \cup V2
    <3>1. CASE k \in 1 .. Len(s)
      BY <1>1, <3>1 DEF Content
    <3>2. CASE \E j \in 1 .. Len(t) : k = Len(s) + j
      BY <1>1, <3>2 DEF Content
    <3> QED BY <1>1, <3>1, <3>2
  <2>2. ASSUME NEW u \in U \cup U2
        PROVE  \E k \in 1 .. Len(r) : r[k].op = "code" /\ r[k].unit = u
    <3>1. CASE u \in U
      <4>1. PICK k \in 1 .. Len(s) : s[k].op = "code" /\ s[k].unit = u
        BY <3>1 DEF Content
      <4> QED BY <1>1, <1>3, <4>1
    <3>2. CASE u \in U2
      <4>1. PICK k \in 1 .. Len(t) : t[k].op = "code" /\ t[k].unit = u
        BY <3>2 DEF Content
      <4> QED BY <1>1, <1>2, <4>1
    <3> QED BY <3>1, <3>2
  <2>3. ASSUME NEW d \in D \cup D2
        PROVE  \E k \in 1 .. Len(r) : r[k].op = "data" /\ r[k].image = d
    <3>1. CASE d \in D
      <4>1. PICK k \in 1 .. Len(s) : s[k].op = "data" /\ s[k].image = d
        BY <3>1 DEF Content
      <4> QED BY <1>1, <1>3, <4>1
    <3>2. CASE d \in D2
      <4>1. PICK k \in 1 .. Len(t) : t[k].op = "data" /\ t[k].image = d
        BY <3>2 DEF Content
      <4> QED BY <1>1, <1>2, <4>1
    <3> QED BY <3>1, <3>2
  <2> QED BY <2>1, <2>2, <2>3 DEF Content
<1> QED BY <1>4 DEF r

(* Held scripts stay held when they are strung together. *)
LEMMA AllHeldConcat ==
  ASSUME NEW s \in Seq(Ops), NEW t \in Seq(Ops), AllHeld(s), AllHeld(t)
  PROVE  AllHeld(s \o t)
<1> DEFINE r == s \o t
<1>1. /\ Len(s) \in Nat /\ Len(t) \in Nat
      /\ Len(r) = Len(s) + Len(t)
      /\ \A k \in 1 .. Len(s) : r[k] = s[k]
      /\ \A j \in 1 .. Len(t) : r[Len(s) + j] = t[j]
      /\ \A k \in 1 .. Len(r) :
              \/ k \in 1 .. Len(s)
              \/ \E j \in 1 .. Len(t) : k = Len(s) + j
  BY ConcatParts
<1> HIDE DEF r
<1>2. SUFFICES ASSUME NEW k \in 1 .. Len(r), r[k] \in Needs
               PROVE  HeldAt(r, k)
  BY DEF AllHeld, r
<1>3. CASE k \in 1 .. Len(s)
  <2>1. PICK j \in 1 .. k-1 : /\ s[j].op = "setRequest"
                              /\ \A i \in j+1 .. k-1 : s[i] \notin Withdraws
    BY <1>1, <1>2, <1>3 DEF AllHeld, HeldAt
  <2>2. \A i \in 1 .. k-1 : r[i] = s[i]
    BY <1>1, <1>3
  <2>3. \A i \in j+1 .. k-1 : i \in 1 .. k-1
    BY <1>3
  <2> QED BY <2>1, <2>2, <2>3 DEF HeldAt
<1>4. CASE \E i \in 1 .. Len(t) : k = Len(s) + i
  <2>0. PICK l \in 1 .. Len(t) : k = Len(s) + l
    BY <1>4
  <2>1. PICK j \in 1 .. l-1 : /\ t[j].op = "setRequest"
                              /\ \A i \in j+1 .. l-1 : t[i] \notin Withdraws
    BY <1>1, <1>2, <2>0 DEF AllHeld, HeldAt
  <2>2. /\ Len(s) + j \in 1 .. k-1
        /\ r[Len(s) + j] = t[j]
    <3>1. j \in 1 .. Len(t) /\ Len(s) + j \in 1 .. k-1
      BY <1>1, <2>0
    <3> QED BY <1>1, <3>1
  <2>3. ASSUME NEW i \in (Len(s) + j) + 1 .. k-1
        PROVE  r[i] \notin Withdraws
    <3>1. /\ i - Len(s) \in j+1 .. l-1 /\ i - Len(s) \in 1 .. Len(t)
          /\ i = Len(s) + (i - Len(s))
      BY <1>1, <2>0, <2>3
    <3> QED BY <3>1, <1>1, <2>1
  <2> QED BY <2>1, <2>2, <2>3 DEF HeldAt
<1> QED BY <1>1, <1>3, <1>4

(* So do scripts that each settle what they turn on, *)
LEMMA SettlesBoth ==
  ASSUME NEW s \in Seq(Ops), NEW t \in Seq(Ops), NEW On, NEW Off,
         Settles(s, On, Off), Settles(t, On, Off)
  PROVE  Settles(s \o t, On, Off)
<1> DEFINE r == s \o t
<1>1. /\ Len(s) \in Nat /\ Len(t) \in Nat
      /\ Len(r) = Len(s) + Len(t)
      /\ \A k \in 1 .. Len(s) : r[k] = s[k]
      /\ \A j \in 1 .. Len(t) : r[Len(s) + j] = t[j]
      /\ \A k \in 1 .. Len(r) :
              \/ k \in 1 .. Len(s)
              \/ \E j \in 1 .. Len(t) : k = Len(s) + j
  BY ConcatParts
<1> HIDE DEF r
<1>2. \A j, l \in 1 .. Len(t) :
        j \in l+1 .. Len(t) => Len(s) + j \in (Len(s) + l) + 1 .. Len(r)
  BY <1>1
<1>3. \A j, l \in 1 .. Len(s) : j \in l+1 .. Len(s) => j \in l + 1 .. Len(r)
  BY <1>1
<1>5. \A l \in 1 .. Len(s) : \A j \in l+1 .. Len(s) : j \in 1 .. Len(s)
  BY <1>1
<1>6. \A l \in 1 .. Len(t) : \A j \in l+1 .. Len(t) : j \in 1 .. Len(t)
  BY <1>1
<1>4. Settles(r, On, Off)
  <2> SUFFICES ASSUME NEW k \in 1 .. Len(r), r[k] \in On
               PROVE  \E j \in k+1 .. Len(r) : r[j] \in Off
    BY DEF Settles
  <2>1. CASE k \in 1 .. Len(s)
    <3>1. PICK j \in k+1 .. Len(s) : s[j] \in Off
      BY <1>1, <2>1 DEF Settles
    <3> QED BY <1>1, <1>3, <1>5, <2>1, <3>1
  <2>2. CASE \E l \in 1 .. Len(t) : k = Len(s) + l
    <3>0. PICK l \in 1 .. Len(t) : k = Len(s) + l
      BY <2>2
    <3>1. PICK j \in l+1 .. Len(t) : t[j] \in Off
      BY <1>1, <3>0 DEF Settles
    <3> QED BY <1>1, <1>2, <1>6, <3>0, <3>1
  <2> QED BY <1>1, <2>1, <2>2
<1> QED BY <1>4 DEF r

(* and anything is settled by a second script that turns it off and not    *)
(* on.                                                                     *)
LEMMA SettlesShut ==
  ASSUME NEW s \in Seq(Ops), NEW t \in Seq(Ops), NEW On, NEW Off,
         Without(t, On), ~Without(t, Off)
  PROVE  Settles(s \o t, On, Off)
<1> DEFINE r == s \o t
<1>1. /\ Len(s) \in Nat /\ Len(t) \in Nat
      /\ Len(r) = Len(s) + Len(t)
      /\ \A k \in 1 .. Len(s) : r[k] = s[k]
      /\ \A j \in 1 .. Len(t) : r[Len(s) + j] = t[j]
      /\ \A k \in 1 .. Len(r) :
              \/ k \in 1 .. Len(s)
              \/ \E j \in 1 .. Len(t) : k = Len(s) + j
  BY ConcatParts
<1> HIDE DEF r
<1>2. PICK j \in 1 .. Len(t) : t[j] \in Off
  BY DEF Without
<1>3. \A k \in 1 .. Len(s) : Len(s) + j \in k+1 .. Len(r)
  BY <1>1
<1>4. Settles(r, On, Off)
  BY <1>1, <1>2, <1>3 DEF Settles, Without
<1> QED BY <1>4 DEF r

(* A first script that withdraws nothing takes nothing from the readiness  *)
(* of the second,                                                          *)
LEMMA ReadyBefore ==
  ASSUME NEW s \in Seq(Ops), NEW t \in Seq(Ops), NEW C,
         Without(s, Withdraws), Ready(t, C)
  PROVE  Ready(s \o t, C)
<1> DEFINE r == s \o t
<1>1. /\ Len(s) \in Nat /\ Len(t) \in Nat
      /\ Len(r) = Len(s) + Len(t)
      /\ \A k \in 1 .. Len(s) : r[k] = s[k]
      /\ \A j \in 1 .. Len(t) : r[Len(s) + j] = t[j]
      /\ \A k \in 1 .. Len(r) :
              \/ k \in 1 .. Len(s)
              \/ \E j \in 1 .. Len(t) : k = Len(s) + j
  BY ConcatParts
<1> HIDE DEF r
<1>2. \A l \in 1 .. Len(t) : \A j \in 1 .. l-1 :
        j \in 1 .. Len(t) /\ Len(s) + j \in 1 .. (Len(s) + l) - 1
  BY <1>1
<1>4. Ready(r, C)
  <2> SUFFICES ASSUME NEW k \in 1 .. Len(r), r[k] \in Withdraws, NEW u \in C
               PROVE  \E j \in 1 .. k-1 : r[j].op = "enable" /\ r[j].unit = u
    BY DEF Ready
  <2>1. CASE k \in 1 .. Len(s)
    BY <1>1, <2>1 DEF Without
  <2>2. CASE \E l \in 1 .. Len(t) : k = Len(s) + l
    <3>0. PICK l \in 1 .. Len(t) : k = Len(s) + l
      BY <2>2
    <3>1. PICK j \in 1 .. l-1 : t[j].op = "enable" /\ t[j].unit = u
      BY <1>1, <3>0 DEF Ready
    <3> QED BY <1>1, <1>2, <3>0, <3>1
  <2> QED BY <1>1, <2>1, <2>2
<1> QED BY <1>4 DEF r

(* Code is enabled two operations later, *)
LEMMA CodeThenEnable ==
  ASSUME NEW s \in Seq(Ops), Whole(s), NEW k \in 1 .. Len(s), s[k].op = "code"
  PROVE  k + 2 \in 1 .. Len(s) /\ s[k+2].op = "enable" /\ s[k+2].unit = s[k].unit
<1> HIDE DEF Ops
<1>1. Len(s) \in Nat
  BY LenProperties
<1>2. k + 1 \in 1 .. Len(s) /\ s[k+1].op = "aim" /\ s[k+1].unit = s[k].unit
  BY <1>1 DEF Whole
<1>3. k + 1 < Len(s) /\ s[(k+1)+1].op = "enable" /\ s[(k+1)+1].unit = s[k+1].unit
  BY <1>1, <1>2 DEF Whole
<1> QED BY <1>1, <1>2, <1>3

(* so that units that are ready in a first script are so whatever follows. *)
LEMMA ReadyAfter ==
  ASSUME NEW s \in Seq(Ops), NEW t \in Seq(Ops), NEW U, NEW D, NEW V, NEW C,
         Whole(s), Ready(s, C), Content(s, U, D, V), C \subseteq U
  PROVE  Ready(s \o t, C)
<1> DEFINE r == s \o t
<1>1. /\ Len(s) \in Nat /\ Len(t) \in Nat
      /\ Len(r) = Len(s) + Len(t)
      /\ \A k \in 1 .. Len(s) : r[k] = s[k]
      /\ \A j \in 1 .. Len(t) : r[Len(s) + j] = t[j]
      /\ \A k \in 1 .. Len(r) :
              \/ k \in 1 .. Len(s)
              \/ \E j \in 1 .. Len(t) : k = Len(s) + j
  BY ConcatParts
<1> HIDE DEF r
<1>2. \A u \in U : \E j \in 1 .. Len(s) : s[j].op = "enable" /\ s[j].unit = u
  BY CodeThenEnable DEF Content
<1>3. SUFFICES ASSUME NEW k \in 1 .. Len(r), r[k] \in Withdraws, NEW u \in C
               PROVE  \E j \in 1 .. k-1 : r[j].op = "enable" /\ r[j].unit = u
  BY DEF Ready, r
<1>4. CASE k \in 1 .. Len(s)
  <2>1. PICK j \in 1 .. k-1 : s[j].op = "enable" /\ s[j].unit = u
    BY <1>1, <1>3, <1>4 DEF Ready
  <2>2. j \in 1 .. Len(s)
    BY <1>1, <1>4
  <2> QED BY <1>1, <2>1, <2>2
<1>5. CASE k > Len(s)
  <2>1. PICK j \in 1 .. Len(s) : s[j].op = "enable" /\ s[j].unit = u
    BY <1>2
  <2>2. j \in 1 .. k-1
    BY <1>1, <1>5
  <2> QED BY <1>1, <2>1, <2>2
<1>6. k \in 1 .. Len(s) \/ k > Len(s)
  BY <1>1
<1> QED BY <1>4, <1>5, <1>6

(* The operations that may follow the sections of an image. *)
Scripted == {"keylock", "patchMode", "b820", "version"}

(* An image as it stands between the two calls of a patch request. *)
Part(s, i, U, D, V) ==
  /\ s \in Seq(Ops) /\ Whole(s) /\ Calm(s) /\ Ready(s, U)
  /\ Content(s, U, D, V) /\ OfImage(s, i)
  /\ \A k \in 1 .. Len(s) : s[k].op \notin {"setRequest", "clearRequest"}

(* An image before the writes that close it. *)
Body(s, i, U, D) == Part(s, i, U, D, {}) /\ Without(s, Withdraws)

(* The writes that close it. *)
Ending(t, V) ==
  /\ t \in Seq(Ops)
  /\ \A k \in 1 .. Len(t) : /\ t[k].op \in Scripted
                            /\ t[k].op = "version" => t[k].value \in V

(* Images of the same name may be strung together. *)
LEMMA OfImageConcat ==
  ASSUME NEW s \in Seq(Ops), NEW t \in Seq(Ops), NEW i,
         OfImage(s, i), OfImage(t, i)
  PROVE  OfImage(s \o t, i)
<1> DEFINE r == s \o t
<1>1. /\ \A k \in 1 .. Len(s) : r[k] = s[k]
      /\ \A j \in 1 .. Len(t) : r[Len(s) + j] = t[j]
      /\ \A k \in 1 .. Len(r) :
              \/ k \in 1 .. Len(s)
              \/ \E j \in 1 .. Len(t) : k = Len(s) + j
  BY ConcatParts
<1> HIDE DEF r
<1>2. OfImage(r, i)
  <2> SUFFICES ASSUME NEW k \in 1 .. Len(r), r[k].op = "code"
               PROVE  r[k].image = i
    BY DEF OfImage
  <2>1. CASE k \in 1 .. Len(s)
    BY <1>1, <2>1 DEF OfImage
  <2>2. CASE \E j \in 1 .. Len(t) : k = Len(s) + j
    BY <1>1, <2>2 DEF OfImage
  <2> QED BY <1>1, <2>1, <2>2
<1> QED BY <1>2 DEF r

(* What occurs in neither script does not occur in both together. *)
LEMMA WithoutConcat ==
  ASSUME NEW s \in Seq(Ops), NEW t \in Seq(Ops), NEW A,
         Without(s, A), Without(t, A)
  PROVE  Without(s \o t, A)
<1> DEFINE r == s \o t
<1>1. /\ \A k \in 1 .. Len(s) : r[k] = s[k]
      /\ \A j \in 1 .. Len(t) : r[Len(s) + j] = t[j]
      /\ \A k \in 1 .. Len(r) :
              \/ k \in 1 .. Len(s)
              \/ \E j \in 1 .. Len(t) : k = Len(s) + j
  BY ConcatParts
<1> HIDE DEF r
<1>2. Without(r, A)
  BY <1>1 DEF Without
<1> QED BY <1>2 DEF r

(* The same for the bodies of images. *)
LEMMA BodyConcat ==
  ASSUME NEW s, NEW t, NEW i, NEW U, NEW D, NEW U2, NEW D2,
         Body(s, i, U, D), Body(t, i, U2, D2)
  PROVE  Body(s \o t, i, U \cup U2, D \cup D2)
<1> DEFINE r == s \o t
<1>1. s \in Seq(Ops) /\ t \in Seq(Ops)
  BY DEF Body, Part
<1>2. /\ r \in Seq(Ops)
      /\ \A k \in 1 .. Len(s) : r[k] = s[k]
      /\ \A j \in 1 .. Len(t) : r[Len(s) + j] = t[j]
      /\ \A k \in 1 .. Len(r) :
              \/ k \in 1 .. Len(s)
              \/ \E j \in 1 .. Len(t) : k = Len(s) + j
  BY <1>1, ConcatParts
<1>3. Whole(r) /\ OfImage(r, i) /\ Without(r, Withdraws)
  BY <1>1, WholeConcat, OfImageConcat, WithoutConcat DEF Body, Part
<1>4. Content(r, U \cup U2, D \cup D2, {})
  <2>1. Content(s, U, D, {}) /\ Content(t, U2, D2, {})
    BY DEF Body, Part
  <2>2. Content(r, U \cup U2, D \cup D2, {} \cup {})
    BY <1>1, <2>1, ContentConcat
  <2>3. {} \cup {} = {}
    OBVIOUS
  <2> QED BY <2>2, <2>3
<1> HIDE DEF r
<1>5. \A k \in 1 .. Len(r) : r[k].op \notin {"setRequest", "clearRequest"}
  BY <1>2 DEF Body, Part
<1>6. Calm(r) /\ Ready(r, U \cup U2)
  BY <1>3 DEF Without, Calm, Ready
<1>7. Body(r, i, U \cup U2, D \cup D2)
  BY <1>2, <1>3, <1>4, <1>5, <1>6 DEF Body, Part
<1> QED BY <1>7 DEF r

(* A body is an image already, *)
LEMMA BodyIsPart ==
  ASSUME NEW s, NEW i, NEW U, NEW D, Body(s, i, U, D)
  PROVE  Part(s, i, U, D, {}) /\ s \in Seq(Ops)
BY DEF Body, Part

(* and it still is one with its ending. *)
LEMMA PartEnds ==
  ASSUME NEW s, NEW t, NEW i, NEW U, NEW D, NEW V, NEW V2,
         Part(s, i, U, D, V), Ending(t, V2)
  PROVE  Part(s \o t, i, U, D, V \cup V2)
<1> DEFINE r == s \o t
<1>1. s \in Seq(Ops) /\ t \in Seq(Ops)
  BY DEF Ending, Part
<1>2. /\ r \in Seq(Ops)
      /\ Len(s) \in Nat /\ Len(t) \in Nat
      /\ \A k \in 1 .. Len(s) : r[k] = s[k]
      /\ \A j \in 1 .. Len(t) : r[Len(s) + j] = t[j]
      /\ \A k \in 1 .. Len(r) :
              \/ k \in 1 .. Len(s)
              \/ \E j \in 1 .. Len(t) : k = Len(s) + j
  BY <1>1, ConcatParts
<1>3. Whole(t) /\ OfImage(t, i) /\ Content(t, {}, {}, V2) /\ Without(t, Needs)
  BY DEF Ending, Scripted, Whole, OfImage, Content, Without, Needs
<1>4. Whole(r) /\ OfImage(r, i) /\ Content(r, U, D, V \cup V2)
  <2>1. Content(r, U \cup {}, D \cup {}, V \cup V2)
    BY <1>1, <1>3, ContentConcat DEF Part
  <2>2. U \cup {} = U /\ D \cup {} = D
    OBVIOUS
  <2> QED BY <1>1, <1>3, <2>1, <2>2, WholeConcat, OfImageConcat DEF Part
<1>5. Ready(r, U)
  BY <1>1, ReadyAfter DEF Part
<1> HIDE DEF r
<1>6. \A k \in 1 .. Len(r) : r[k].op \notin {"setRequest", "clearRequest"}
  BY <1>2 DEF Ending, Scripted, Part
<1>7. Calm(r)
  <2> SUFFICES ASSUME NEW j \in 1 .. Len(r), NEW k \in 1 .. Len(r),
                      j < k, r[j] \in Withdraws
               PROVE  r[k] \notin Needs
    BY DEF Calm
  <2>1. CASE k \in 1 .. Len(s)
    <3>1. j \in 1 .. Len(s)
      BY <1>2, <2>1
    <3> QED BY <1>2, <2>1, <3>1 DEF Part, Calm
  <2>2. CASE \E l \in 1 .. Len(t) : k = Len(s) + l
    BY <1>2, <1>3, <2>2 DEF Without
  <2> QED BY <1>2, <2>1, <2>2
<1>8. Part(r, i, U, D, V \cup V2)
  BY <1>2, <1>4, <1>5, <1>6, <1>7 DEF Part
<1> QED BY <1>8 DEF r

(* Opening and closing the key lock, entering and leaving the patch mode,  *)
(* and setting the request; B820 holds the last two.                       *)
LockOn  == {o \in Ops : o.op = "keylock" /\ o.open = TRUE}
LockOff == {o \in Ops : o.op = "keylock" /\ o.open = FALSE}
ModeOn  == {o \in Ops : \/ o.op = "patchMode" /\ o.on = TRUE
                        \/ o.op = "b820" /\ o.mode = TRUE}
ModeOff == {o \in Ops : \/ o.op = "patchMode" /\ o.on = FALSE
                        \/ o.op = "b820" /\ o.mode = FALSE}
RequestOn == {o \in Ops : \/ o.op = "setRequest"
                          \/ o.op = "b820" /\ o.request = TRUE}

(* A script by which the PHY is left as it was but for the code: what      *)
(* holds of one image, and of several in a row.                            *)
Block(s, U, D, V) ==
  /\ s \in Seq(Ops) /\ Whole(s) /\ AllHeld(s) /\ Content(s, U, D, V)
  /\ Settles(s, LockOn, LockOff) /\ Settles(s, ModeOn, ModeOff)
  /\ Settles(s, RequestOn, Withdraws)

(* The two calls of the patch request as scripts, *)
LEMMA RequestOps ==
  /\ SetPatchRequest \in Seq(Ops) /\ Len(SetPatchRequest) = 1
  /\ SetPatchRequest[1] = [op |-> "setRequest"]
  /\ ClearPatchRequest \in Seq(Ops) /\ Len(ClearPatchRequest) = 1
  /\ ClearPatchRequest[1] = [op |-> "clearRequest"]
  /\ [op |-> "setRequest"] \in Ops /\ [op |-> "clearRequest"] \in Ops
<1>1. [op |-> "setRequest"] \in Ops /\ [op |-> "clearRequest"] \in Ops
  BY DEF Ops
<1> HIDE DEF Ops
<1> QED BY <1>1 DEF SetPatchRequest, ClearPatchRequest

(* and what does not occur in them. *)
LEMMA RequestCalls ==
  /\ \A i : OfImage(SetPatchRequest, i) /\ OfImage(ClearPatchRequest, i)
  /\ Whole(SetPatchRequest) /\ Whole(ClearPatchRequest)
  /\ Content(SetPatchRequest, {}, {}, {}) /\ Content(ClearPatchRequest, {}, {}, {})
  /\ Without(SetPatchRequest, Withdraws)
  /\ Without(SetPatchRequest, Needs) /\ Without(ClearPatchRequest, Needs)
  /\ Without(SetPatchRequest, LockOn) /\ Without(ClearPatchRequest, LockOn)
  /\ Without(SetPatchRequest, ModeOn) /\ Without(ClearPatchRequest, ModeOn)
  /\ Without(ClearPatchRequest, RequestOn) /\ ~Without(ClearPatchRequest, Withdraws)
<1> HIDE DEF Ops
<1> USE RequestOps
<1>1. \A k \in 1 .. Len(SetPatchRequest) : SetPatchRequest[k].op = "setRequest"
  OBVIOUS
<1>2. \A k \in 1 .. Len(ClearPatchRequest) : ClearPatchRequest[k].op = "clearRequest"
  OBVIOUS
<1>3. ClearPatchRequest[1] \in Withdraws
  BY DEF Withdraws
<1>4. /\ \A i : OfImage(SetPatchRequest, i) /\ OfImage(ClearPatchRequest, i)
      /\ Whole(SetPatchRequest) /\ Whole(ClearPatchRequest)
      /\ Content(SetPatchRequest, {}, {}, {}) /\ Content(ClearPatchRequest, {}, {}, {})
  BY <1>1, <1>2 DEF OfImage, Whole, Content
<1>5. /\ Without(SetPatchRequest, Withdraws)
      /\ Without(SetPatchRequest, Needs) /\ Without(ClearPatchRequest, Needs)
      /\ Without(SetPatchRequest, LockOn) /\ Without(ClearPatchRequest, LockOn)
      /\ Without(SetPatchRequest, ModeOn) /\ Without(ClearPatchRequest, ModeOn)
      /\ Without(ClearPatchRequest, RequestOn)
  BY <1>1, <1>2 DEF Without, Withdraws, Needs, LockOn, ModeOn, RequestOn
<1> QED BY <1>3, <1>4, <1>5 DEF Without

(* What is never turned on needs no settling. *)
LEMMA SettlesWithout ==
  ASSUME NEW s, NEW On, NEW Off, Without(s, On)
  PROVE  Settles(s, On, Off)
BY DEF Settles, Without

(* Between the calls of a patch request, an image becomes a block. *)
LEMMA PatchedIs ==
  ASSUME NEW s, NEW i, NEW U, NEW D, NEW V, Part(s, i, U, D, V),
         Settles(s, LockOn, LockOff), Settles(s, ModeOn, ModeOff)
  PROVE  /\ Block(Patched(s), U, D, V)
         /\ Ready(Patched(s), U) /\ OfImage(Patched(s), i)
<1> USE RequestOps, RequestCalls
<1> HIDE DEF Ops
<1> DEFINE q == SetPatchRequest \o s
<1> DEFINE r == q \o ClearPatchRequest
<1>1. s \in Seq(Ops) /\ q \in Seq(Ops) /\ r \in Seq(Ops) /\ r = Patched(s)
  BY ConcatIs DEF Part, Patched
<1>2. Whole(q) /\ OfImage(q, i) /\ Content(q, U, D, V) /\ Ready(q, U)
  <2>1. Content(q, {} \cup U, {} \cup D, {} \cup V)
    BY <1>1, ContentConcat DEF Part
  <2>2. {} \cup U = U /\ {} \cup D = D /\ {} \cup V = V
    OBVIOUS
  <2> QED BY <1>1, <2>1, <2>2, WholeConcat, OfImageConcat, ReadyBefore DEF Part
<1>3. Settles(q, LockOn, LockOff) /\ Settles(q, ModeOn, ModeOff)
  BY <1>1, SettlesBoth, SettlesWithout
<1>4. /\ Len(s) \in Nat
      /\ q[1].op = "setRequest" /\ Len(q) = 1 + Len(s)
      /\ \A j \in 1 .. Len(s) : q[1 + j] = s[j]
      /\ \A k \in 1 .. Len(q) : k = 1 \/ \E j \in 1 .. Len(s) : k = 1 + j
  <2>1. /\ Len(SetPatchRequest) \in Nat /\ Len(s) \in Nat
        /\ Len(q) = Len(SetPatchRequest) + Len(s)
        /\ \A k \in 1 .. Len(SetPatchRequest) : q[k] = SetPatchRequest[k]
        /\ \A j \in 1 .. Len(s) : q[Len(SetPatchRequest) + j] = s[j]
        /\ \A k \in 1 .. Len(q) : \/ k \in 1 .. Len(SetPatchRequest)
                                  \/ \E j \in 1 .. Len(s) : k = Len(SetPatchRequest) + j
    BY <1>1, ConcatParts
  <2> HIDE DEF q
  <2> QED BY <2>1
<1> HIDE DEF q
<1>5. Whole(r) /\ OfImage(r, i) /\ Content(r, U, D, V) /\ Ready(r, U)
  <2>1. Content(r, U \cup {}, D \cup {}, V \cup {})
    BY <1>1, <1>2, ContentConcat
  <2>2. U \cup {} = U /\ D \cup {} = D /\ V \cup {} = V
    OBVIOUS
  <2> QED BY <1>1, <1>2, <2>1, <2>2, WholeConcat, OfImageConcat, ReadyAfter
<1>6. Settles(r, LockOn, LockOff) /\ Settles(r, ModeOn, ModeOff)
  BY <1>1, <1>3, SettlesBoth, SettlesWithout
<1>7. Settles(r, RequestOn, Withdraws)
  BY <1>1, SettlesShut
<1>8. /\ Len(r) = Len(q) + 1
      /\ \A k \in 1 .. Len(q) : r[k] = q[k]
      /\ r[Len(q) + 1].op = "clearRequest"
      /\ \A k \in 1 .. Len(r) : k \in 1 .. Len(q) \/ k = Len(q) + 1
  <2>1. /\ Len(q) \in Nat /\ Len(ClearPatchRequest) \in Nat
        /\ Len(r) = Len(q) + Len(ClearPatchRequest)
        /\ \A k \in 1 .. Len(q) : r[k] = q[k]
        /\ \A j \in 1 .. Len(ClearPatchRequest) : r[Len(q) + j] = ClearPatchRequest[j]
        /\ \A k \in 1 .. Len(r) :
             \/ k \in 1 .. Len(q)
             \/ \E j \in 1 .. Len(ClearPatchRequest) : k = Len(q) + j
    BY <1>1, ConcatParts
  <2> HIDE DEF r
  <2> QED BY <2>1
<1> HIDE DEF r
<1>9. AllHeld(r)
  <2> SUFFICES ASSUME NEW k \in 1 .. Len(r), r[k] \in Needs
               PROVE  HeldAt(r, k)
    BY DEF AllHeld
  <2>1. k # Len(q) + 1
    BY <1>8 DEF Needs
  <2>2. k # 1
    BY <1>4, <1>8 DEF Needs
  <2>3. PICK j \in 1 .. Len(s) : k = 1 + j
    BY <1>4, <1>8, <2>1, <2>2
  <2>4. \A l \in 2 .. k : /\ l - 1 \in 1 .. Len(s) /\ l \in 1 .. Len(q)
                         /\ l = 1 + (l - 1) /\ l - 1 \in 1 .. j
    BY <1>4, <2>3
  <2>5. \A l \in 2 .. k : r[l] = s[l - 1]
    BY <1>4, <1>8, <2>4
  <2>6. s[j] \in Needs
    BY <2>3, <2>5, <1>4
  <2>7. \A l \in 1 + 1 .. k - 1 : r[l] \notin Withdraws
    <3> SUFFICES ASSUME NEW l \in 2 .. k - 1
                 PROVE  r[l] \notin Withdraws
      OBVIOUS
    <3>1. r[l] = s[l - 1] /\ l - 1 \in 1 .. Len(s) /\ l - 1 < j
      BY <2>3, <2>4, <2>5
    <3> QED BY <3>1, <2>6 DEF Part, Calm
  <2>8. r[1].op = "setRequest" /\ 1 \in 1 .. k - 1
    BY <1>4, <1>8, <2>3
  <2> QED BY <2>7, <2>8 DEF HeldAt
<1> QED BY <1>1, <1>5, <1>6, <1>7, <1>9 DEF Block

(* Blocks in a row are a block. *)
LEMMA BlockConcat ==
  ASSUME NEW s, NEW t, NEW U, NEW D, NEW V, NEW U2, NEW D2, NEW V2,
         Block(s, U, D, V), Block(t, U2, D2, V2)
  PROVE  Block(s \o t, U \cup U2, D \cup D2, V \cup V2)
<1>1. s \in Seq(Ops) /\ t \in Seq(Ops)
  BY DEF Block
<1>2. s \o t \in Seq(Ops)
  BY <1>1, ConcatIs
<1> QED BY <1>1, <1>2, WholeConcat, AllHeldConcat, ContentConcat, SettlesBoth DEF Block

(* The code of one unit, with hooks enabled that were aimed. *)
LEMMA SectionIs ==
  ASSUME NEW u \in Units, NEW i \in Names, NEW a, NEW e,
         a \subseteq Hooks, e \subseteq a
  PROVE  Body(Section(u, i, a, e), i, {u}, {})
<1> DEFINE s == Section(u, i, a, e)
<1> DEFINE x == [op |-> "code", unit |-> u, image |-> i]
<1> DEFINE y == [op |-> "aim", unit |-> u, image |-> i, hooks |-> a]
<1> DEFINE z == [op |-> "enable", unit |-> u, hooks |-> e]
<1>1. x \in Ops /\ y \in Ops /\ z \in Ops
  BY DEF Ops
<1>2. /\ x.op = "code" /\ x.unit = u /\ x.image = i
      /\ y.op = "aim" /\ y.unit = u /\ y.image = i /\ y.hooks = a
      /\ z.op = "enable" /\ z.unit = u /\ z.hooks = e
  OBVIOUS
<1>3. s = << x, y, z >>
  BY DEF Section
<1> HIDE DEF Ops, x, y, z, s
<1>4. /\ s \in Seq(Ops) /\ Len(s) = 3 /\ s[1] = x /\ s[2] = y /\ s[3] = z
  BY <1>1, <1>3
<1>5. \A k \in 1 .. 3 : k = 1 \/ k = 2 \/ k = 3
  OBVIOUS
<1>6. Whole(s)
  BY <1>2, <1>4, <1>5 DEF Whole
<1>7. Content(s, {u}, {}, {}) /\ OfImage(s, i) /\ Without(s, Withdraws)
  BY <1>2, <1>4, <1>5 DEF Content, OfImage, Without, Withdraws
<1>8. Calm(s) /\ Ready(s, {u})
  BY <1>7 DEF Without, Calm, Ready
<1>9. \A k \in 1 .. Len(s) : s[k].op \notin {"setRequest", "clearRequest"}
  BY <1>2, <1>4, <1>5
<1>10. Body(s, i, {u}, {})
  BY <1>4, <1>6, <1>7, <1>8, <1>9 DEF Body, Part
<1> QED BY <1>10 DEF s

(* A script of one operation. *)
LEMMA SingleIs ==
  ASSUME NEW o \in Ops
  PROVE  << o >> \in Seq(Ops) /\ Len(<< o >>) = 1 /\ << o >>[1] = o
<1> HIDE DEF Ops
<1> QED OBVIOUS

(* A block of data. *)
LEMMA DataIs ==
  ASSUME NEW d \in Names, NEW i
  PROVE  Body(Data(d), i, {}, {d})
<1> DEFINE x == [op |-> "data", image |-> d]
<1>1. x \in Ops
  BY DEF Ops
<1>2. x.op = "data" /\ x.image = d
  OBVIOUS
<1> DEFINE s == << x >>
<1>3. s = Data(d)
  BY DEF Data
<1>4. s \in Seq(Ops) /\ Len(s) = 1 /\ s[1] = x
  BY <1>1, SingleIs
<1> HIDE DEF x, s
<1>5. Body(s, i, {}, {d})
  BY <1>2, <1>4 DEF Body, Part, Whole, Calm, Ready, Content, OfImage, Without, Withdraws
<1> QED BY <1>3, <1>5

(* A write of the lock, of the mode or of B820. *)
LEMMA QuietIs ==
  ASSUME NEW o \in Ops, o.op \in {"keylock", "patchMode", "b820"}
  PROVE  /\ Ending(<< o >>, {})
         /\ o \notin Withdraws => \A i : Body(<< o >>, i, {}, {})
         /\ \A A : Without(<< o >>, A) <=> o \notin A
<1> DEFINE s == << o >>
<1>1. s \in Seq(Ops) /\ Len(s) = 1 /\ s[1] = o
  BY SingleIs
<1> HIDE DEF s
<1>2. Ending(s, {})
  BY <1>1 DEF Ending, Scripted
<1>3. \A A : Without(s, A) <=> o \notin A
  BY <1>1 DEF Without
<1>4. ASSUME o \notin Withdraws, NEW i
      PROVE  Body(s, i, {}, {})
  BY <1>1, <1>4 DEF Body, Part, Whole, Calm, Ready, Content, OfImage, Without
<1> QED BY <1>2, <1>3, <1>4 DEF s

(* The key lock, opened and closed, *)
LEMMA LockIs ==
  /\ \A i : Body(OpenKeyLock, i, {}, {})
  /\ Ending(CloseKeyLock, {})
  /\ Without(CloseKeyLock, LockOn) /\ ~Without(CloseKeyLock, LockOff)
  /\ Without(CloseKeyLock, ModeOn)
<1> DEFINE x == [op |-> "keylock", open |-> TRUE]
<1> DEFINE y == [op |-> "keylock", open |-> FALSE]
<1>1. x \in Ops /\ y \in Ops
  BY DEF Ops
<1>2. x.op = "keylock" /\ y.op = "keylock" /\ x \notin Withdraws
      /\ y \notin LockOn /\ y \in LockOff /\ y \notin ModeOn
  BY <1>1 DEF Withdraws, LockOn, LockOff, ModeOn
<1>3. OpenKeyLock = << x >> /\ CloseKeyLock = << y >>
  BY DEF OpenKeyLock, CloseKeyLock
<1> HIDE DEF x, y
<1> QED BY <1>1, <1>2, <1>3, QuietIs

(* the patch mode, *)
LEMMA ModeBitIs ==
  /\ \A i : Body(PatchModeBit(TRUE), i, {}, {})
  /\ Ending(PatchModeBit(FALSE), {})
  /\ Without(PatchModeBit(FALSE), ModeOn) /\ ~Without(PatchModeBit(FALSE), ModeOff)
<1> DEFINE x == [op |-> "patchMode", on |-> TRUE]
<1> DEFINE y == [op |-> "patchMode", on |-> FALSE]
<1>1. x \in Ops /\ y \in Ops
  BY DEF Ops
<1>2. x.op = "patchMode" /\ y.op = "patchMode" /\ x \notin Withdraws
      /\ y \notin ModeOn /\ y \in ModeOff
  BY <1>1 DEF Withdraws, ModeOn, ModeOff
<1>3. PatchModeBit(TRUE) = << x >> /\ PatchModeBit(FALSE) = << y >>
  BY DEF PatchModeBit
<1> HIDE DEF x, y
<1> QED BY <1>1, <1>2, <1>3, QuietIs

(* the word that holds mode and request, *)
LEMMA B820Is ==
  /\ \A i : Body(B820(TRUE, TRUE), i, {}, {}) /\ Body(B820(FALSE, TRUE), i, {}, {})
  /\ Ending(B820(FALSE, FALSE), {})
  /\ Without(B820(FALSE, FALSE), LockOn)
  /\ Without(B820(FALSE, FALSE), ModeOn) /\ ~Without(B820(FALSE, FALSE), ModeOff)
<1> DEFINE x == [op |-> "b820", mode |-> TRUE, request |-> TRUE]
<1> DEFINE y == [op |-> "b820", mode |-> FALSE, request |-> TRUE]
<1> DEFINE z == [op |-> "b820", mode |-> FALSE, request |-> FALSE]
<1>1. x \in Ops /\ y \in Ops /\ z \in Ops
  BY DEF Ops
<1>2. /\ x.op = "b820" /\ y.op = "b820" /\ z.op = "b820" /\ x \notin Withdraws
      /\ y \notin Withdraws
      /\ z \notin ModeOn /\ z \in ModeOff /\ z \notin LockOn
  BY <1>1 DEF Withdraws, ModeOn, ModeOff, LockOn
<1>3. /\ B820(TRUE, TRUE) = << x >> /\ B820(FALSE, TRUE) = << y >>
      /\ B820(FALSE, FALSE) = << z >>
  BY DEF B820
<1> HIDE DEF x, y, z
<1> QED BY <1>1, <1>2, <1>3, QuietIs

(* and the version that an image writes itself. *)
LEMMA VersionIs ==
  ASSUME NEW v \in Names
  PROVE  /\ Ending(Version(v), {v})
         /\ Without(Version(v), LockOn) /\ Without(Version(v), ModeOn)
<1> DEFINE x == [op |-> "version", value |-> v]
<1>1. x \in Ops
  BY DEF Ops
<1>2. x.op = "version" /\ x.value = v /\ x \notin LockOn /\ x \notin ModeOn
  BY DEF LockOn, ModeOn
<1> DEFINE s == << x >>
<1>3. s = Version(v)
  BY DEF Version
<1>4. s \in Seq(Ops) /\ Len(s) = 1 /\ s[1] = x
  BY <1>1, SingleIs
<1> HIDE DEF x, s
<1>5. Ending(s, {v}) /\ Without(s, LockOn) /\ Without(s, ModeOn)
  BY <1>2, <1>4 DEF Ending, Scripted, Without
<1> QED BY <1>3, <1>5

(* What the images of the source are put together from: bodies, *)
LEMMA BodyGrows ==
  /\ \A s, t, i, U, D :
       Body(s, i, {}, {}) /\ Body(t, i, U, D) => Body(s \o t, i, U, D)
  /\ \A s, t, i, U, D :
       Body(s, i, U, D) /\ Body(t, i, {}, {}) => Body(s \o t, i, U, D)
  /\ \A s, t, i, U, W :
       Body(s, i, U, {}) /\ Body(t, i, W, {}) => Body(s \o t, i, U \cup W, {})
  /\ \A s, t, i, U, D :
       Body(s, i, U, {}) /\ Body(t, i, {}, D) => Body(s \o t, i, U, D)
<1>1. \A A : A \cup {} = A /\ {} \cup A = A
  OBVIOUS
<1> QED BY <1>1, BodyConcat

(* and endings. *)
LEMMA PartGrows ==
  /\ \A s, i, U, D : Body(s, i, U, D) => Part(s, i, U, D, {})
  /\ \A s, t, i, U, D, V :
       Part(s, i, U, D, V) /\ Ending(t, {}) => Part(s \o t, i, U, D, V)
  /\ \A s, t, i, U, D, V :
       Part(s, i, U, D, {}) /\ Ending(t, V) => Part(s \o t, i, U, D, V)
<1>1. \A A : A \cup {} = A /\ {} \cup A = A
  OBVIOUS
<1> QED BY <1>1, BodyIsPart, PartEnds

(* How the images open, *)
LEMMA OpenIs ==
  \A i : /\ Body(OpenImage, i, {}, {})
         /\ Body(LeavePatchMode, i, {}, {})
         /\ Body(AcquirePhyMcuPatchKeyLock \o PatchModeBit(TRUE), i, {}, {})
BY BodyGrows, LockIs, ModeBitIs, B820Is
   DEF OpenImage, LeavePatchMode, AcquirePhyMcuPatchKeyLock

(* and how they close. *)
LEMMA CloseIs ==
  /\ Ending(CloseImage, {})
  /\ Without(CloseImage, LockOn) /\ ~Without(CloseImage, LockOff)
  /\ Without(CloseImage, ModeOn) /\ ~Without(CloseImage, ModeOff)
<1> DEFINE s == CloseKeyLock
<1> DEFINE t == B820(FALSE, FALSE)
<1> DEFINE r == s \o t
<1>1. s \in Seq(Ops) /\ t \in Seq(Ops)
  BY LockIs, B820Is DEF Ending
<1>2. Without(r, LockOn) /\ Without(r, ModeOn)
  BY <1>1, LockIs, B820Is, WithoutConcat
<1>3. /\ r \in Seq(Ops)
      /\ Len(s) \in Nat /\ Len(t) \in Nat /\ Len(r) = Len(s) + Len(t)
      /\ \A k \in 1 .. Len(s) : r[k] = s[k]
      /\ \A j \in 1 .. Len(t) : r[Len(s) + j] = t[j]
      /\ \A k \in 1 .. Len(r) : \/ k \in 1 .. Len(s)
                                \/ \E j \in 1 .. Len(t) : k = Len(s) + j
  BY <1>1, ConcatParts
<1>4. /\ Ending(s, {}) /\ Ending(t, {})
      /\ ~Without(s, LockOff) /\ ~Without(t, ModeOff)
  BY LockIs, B820Is
<1> HIDE DEF r, s, t
<1>5. ~Without(r, LockOff) /\ ~Without(r, ModeOff)
  <2>1. \A k \in 1 .. Len(s) : k \in 1 .. Len(r)
    BY <1>3
  <2>2. \A j \in 1 .. Len(t) : Len(s) + j \in 1 .. Len(r)
    BY <1>3
  <2> QED BY <1>3, <1>4, <2>1, <2>2 DEF Without
<1>6. Ending(r, {})
  <2> SUFFICES ASSUME NEW k \in 1 .. Len(r)
               PROVE  r[k].op \in Scripted /\ r[k].op # "version"
    BY <1>3 DEF Ending
  <2>1. CASE k \in 1 .. Len(s)
    BY <1>3, <1>4, <2>1 DEF Ending
  <2>2. CASE \E j \in 1 .. Len(t) : k = Len(s) + j
    BY <1>3, <1>4, <2>2 DEF Ending
  <2> QED BY <1>3, <2>1, <2>2
<1> QED BY <1>2, <1>5, <1>6 DEF r, s, t, CloseImage

(* An image that closes what it opened. *)
Settled(s) == Settles(s, LockOn, LockOff) /\ Settles(s, ModeOn, ModeOff)

Image(s, i, U, D, V) == Part(s, i, U, D, V) /\ Settled(s)

(* The four ways in which the source closes an image. *)
LEMMA ShutIs ==
  ASSUME NEW s, NEW i, NEW U, NEW D, Body(s, i, U, D)
  PROVE  /\ Image(s \o CloseImage, i, U, D, {})
         /\ \A v \in Names : Image(s \o CloseImage \o Version(v), i, U, D, {v})
         /\ \A v \in Names :
              Image(s \o CloseKeyLock \o Version(v) \o B820(FALSE, FALSE), i, U, D, {v})
         /\ Image(s \o PatchModeBit(FALSE) \o ReleasePhyMcuPatchKeyLock, i, U, D, {})
<1>1. s \in Seq(Ops) /\ Part(s, i, U, D, {})
  BY BodyIsPart
<1>2. \A v \in Names : Version(v) \in Seq(Ops)
  BY VersionIs DEF Ending
<1>3. /\ CloseImage \in Seq(Ops) /\ CloseKeyLock \in Seq(Ops)
      /\ B820(FALSE, FALSE) \in Seq(Ops) /\ PatchModeBit(FALSE) \in Seq(Ops)
  BY CloseIs, LockIs, B820Is, ModeBitIs DEF Ending
<1>4. Image(s \o CloseImage, i, U, D, {})
  BY <1>1, <1>3, CloseIs, PartGrows, SettlesShut DEF Image, Settled
<1>5. ASSUME NEW v \in Names
      PROVE  Image(s \o CloseImage \o Version(v), i, U, D, {v})
  <2>1. s \o CloseImage \in Seq(Ops) /\ Settled(s \o CloseImage)
        /\ Part(s \o CloseImage, i, U, D, {})
    BY <1>4 DEF Image, Part
  <2>2. Settles(Version(v), LockOn, LockOff) /\ Settles(Version(v), ModeOn, ModeOff)
    BY VersionIs, SettlesWithout
  <2> QED BY <1>2, <2>1, <2>2, VersionIs, PartGrows, SettlesBoth DEF Image, Settled
<1>6. ASSUME NEW v \in Names
      PROVE  Image(s \o CloseKeyLock \o Version(v) \o B820(FALSE, FALSE), i, U, D, {v})
  <2> DEFINE a == s \o CloseKeyLock
  <2> DEFINE b == a \o Version(v)
  <2> DEFINE c == b \o B820(FALSE, FALSE)
  <2>1. a \in Seq(Ops) /\ b \in Seq(Ops)
    BY <1>1, <1>2, <1>3, ConcatIs
  <2>2. Part(c, i, U, D, {v})
    BY <1>1, LockIs, VersionIs, B820Is, PartGrows
  <2>3. Settles(c, ModeOn, ModeOff)
    BY <1>3, <2>1, B820Is, SettlesShut
  <2>4. Settles(a, LockOn, LockOff)
    BY <1>1, <1>3, LockIs, SettlesShut
  <2>5. /\ Settles(Version(v), LockOn, LockOff)
        /\ Settles(B820(FALSE, FALSE), LockOn, LockOff)
    BY VersionIs, B820Is, SettlesWithout
  <2>6. Settles(c, LockOn, LockOff)
    BY <1>2, <1>3, <2>1, <2>4, <2>5, SettlesBoth
  <2> QED BY <2>2, <2>3, <2>6 DEF Image, Settled
<1>7. Image(s \o PatchModeBit(FALSE) \o ReleasePhyMcuPatchKeyLock, i, U, D, {})
  <2> DEFINE a == s \o PatchModeBit(FALSE)
  <2> DEFINE b == a \o CloseKeyLock
  <2>1. a \in Seq(Ops)
    BY <1>1, <1>3, ConcatIs
  <2>2. Part(b, i, U, D, {})
    BY <1>1, LockIs, ModeBitIs, PartGrows
  <2>3. Settles(b, LockOn, LockOff)
    BY <1>3, <2>1, LockIs, SettlesShut
  <2>4. Settles(a, ModeOn, ModeOff)
    BY <1>1, <1>3, ModeBitIs, SettlesShut
  <2>5. Settles(CloseKeyLock, ModeOn, ModeOff)
    BY LockIs, SettlesWithout
  <2>6. Settles(b, ModeOn, ModeOff)
    BY <1>3, <2>1, <2>4, <2>5, SettlesBoth
  <2> QED BY <2>2, <2>3, <2>6 DEF Image, Settled, ReleasePhyMcuPatchKeyLock
<1> QED BY <1>4, <1>5, <1>6, <1>7

(* The images that consist of data. *)
LEMMA DataImages ==
  ASSUME NEW d \in Names, NEW i
  PROVE  /\ Image(Data(d), i, {}, {d}, {})
         /\ Image(Data(d) \o B820(FALSE, FALSE), i, {}, {d}, {})
<1> DEFINE x == [op |-> "data", image |-> d]
<1>0. x \in Ops
  BY DEF Ops
<1>1. x.op = "data"
  OBVIOUS
<1>2. Data(d) = << x >>
  BY DEF Data
<1>3. << x >> \in Seq(Ops) /\ Len(<< x >>) = 1 /\ << x >>[1] = x
  BY <1>0, SingleIs
<1> HIDE DEF x
<1>4. Without(Data(d), LockOn) /\ Without(Data(d), ModeOn) /\ Data(d) \in Seq(Ops)
  BY <1>1, <1>2, <1>3 DEF Without, LockOn, ModeOn
<1>5. Settles(Data(d), LockOn, LockOff) /\ Settles(Data(d), ModeOn, ModeOff)
  BY <1>4, SettlesWithout
<1>6. Part(Data(d), i, {}, {d}, {})
  BY DataIs, BodyIsPart
<1>7. Part(Data(d) \o B820(FALSE, FALSE), i, {}, {d}, {})
  BY <1>6, B820Is, PartGrows
<1>8. /\ B820(FALSE, FALSE) \in Seq(Ops)
      /\ Settles(B820(FALSE, FALSE), LockOn, LockOff)
      /\ Settles(B820(FALSE, FALSE), ModeOn, ModeOff)
  BY B820Is, SettlesWithout DEF Ending
<1> QED BY <1>4, <1>5, <1>6, <1>7, <1>8, SettlesBoth DEF Image, Settled

(* The names that the proofs speak of. *)
LEMMA NamesAre ==
  /\ "8125a_1" \in Names /\ "8125a_2" \in Names /\ "8125b_1" \in Names
  /\ "8125b_2" \in Names /\ "8125bp_1" \in Names /\ "8125cp_1" \in Names
  /\ "8125d_1" \in Names /\ "8125d_2" \in Names /\ "8126a_1" \in Names
  /\ "8126a_2" \in Names /\ "8126a_3" \in Names /\ "8125bp_1_2" \in Names
  /\ "8125d_1_2" \in Names /\ "8125d_1_3" \in Names /\ "8125d_2_2" \in Names
  /\ "8126a_1_2" \in Names /\ "8126a_1_3" \in Names
  /\ "8126a_2_1" \in Names /\ "8126a_2_3" \in Names
  /\ "0021" \in Names /\ "0024" \in Names /\ "0031" \in Names
  /\ "0013" \in Names /\ "0023" \in Names /\ "0027" \in Names
BY DEF Names

(* The images of the source, each with its units, its data and its         *)
(* version.                                                                *)
LEMMA Image8125a_1Is ==
  Image(Image8125a_1, "8125a_1",
        {"nc0", "nc1", "nc2", "uc"}, {}, {})
<1> DEFINE body == AcquirePhyMcuPatchKeyLock \o PatchModeBit(TRUE)
                     \o Nc0_8125a_1 \o Nc1_8125a_1 \o Nc2_8125a_1
                     \o Uc_8125a_1
<1>1. Body(Nc0_8125a_1, "8125a_1", {"nc0"}, {})
  BY SectionIs, NamesAre DEF Nc0_8125a_1, Units, Hooks
<1>2. Body(Nc1_8125a_1, "8125a_1", {"nc1"}, {})
  BY SectionIs, NamesAre DEF Nc1_8125a_1, Units, Hooks
<1>3. Body(Nc2_8125a_1, "8125a_1", {"nc2"}, {})
  BY SectionIs, NamesAre DEF Nc2_8125a_1, Units, Hooks
<1>4. Body(Uc_8125a_1, "8125a_1", {"uc"}, {})
  BY SectionIs, NamesAre DEF Uc_8125a_1, Units, Hooks
<1>5. Body(body, "8125a_1",
          {"nc0"} \cup {"nc1"} \cup {"nc2"} \cup {"uc"}, {})
  BY <1>1, <1>2, <1>3, <1>4, OpenIs, BodyGrows
<1>6. {"nc0"} \cup {"nc1"} \cup {"nc2"} \cup {"uc"}
        = {"nc0", "nc1", "nc2", "uc"}
  OBVIOUS
<1>7. Body(body, "8125a_1", {"nc0", "nc1", "nc2", "uc"}, {})
  BY <1>5, <1>6
<1> QED BY <1>7, ShutIs, NamesAre DEF Image8125a_1

(* The second image of 8125a, *)
LEMMA Image8125a_2Is ==
  Image(Image8125a_2, "8125a_2",
        {"nc0", "nc1", "nc2", "uc"}, {}, {})
<1> DEFINE body == AcquirePhyMcuPatchKeyLock \o PatchModeBit(TRUE)
                     \o Nc0_8125a_2 \o Nc1_8125a_2 \o Nc2_8125a_2
                     \o Uc_8125a_2
<1>1. Body(Nc0_8125a_2, "8125a_2", {"nc0"}, {})
  BY SectionIs, NamesAre DEF Nc0_8125a_2, Units, Hooks
<1>2. Body(Nc1_8125a_2, "8125a_2", {"nc1"}, {})
  BY SectionIs, NamesAre DEF Nc1_8125a_2, Units, Hooks
<1>3. Body(Nc2_8125a_2, "8125a_2", {"nc2"}, {})
  BY SectionIs, NamesAre DEF Nc2_8125a_2, Units, Hooks
<1>4. Body(Uc_8125a_2, "8125a_2", {"uc"}, {})
  BY SectionIs, NamesAre DEF Uc_8125a_2, Units, Hooks
<1>5. Body(body, "8125a_2",
          {"nc0"} \cup {"nc1"} \cup {"nc2"} \cup {"uc"}, {})
  BY <1>1, <1>2, <1>3, <1>4, OpenIs, BodyGrows
<1>6. {"nc0"} \cup {"nc1"} \cup {"nc2"} \cup {"uc"}
        = {"nc0", "nc1", "nc2", "uc"}
  OBVIOUS
<1>7. Body(body, "8125a_2", {"nc0", "nc1", "nc2", "uc"}, {})
  BY <1>5, <1>6
<1> QED BY <1>7, ShutIs, NamesAre DEF Image8125a_2

(* the first of 8125b, which writes its version itself, *)
LEMMA Image8125b_1Is ==
  Image(Image8125b_1, "8125b_1",
        {"nc0", "nc2", "uc", "uc2"}, {}, {"0021"})
<1> DEFINE body == OpenImage \o Nc0_8125b_1 \o Nc2_8125b_1 \o Uc_8125b_1
                     \o LeavePatchMode \o Uc2_8125b_1
<1>1. Body(Nc0_8125b_1, "8125b_1", {"nc0"}, {})
  BY SectionIs, NamesAre DEF Nc0_8125b_1, Units, Hooks
<1>2. Body(Nc2_8125b_1, "8125b_1", {"nc2"}, {})
  BY SectionIs, NamesAre DEF Nc2_8125b_1, Units, Hooks
<1>3. Body(Uc_8125b_1, "8125b_1", {"uc"}, {})
  BY SectionIs, NamesAre DEF Uc_8125b_1, Units, Hooks
<1>4. Body(Uc2_8125b_1, "8125b_1", {"uc2"}, {})
  BY SectionIs, NamesAre DEF Uc2_8125b_1, Units, Hooks
<1>5. Body(body, "8125b_1",
          {"nc0"} \cup {"nc2"} \cup {"uc"} \cup {"uc2"}, {})
  BY <1>1, <1>2, <1>3, <1>4, OpenIs, BodyGrows
<1>6. {"nc0"} \cup {"nc2"} \cup {"uc"} \cup {"uc2"}
        = {"nc0", "nc2", "uc", "uc2"}
  OBVIOUS
<1>7. Body(body, "8125b_1", {"nc0", "nc2", "uc", "uc2"}, {})
  BY <1>5, <1>6
<1> QED BY <1>7, ShutIs, NamesAre DEF Image8125b_1

(* the second, with data, *)
LEMMA Image8125b_2Is ==
  Image(Image8125b_2, "8125b_2",
        {"nc0", "nc1", "nc2", "uc", "uc2"}, {"8125b_2"}, {"0024"})
<1> DEFINE body == OpenImage \o Nc0_8125b_2 \o Nc1_8125b_2 \o Nc2_8125b_2
                     \o Uc_8125b_2 \o LeavePatchMode \o Uc2_8125b_2
                     \o Data("8125b_2")
<1>1. Body(Nc0_8125b_2, "8125b_2", {"nc0"}, {})
  BY SectionIs, NamesAre DEF Nc0_8125b_2, Units, Hooks
<1>2. Body(Nc1_8125b_2, "8125b_2", {"nc1"}, {})
  BY SectionIs, NamesAre DEF Nc1_8125b_2, Units, Hooks
<1>3. Body(Nc2_8125b_2, "8125b_2", {"nc2"}, {})
  BY SectionIs, NamesAre DEF Nc2_8125b_2, Units, Hooks
<1>4. Body(Uc_8125b_2, "8125b_2", {"uc"}, {})
  BY SectionIs, NamesAre DEF Uc_8125b_2, Units, Hooks
<1>5. Body(Uc2_8125b_2, "8125b_2", {"uc2"}, {})
  BY SectionIs, NamesAre DEF Uc2_8125b_2, Units, Hooks
<1>6. Body(body, "8125b_2",
          {"nc0"} \cup {"nc1"} \cup {"nc2"} \cup {"uc"} \cup {"uc2"}, {"8125b_2"})
  BY <1>1, <1>2, <1>3, <1>4, <1>5, OpenIs, DataIs, NamesAre, BodyGrows
<1>7. {"nc0"} \cup {"nc1"} \cup {"nc2"} \cup {"uc"} \cup {"uc2"}
        = {"nc0", "nc1", "nc2", "uc", "uc2"}
  OBVIOUS
<1>8. Body(body, "8125b_2", {"nc0", "nc1", "nc2", "uc", "uc2"}, {"8125b_2"})
  BY <1>6, <1>7
<1> QED BY <1>8, ShutIs, NamesAre DEF Image8125b_2

(* 8125bp, *)
LEMMA Image8125bp_1_1Is ==
  Image(Image8125bp_1_1, "8125bp_1",
        {"nc0", "nc2"}, {}, {})
<1> DEFINE body == OpenImage \o Nc0_8125bp_1 \o Nc2_8125bp_1
                     \o LeavePatchMode
<1>1. Body(Nc0_8125bp_1, "8125bp_1", {"nc0"}, {})
  BY SectionIs, NamesAre DEF Nc0_8125bp_1, Units, Hooks
<1>2. Body(Nc2_8125bp_1, "8125bp_1", {"nc2"}, {})
  BY SectionIs, NamesAre DEF Nc2_8125bp_1, Units, Hooks
<1>3. Body(body, "8125bp_1",
          {"nc0"} \cup {"nc2"}, {})
  BY <1>1, <1>2, OpenIs, BodyGrows
<1>4. {"nc0"} \cup {"nc2"}
        = {"nc0", "nc2"}
  OBVIOUS
<1>5. Body(body, "8125bp_1", {"nc0", "nc2"}, {})
  BY <1>3, <1>4
<1> QED BY <1>5, ShutIs, NamesAre DEF Image8125bp_1_1

(* 8125cp, *)
LEMMA Image8125cp_1Is ==
  Image(Image8125cp_1, "8125cp_1",
        {"nc0x", "nc2", "uc"}, {}, {})
<1> DEFINE body == OpenImage \o Nc0x_8125cp_1 \o Nc2_8125cp_1 \o Uc_8125cp_1
                     \o LeavePatchMode
<1>1. Body(Nc0x_8125cp_1, "8125cp_1", {"nc0x"}, {})
  BY SectionIs, NamesAre DEF Nc0x_8125cp_1, Units, Hooks
<1>2. Body(Nc2_8125cp_1, "8125cp_1", {"nc2"}, {})
  BY SectionIs, NamesAre DEF Nc2_8125cp_1, Units, Hooks
<1>3. Body(Uc_8125cp_1, "8125cp_1", {"uc"}, {})
  BY SectionIs, NamesAre DEF Uc_8125cp_1, Units, Hooks
<1>4. Body(body, "8125cp_1",
          {"nc0x"} \cup {"nc2"} \cup {"uc"}, {})
  BY <1>1, <1>2, <1>3, OpenIs, BodyGrows
<1>5. {"nc0x"} \cup {"nc2"} \cup {"uc"}
        = {"nc0x", "nc2", "uc"}
  OBVIOUS
<1>6. Body(body, "8125cp_1", {"nc0x", "nc2", "uc"}, {})
  BY <1>4, <1>5
<1> QED BY <1>6, ShutIs, NamesAre DEF Image8125cp_1

(* the first of 8125d, *)
LEMMA Image8125d_1_1Is ==
  Image(Image8125d_1_1, "8125d_1",
        {"nc0", "nc0x", "nc1", "nc2x", "nc2", "uc", "uc2"}, {}, {"0031"})
<1> DEFINE body == OpenImage \o Nc0_8125d_1 \o Nc0x_8125d_1 \o Nc1_8125d_1
                     \o Nc2x_8125d_1 \o Nc2_8125d_1 \o Uc_8125d_1
                     \o LeavePatchMode \o Uc2_8125d_1
<1>1. Body(Nc0_8125d_1, "8125d_1", {"nc0"}, {})
  BY SectionIs, NamesAre DEF Nc0_8125d_1, Units, Hooks
<1>2. Body(Nc0x_8125d_1, "8125d_1", {"nc0x"}, {})
  BY SectionIs, NamesAre DEF Nc0x_8125d_1, Units, Hooks
<1>3. Body(Nc1_8125d_1, "8125d_1", {"nc1"}, {})
  BY SectionIs, NamesAre DEF Nc1_8125d_1, Units, Hooks
<1>4. Body(Nc2x_8125d_1, "8125d_1", {"nc2x"}, {})
  BY SectionIs, NamesAre DEF Nc2x_8125d_1, Units, Hooks
<1>5. Body(Nc2_8125d_1, "8125d_1", {"nc2"}, {})
  BY SectionIs, NamesAre DEF Nc2_8125d_1, Units, Hooks
<1>6. Body(Uc_8125d_1, "8125d_1", {"uc"}, {})
  BY SectionIs, NamesAre DEF Uc_8125d_1, Units, Hooks
<1>7. Body(Uc2_8125d_1, "8125d_1", {"uc2"}, {})
  BY SectionIs, NamesAre DEF Uc2_8125d_1, Units, Hooks
<1>8. Body(body, "8125d_1",
          {"nc0"} \cup {"nc0x"} \cup {"nc1"} \cup {"nc2x"}
                \cup {"nc2"} \cup {"uc"} \cup {"uc2"}, {})
  BY <1>1, <1>2, <1>3, <1>4, <1>5, <1>6, <1>7, OpenIs, BodyGrows
<1>9. {"nc0"} \cup {"nc0x"} \cup {"nc1"} \cup {"nc2x"}
                \cup {"nc2"} \cup {"uc"} \cup {"uc2"}
        = {"nc0", "nc0x", "nc1", "nc2x", "nc2", "uc", "uc2"}
  OBVIOUS
<1>10. Body(body, "8125d_1", {"nc0", "nc0x", "nc1", "nc2x", "nc2", "uc", "uc2"}, {})
  BY <1>8, <1>9
<1> QED BY <1>10, ShutIs, NamesAre DEF Image8125d_1_1

(* the second of 8125d, *)
LEMMA Image8125d_2_1Is ==
  Image(Image8125d_2_1, "8125d_2",
        {"nc0", "nc0x", "nc1", "nc2", "nc2x", "uc"}, {}, {"0013"})
<1> DEFINE body == OpenImage \o Nc0_8125d_2 \o Nc0x_8125d_2 \o Nc1_8125d_2
                     \o Nc2_8125d_2 \o Nc2x_8125d_2 \o Uc_8125d_2
                     \o LeavePatchMode
<1>1. Body(Nc0_8125d_2, "8125d_2", {"nc0"}, {})
  BY SectionIs, NamesAre DEF Nc0_8125d_2, Units, Hooks
<1>2. Body(Nc0x_8125d_2, "8125d_2", {"nc0x"}, {})
  BY SectionIs, NamesAre DEF Nc0x_8125d_2, Units, Hooks
<1>3. Body(Nc1_8125d_2, "8125d_2", {"nc1"}, {})
  BY SectionIs, NamesAre DEF Nc1_8125d_2, Units, Hooks
<1>4. Body(Nc2_8125d_2, "8125d_2", {"nc2"}, {})
  BY SectionIs, NamesAre DEF Nc2_8125d_2, Units, Hooks
<1>5. Body(Nc2x_8125d_2, "8125d_2", {"nc2x"}, {})
  BY SectionIs, NamesAre DEF Nc2x_8125d_2, Units, Hooks
<1>6. Body(Uc_8125d_2, "8125d_2", {"uc"}, {})
  BY SectionIs, NamesAre DEF Uc_8125d_2, Units, Hooks
<1>7. Body(body, "8125d_2",
          {"nc0"} \cup {"nc0x"} \cup {"nc1"} \cup {"nc2"}
                \cup {"nc2x"} \cup {"uc"}, {})
  BY <1>1, <1>2, <1>3, <1>4, <1>5, <1>6, OpenIs, BodyGrows
<1>8. {"nc0"} \cup {"nc0x"} \cup {"nc1"} \cup {"nc2"}
                \cup {"nc2x"} \cup {"uc"}
        = {"nc0", "nc0x", "nc1", "nc2", "nc2x", "uc"}
  OBVIOUS
<1>9. Body(body, "8125d_2", {"nc0", "nc0x", "nc1", "nc2", "nc2x", "uc"}, {})
  BY <1>7, <1>8
<1> QED BY <1>9, ShutIs, NamesAre DEF Image8125d_2_1

(* and 8126a: the first writes the version of method 31 itself, *)
LEMMA Image8126a_1_1Is ==
  Image(Image8126a_1_1, "8126a_1",
        {"nc0", "nc0x", "nc2", "uc", "uc2"}, {}, {"0023"})
<1> DEFINE body == OpenImage \o Nc0_8126a_1 \o Nc0x_8126a_1 \o Nc2_8126a_1
                     \o Uc_8126a_1 \o LeavePatchMode \o Uc2_8126a_1
<1>1. Body(Nc0_8126a_1, "8126a_1", {"nc0"}, {})
  BY SectionIs, NamesAre DEF Nc0_8126a_1, Units, Hooks
<1>2. Body(Nc0x_8126a_1, "8126a_1", {"nc0x"}, {})
  BY SectionIs, NamesAre DEF Nc0x_8126a_1, Units, Hooks
<1>3. Body(Nc2_8126a_1, "8126a_1", {"nc2"}, {})
  BY SectionIs, NamesAre DEF Nc2_8126a_1, Units, Hooks
<1>4. Body(Uc_8126a_1, "8126a_1", {"uc"}, {})
  BY SectionIs, NamesAre DEF Uc_8126a_1, Units, Hooks
<1>5. Body(Uc2_8126a_1, "8126a_1", {"uc2"}, {})
  BY SectionIs, NamesAre DEF Uc2_8126a_1, Units, Hooks
<1>6. Body(body, "8126a_1",
          {"nc0"} \cup {"nc0x"} \cup {"nc2"} \cup {"uc"} \cup {"uc2"}, {})
  BY <1>1, <1>2, <1>3, <1>4, <1>5, OpenIs, BodyGrows
<1>7. {"nc0"} \cup {"nc0x"} \cup {"nc2"} \cup {"uc"} \cup {"uc2"}
        = {"nc0", "nc0x", "nc2", "uc", "uc2"}
  OBVIOUS
<1>8. Body(body, "8126a_1", {"nc0", "nc0x", "nc2", "uc", "uc2"}, {})
  BY <1>6, <1>7
<1> QED BY <1>8, ShutIs, NamesAre DEF Image8126a_1_1

(* the second has data, *)
LEMMA Image8126a_2_1Is ==
  Image(Image8126a_2_1, "8126a_2",
        {"nc0", "nc1", "nc2", "nc2x", "uc", "uc2"}, {"8126a_2_1"}, {"0027"})
<1> DEFINE body == OpenImage \o Nc0_8126a_2 \o Nc1_8126a_2 \o Nc2_8126a_2
                     \o Nc2x_8126a_2 \o Uc_8126a_2 \o LeavePatchMode
                     \o Uc2_8126a_2 \o Data_8126a_2
<1>1. Body(Nc0_8126a_2, "8126a_2", {"nc0"}, {})
  BY SectionIs, NamesAre DEF Nc0_8126a_2, Units, Hooks
<1>2. Body(Nc1_8126a_2, "8126a_2", {"nc1"}, {})
  BY SectionIs, NamesAre DEF Nc1_8126a_2, Units, Hooks
<1>3. Body(Nc2_8126a_2, "8126a_2", {"nc2"}, {})
  BY SectionIs, NamesAre DEF Nc2_8126a_2, Units, Hooks
<1>4. Body(Nc2x_8126a_2, "8126a_2", {"nc2x"}, {})
  BY SectionIs, NamesAre DEF Nc2x_8126a_2, Units, Hooks
<1>5. Body(Uc_8126a_2, "8126a_2", {"uc"}, {})
  BY SectionIs, NamesAre DEF Uc_8126a_2, Units, Hooks
<1>6. Body(Uc2_8126a_2, "8126a_2", {"uc2"}, {})
  BY SectionIs, NamesAre DEF Uc2_8126a_2, Units, Hooks
<1>7. Body(body, "8126a_2",
          {"nc0"} \cup {"nc1"} \cup {"nc2"} \cup {"nc2x"}
                \cup {"uc"} \cup {"uc2"}, {"8126a_2_1"})
  BY <1>1, <1>2, <1>3, <1>4, <1>5, <1>6, OpenIs, DataIs, NamesAre, BodyGrows
     DEF Data_8126a_2
<1>8. {"nc0"} \cup {"nc1"} \cup {"nc2"} \cup {"nc2x"}
                \cup {"uc"} \cup {"uc2"}
        = {"nc0", "nc1", "nc2", "nc2x", "uc", "uc2"}
  OBVIOUS
<1>9. Body(body, "8126a_2", {"nc0", "nc1", "nc2", "nc2x", "uc", "uc2"}, {"8126a_2_1"})
  BY <1>7, <1>8
<1> QED BY <1>9, ShutIs, NamesAre DEF Image8126a_2_1

(* and the third is what all of them end with. *)
LEMMA Image8126a_3_1Is ==
  Image(Image8126a_3_1, "8126a_3",
        {"nc0", "nc0x", "nc2", "nc2x", "uc", "uc2"}, {}, {})
<1> DEFINE body == OpenImage \o Nc0_8126a_3 \o Nc0x_8126a_3 \o Nc2_8126a_3
                     \o Nc2x_8126a_3 \o Uc_8126a_3 \o LeavePatchMode
                     \o Uc2_8126a_3
<1>1. Body(Nc0_8126a_3, "8126a_3", {"nc0"}, {})
  BY SectionIs, NamesAre DEF Nc0_8126a_3, Units, Hooks
<1>2. Body(Nc0x_8126a_3, "8126a_3", {"nc0x"}, {})
  BY SectionIs, NamesAre DEF Nc0x_8126a_3, Units, Hooks
<1>3. Body(Nc2_8126a_3, "8126a_3", {"nc2"}, {})
  BY SectionIs, NamesAre DEF Nc2_8126a_3, Units, Hooks
<1>4. Body(Nc2x_8126a_3, "8126a_3", {"nc2x"}, {})
  BY SectionIs, NamesAre DEF Nc2x_8126a_3, Units, Hooks
<1>5. Body(Uc_8126a_3, "8126a_3", {"uc"}, {})
  BY SectionIs, NamesAre DEF Uc_8126a_3, Units, Hooks
<1>6. Body(Uc2_8126a_3, "8126a_3", {"uc2"}, {})
  BY SectionIs, NamesAre DEF Uc2_8126a_3, Units, Hooks
<1>7. Body(body, "8126a_3",
          {"nc0"} \cup {"nc0x"} \cup {"nc2"} \cup {"nc2x"}
                \cup {"uc"} \cup {"uc2"}, {})
  BY <1>1, <1>2, <1>3, <1>4, <1>5, <1>6, OpenIs, BodyGrows
<1>8. {"nc0"} \cup {"nc0x"} \cup {"nc2"} \cup {"nc2x"}
                \cup {"uc"} \cup {"uc2"}
        = {"nc0", "nc0x", "nc2", "nc2x", "uc", "uc2"}
  OBVIOUS
<1>9. Body(body, "8126a_3", {"nc0", "nc0x", "nc2", "nc2x", "uc", "uc2"}, {})
  BY <1>7, <1>8
<1> QED BY <1>9, ShutIs, NamesAre DEF Image8126a_3_1

(* When the script has run, a unit that it wrote has the code of i, or     *)
(* that of another image that E excuses.                                   *)
Leaves(s, i, E) ==
  \A k \in 1 .. Len(s) :
    s[k].op = "code" =>
      \/ s[k].image = i
      \/ << s[k].unit, s[k].image >> \in E
      \/ \E j \in k+1 .. Len(s) : s[j].op = "code" /\ s[j].unit = s[k].unit

(* Fewer units are ready too. *)
LEMMA ReadyFewer ==
  ASSUME NEW s, NEW U, NEW C, Ready(s, U), C \subseteq U
  PROVE  Ready(s, C)
BY DEF Ready

(* One image leaves itself, *)
LEMMA LeavesOne ==
  ASSUME NEW s, NEW i, OfImage(s, i)
  PROVE  \A E : Leaves(s, i, E)
BY DEF Leaves, OfImage

(* a second one replaces a first where it has code for the same units, *)
LEMMA LeavesReplaced ==
  ASSUME NEW s \in Seq(Ops), NEW t \in Seq(Ops), NEW i, NEW E,
         NEW U, NEW D, NEW V, NEW i2, NEW U2, NEW D2, NEW V2,
         Content(s, U2, D2, V2), OfImage(s, i2),
         Content(t, U, D, V), Leaves(t, i, E),
         \A u \in U2 : u \in U \/ << u, i2 >> \in E
  PROVE  Leaves(s \o t, i, E)
<1> DEFINE r == s \o t
<1>1. /\ Len(s) \in Nat /\ Len(t) \in Nat
      /\ Len(r) = Len(s) + Len(t)
      /\ \A k \in 1 .. Len(s) : r[k] = s[k]
      /\ \A j \in 1 .. Len(t) : r[Len(s) + j] = t[j]
      /\ \A k \in 1 .. Len(r) :
              \/ k \in 1 .. Len(s)
              \/ \E j \in 1 .. Len(t) : k = Len(s) + j
  BY ConcatParts
<1> HIDE DEF r
<1>2. SUFFICES ASSUME NEW k \in 1 .. Len(r), r[k].op = "code", r[k].image # i,
                      << r[k].unit, r[k].image >> \notin E
               PROVE  \E j \in k+1 .. Len(r) :
                        r[j].op = "code" /\ r[j].unit = r[k].unit
  BY DEF Leaves, r
<1>3. CASE k \in 1 .. Len(s)
  <2>1. r[k].unit \in U2 /\ r[k].image = i2
    BY <1>1, <1>2, <1>3 DEF Content, OfImage
  <2>2. PICK j \in 1 .. Len(t) : t[j].op = "code" /\ t[j].unit = r[k].unit
    BY <1>2, <2>1 DEF Content
  <2>3. Len(s) + j \in k+1 .. Len(r)
    BY <1>1, <1>3
  <2> QED BY <1>1, <2>2, <2>3
<1>4. CASE \E l \in 1 .. Len(t) : k = Len(s) + l
  <2>1. PICK l \in 1 .. Len(t) : k = Len(s) + l
    BY <1>4
  <2>2. r[k] = t[l]
    BY <1>1, <2>1
  <2>3. PICK j \in l+1 .. Len(t) : t[j].op = "code" /\ t[j].unit = t[l].unit
    BY <1>2, <2>2 DEF Leaves
  <2>4. j \in 1 .. Len(t) /\ Len(s) + j \in k+1 .. Len(r)
    BY <1>1, <2>1
  <2> QED BY <1>1, <2>2, <2>3, <2>4
<1> QED BY <1>1, <1>3, <1>4

(* and data replaces nothing. *)
LEMMA LeavesKept ==
  ASSUME NEW s \in Seq(Ops), NEW t \in Seq(Ops), NEW i, NEW E,
         NEW D, NEW V, Leaves(s, i, E), Content(t, {}, D, V)
  PROVE  Leaves(s \o t, i, E)
<1> DEFINE r == s \o t
<1>1. /\ Len(s) \in Nat /\ Len(t) \in Nat
      /\ Len(r) = Len(s) + Len(t)
      /\ \A k \in 1 .. Len(s) : r[k] = s[k]
      /\ \A j \in 1 .. Len(t) : r[Len(s) + j] = t[j]
      /\ \A k \in 1 .. Len(r) :
              \/ k \in 1 .. Len(s)
              \/ \E j \in 1 .. Len(t) : k = Len(s) + j
  BY ConcatParts
<1> HIDE DEF r
<1>2. SUFFICES ASSUME NEW k \in 1 .. Len(r), r[k].op = "code", r[k].image # i,
                      << r[k].unit, r[k].image >> \notin E
               PROVE  \E j \in k+1 .. Len(r) :
                        r[j].op = "code" /\ r[j].unit = r[k].unit
  BY DEF Leaves, r
<1>3. k \in 1 .. Len(s)
  <2>1. ASSUME NEW j \in 1 .. Len(t), k = Len(s) + j
        PROVE  FALSE
    <3>1. t[j].op = "code"
      BY <1>1, <1>2, <2>1
    <3> QED BY <3>1 DEF Content
  <2> QED BY <1>1, <2>1
<1>4. PICK j \in k+1 .. Len(s) : s[j].op = "code" /\ s[j].unit = s[k].unit
  BY <1>1, <1>2, <1>3 DEF Leaves
<1>5. j \in 1 .. Len(s) /\ j \in k+1 .. Len(r)
  BY <1>1, <1>3
<1> QED BY <1>1, <1>3, <1>4, <1>5

(* Method 9 has a script without any operation. *)
LEMMA EmptyIs ==
  /\ << >> \in Seq(Ops)
  /\ Block(<< >>, {}, {}, {})
  /\ \A A : Without(<< >>, A) /\ Ready(<< >>, A)
  /\ \A i, E : Leaves(<< >>, i, E)
<1> HIDE DEF Ops
<1> DEFINE s == << >>
<1>1. s \in Seq(Ops) /\ Len(s) = 0
  OBVIOUS
<1>2. \A k \in 1 .. Len(s) : FALSE
  BY <1>1
<1> HIDE DEF s
<1>3. Block(s, {}, {}, {})
  BY <1>1, <1>2 DEF Block, Whole, AllHeld, Content, Settles
<1>4. \A A : Without(s, A) /\ Ready(s, A)
  BY <1>2 DEF Without, Ready
<1>5. \A i, E : Leaves(s, i, E)
  BY <1>2 DEF Leaves
<1> QED BY <1>1, <1>3, <1>4, <1>5 DEF s

(* The units that not every image of methods 31 and 32 has code for, and   *)
(* the one that keeps the code of an earlier image.                        *)
Excused(m) == IF m \in {31, 32} THEN {"nc0x", "nc1", "nc2x"} ELSE {}
Stays(m)   == IF m \in {31, 32} THEN {<< "nc1", "8126a_2" >>} ELSE {}

(* What loading the code of method m amounts to. *)
Load(m, s, U, D, V) ==
  /\ Block(s, U, D, V)
  /\ Ready(s, U \ Excused(m))
  /\ Leaves(s, Revision(m), Stays(m))
  /\ m # 31 => SwRamCodeVer(m) \notin V

(* A method with one image, *)
LEMMA OnePatch ==
  ASSUME NEW s, NEW i, NEW U, NEW D, NEW V, Image(s, i, U, D, V)
  PROVE  /\ Block(Patched(s), U, D, V)
         /\ \A C : C \subseteq U => Ready(Patched(s), C)
         /\ OfImage(Patched(s), i)
         /\ \A E : Leaves(Patched(s), i, E)
BY PatchedIs, ReadyFewer, LeavesOne DEF Image, Settled

(* one whose image is followed by data, *)
LEMMA NextPatch ==
  ASSUME NEW s, NEW t, NEW i, NEW E, NEW U, NEW D, NEW V, NEW D2,
         Block(s, U, D, V), Block(t, {}, D2, {}), Leaves(s, i, E)
  PROVE  /\ Block(s \o t, U, D \cup D2, V)
         /\ \A C : C \subseteq U /\ Ready(s, C) => Ready(s \o t, C)
         /\ Leaves(s \o t, i, E)
<1>1. s \in Seq(Ops) /\ t \in Seq(Ops) /\ Whole(s) /\ Content(s, U, D, V)
      /\ Content(t, {}, D2, {})
  BY DEF Block
<1>2. Block(s \o t, U \cup {}, D \cup D2, V \cup {})
  BY BlockConcat
<1>3. U \cup {} = U /\ V \cup {} = V
  OBVIOUS
<1> QED BY <1>1, <1>2, <1>3, ReadyAfter, LeavesKept

(* the methods with one image, *)
LEMMA LoadsOfOne ==
  /\ \E U, D, V : Load(2, SetPhyMcu8125a_1, U, D, V)
  /\ \A m \in {3, 6} : \E U, D, V : Load(m, SetPhyMcu8125a_2, U, D, V)
  /\ \E U, D, V : Load(4, SetPhyMcu8125b_1, U, D, V)
  /\ \A m \in {5, 7} : \E U, D, V : Load(m, SetPhyMcu8125b_2, U, D, V)
  /\ \E U, D, V : Load(9, << >>, U, D, V)
  /\ \E U, D, V : Load(12, SetPhyMcu8125cp_1, U, D, V)
  /\ \E U, D, V : Load(33, SetPhyMcu8126a_3, U, D, V)
<1>1. \A m \in {2, 3, 4, 5, 6, 7, 9, 12, 33} : Excused(m) = {}
  BY DEF Excused
<1>2. /\ Revision(2) = "8125a_1"
      /\ Revision(3) = "8125a_2" /\ Revision(6) = "8125a_2"
      /\ Revision(4) = "8125b_1" /\ SwRamCodeVer(4) = "0b17"
      /\ Revision(5) = "8125b_2" /\ SwRamCodeVer(5) = "0b99"
      /\ Revision(7) = "8125b_2" /\ SwRamCodeVer(7) = "0b99"
      /\ Revision(12) = "8125cp_1"
      /\ Revision(33) = "8126a_3"
  BY DEF Revision, SwRamCodeVer
<1>3. \A A : A \ {} = A
  OBVIOUS
<1>4. \E U, D, V : Load(2, SetPhyMcu8125a_1, U, D, V)
  BY <1>1, <1>2, <1>3, Image8125a_1Is, OnePatch DEF Load, SetPhyMcu8125a_1
<1>5. \A m \in {3, 6} : \E U, D, V : Load(m, SetPhyMcu8125a_2, U, D, V)
  BY <1>1, <1>2, <1>3, Image8125a_2Is, OnePatch DEF Load, SetPhyMcu8125a_2
<1>6. \E U, D, V : Load(4, SetPhyMcu8125b_1, U, D, V)
  BY <1>1, <1>2, <1>3, Image8125b_1Is, OnePatch DEF Load, SetPhyMcu8125b_1
<1>7. \A m \in {5, 7} : \E U, D, V : Load(m, SetPhyMcu8125b_2, U, D, V)
  BY <1>1, <1>2, <1>3, Image8125b_2Is, OnePatch DEF Load, SetPhyMcu8125b_2
<1>8. \E U, D, V : Load(9, << >>, U, D, V)
  BY <1>1, <1>2, <1>3, EmptyIs DEF Load
<1>9. \E U, D, V : Load(12, SetPhyMcu8125cp_1, U, D, V)
  BY <1>1, <1>2, <1>3, Image8125cp_1Is, OnePatch DEF Load, SetPhyMcu8125cp_1
<1>10. \E U, D, V : Load(33, SetPhyMcu8126a_3, U, D, V)
  BY <1>1, <1>2, <1>3, Image8126a_3_1Is, OnePatch DEF Load, SetPhyMcu8126a_3
<1> QED BY <1>4, <1>5, <1>6, <1>7, <1>8, <1>9, <1>10

(* the data of the others, *)
LEMMA DataPatches ==
  \A d \in Names :
    /\ Block(Patched(Data(d)), {}, {d}, {})
    /\ Block(Patched(Data(d) \o B820(FALSE, FALSE)), {}, {d}, {})
    /\ \A i : OfImage(Patched(Data(d)), i)
BY DataImages, OnePatch

(* the methods with an image and data, *)
LEMMA LoadsOfMore ==
  /\ \E U, D, V : Load(8, SetPhyMcu8125bp_1, U, D, V)
  /\ \E U, D, V : Load(10, SetPhyMcu8125d_1, U, D, V)
  /\ \A m \in {11, 13} : \E U, D, V : Load(m, SetPhyMcu8125d_2, U, D, V)
<1>1. \A m \in {8, 10, 11, 13} : Excused(m) = {}
  BY DEF Excused
<1>2. /\ Revision(8) = "8125bp_1" /\ Revision(10) = "8125d_1"
      /\ Revision(11) = "8125d_2" /\ Revision(13) = "8125d_2"
      /\ SwRamCodeVer(10) = "0027"
      /\ SwRamCodeVer(11) = "0031" /\ SwRamCodeVer(13) = "0031"
  BY DEF Revision, SwRamCodeVer
<1>3. \A A : A \ {} = A /\ A \cup {} = A
  OBVIOUS
<1>4. /\ Block(Patched(Image8125bp_1_2), {}, {"8125bp_1_2"}, {})
      /\ Block(Patched(Image8125d_1_2), {}, {"8125d_1_2"}, {})
      /\ Block(Patched(Image8125d_1_3), {}, {"8125d_1_3"}, {})
      /\ Block(Patched(Image8125d_2_2), {}, {"8125d_2_2"}, {})
  BY DataPatches, NamesAre
     DEF Image8125bp_1_2, Image8125d_1_2, Image8125d_1_3, Image8125d_2_2
<1>5. \E U, D, V : Load(8, SetPhyMcu8125bp_1, U, D, V)
  <2> DEFINE s1 == Patched(Image8125bp_1_1)
  <2>1. /\ Block(s1, {"nc0", "nc2"}, {}, {})
        /\ Ready(s1, {"nc0", "nc2"}) /\ Leaves(s1, "8125bp_1", {})
    BY Image8125bp_1_1Is, OnePatch
  <2> DEFINE s2 == s1 \o Patched(Image8125bp_1_2)
  <2>2. /\ Block(s2, {"nc0", "nc2"}, {} \cup {"8125bp_1_2"}, {})
        /\ Ready(s2, {"nc0", "nc2"}) /\ Leaves(s2, "8125bp_1", {})
    BY <1>4, <2>1, NextPatch
  <2>3. SetPhyMcu8125bp_1 = s2
    BY DEF SetPhyMcu8125bp_1
  <2> HIDE DEF s2
  <2>4. Load(8, s2, {"nc0", "nc2"}, {} \cup {"8125bp_1_2"}, {})
    <3>1. SwRamCodeVer(8) \notin {}
      BY <1>2
    <3>2. Excused(8) = {} /\ Stays(8) = {} /\ Revision(8) = "8125bp_1"
      BY <1>1, <1>2 DEF Stays
    <3> QED BY <1>3, <2>2, <3>1, <3>2 DEF Load
  <2> QED BY <2>3, <2>4
<1>6. \E U, D, V : Load(10, SetPhyMcu8125d_1, U, D, V)
  <2> DEFINE s1 == Patched(Image8125d_1_1)
  <2>1. /\ Block(s1, {"nc0", "nc0x", "nc1", "nc2x", "nc2", "uc", "uc2"}, {}, {"0031"})
        /\ Ready(s1, {"nc0", "nc0x", "nc1", "nc2x", "nc2", "uc", "uc2"})
        /\ Leaves(s1, "8125d_1", {})
    BY Image8125d_1_1Is, OnePatch
  <2> DEFINE s2 == s1 \o Patched(Image8125d_1_2)
  <2>2. /\ Block(s2, {"nc0", "nc0x", "nc1", "nc2x", "nc2", "uc", "uc2"},
                 {} \cup {"8125d_1_2"}, {"0031"})
        /\ Ready(s2, {"nc0", "nc0x", "nc1", "nc2x", "nc2", "uc", "uc2"})
        /\ Leaves(s2, "8125d_1", {})
    BY <1>4, <2>1, NextPatch
  <2> DEFINE s3 == s2 \o Patched(Image8125d_1_3)
  <2>3. /\ Block(s3, {"nc0", "nc0x", "nc1", "nc2x", "nc2", "uc", "uc2"},
                 {} \cup {"8125d_1_2"} \cup {"8125d_1_3"}, {"0031"})
        /\ Ready(s3, {"nc0", "nc0x", "nc1", "nc2x", "nc2", "uc", "uc2"})
        /\ Leaves(s3, "8125d_1", {})
    BY <1>4, <2>2, NextPatch
  <2>4. SetPhyMcu8125d_1 = s3
    BY DEF SetPhyMcu8125d_1
  <2> HIDE DEF s3
  <2>5. Load(10, s3, {"nc0", "nc0x", "nc1", "nc2x", "nc2", "uc", "uc2"},
             {} \cup {"8125d_1_2"} \cup {"8125d_1_3"}, {"0031"})
    <3>1. SwRamCodeVer(10) \notin {"0031"}
      BY <1>2
    <3>2. Excused(10) = {} /\ Stays(10) = {} /\ Revision(10) = "8125d_1"
      BY <1>1, <1>2 DEF Stays
    <3> QED BY <1>3, <2>3, <3>1, <3>2 DEF Load
  <2> QED BY <2>4, <2>5
<1>7. \A m \in {11, 13} : \E U, D, V : Load(m, SetPhyMcu8125d_2, U, D, V)
  <2> DEFINE s1 == Patched(Image8125d_2_1)
  <2>1. /\ Block(s1, {"nc0", "nc0x", "nc1", "nc2", "nc2x", "uc"}, {}, {"0013"})
        /\ Ready(s1, {"nc0", "nc0x", "nc1", "nc2", "nc2x", "uc"})
        /\ Leaves(s1, "8125d_2", {})
    BY Image8125d_2_1Is, OnePatch
  <2> DEFINE s2 == s1 \o Patched(Image8125d_2_2)
  <2>2. /\ Block(s2, {"nc0", "nc0x", "nc1", "nc2", "nc2x", "uc"},
                 {} \cup {"8125d_2_2"}, {"0013"})
        /\ Ready(s2, {"nc0", "nc0x", "nc1", "nc2", "nc2x", "uc"})
        /\ Leaves(s2, "8125d_2", {})
    BY <1>4, <2>1, NextPatch
  <2>3. SetPhyMcu8125d_2 = s2
    BY DEF SetPhyMcu8125d_2
  <2> HIDE DEF s2
  <2> SUFFICES ASSUME NEW m \in {11, 13}
               PROVE  Load(m, s2, {"nc0", "nc0x", "nc1", "nc2", "nc2x", "uc"},
                           {} \cup {"8125d_2_2"}, {"0013"})
    BY <2>3
  <2>4. /\ Excused(m) = {} /\ Revision(m) = "8125d_2" /\ m # 31
        /\ SwRamCodeVer(m) \notin {"0013"}
    BY <1>1, <1>2
  <2>5. Stays(m) = {}
    BY DEF Stays
  <2> QED BY <1>3, <2>2, <2>4, <2>5 DEF Load
<1> QED BY <1>5, <1>6, <1>7

(* and those of which the switch falls through into the next. *)
LEMMA LoadsThatFallThrough ==
  /\ \E U, D, V : Load(31, Fallthrough31, U, D, V)
  /\ \E U, D, V : Load(32, Fallthrough32, U, D, V)
<1> DEFINE C  == {"nc0", "nc2", "uc", "uc2"}
<1> DEFINE U1 == {"nc0", "nc0x", "nc2", "uc", "uc2"}
<1> DEFINE U2 == {"nc0", "nc1", "nc2", "nc2x", "uc", "uc2"}
<1> DEFINE U3 == {"nc0", "nc0x", "nc2", "nc2x", "uc", "uc2"}
<1> DEFINE E  == {<< "nc1", "8126a_2" >>}
<1> DEFINE p1 == Patched(Image8126a_1_1)
<1> DEFINE p2 == p1 \o Patched(Image8126a_1_2)
<1> DEFINE p3 == p2 \o Patched(Image8126a_1_3)
<1> DEFINE q1 == Patched(Image8126a_2_1)
<1> DEFINE q2 == q1 \o Patched(Image8126a_2_3)
<1> DEFINE r  == Patched(Image8126a_3_1)
<1>1. /\ Block(Patched(Image8126a_1_2), {}, {"8126a_1_2"}, {})
      /\ Block(Patched(Image8126a_1_3), {}, {"8126a_1_3"}, {})
      /\ Block(Patched(Image8126a_2_3), {}, {"8126a_2_3"}, {})
      /\ \A i : /\ OfImage(Patched(Image8126a_1_2), i)
                /\ OfImage(Patched(Image8126a_1_3), i)
                /\ OfImage(Patched(Image8126a_2_3), i)
  BY DataPatches, NamesAre DEF Image8126a_1_2, Image8126a_1_3, Image8126a_2_3
<1>2. \A s, U, D, V : Block(s, U, D, V) => s \in Seq(Ops) /\ Content(s, U, D, V)
  BY DEF Block
<1>3. PICK D1 : /\ Block(p3, U1, D1, {"0023"}) /\ Ready(p3, U1)
                /\ OfImage(p3, "8126a_1")
  <2>1. /\ Block(p1, U1, {}, {"0023"}) /\ Ready(p1, U1)
        /\ OfImage(p1, "8126a_1") /\ Leaves(p1, "8126a_1", {})
    BY Image8126a_1_1Is, OnePatch
  <2>2. /\ Block(p2, U1, {} \cup {"8126a_1_2"}, {"0023"}) /\ Ready(p2, U1)
        /\ OfImage(p2, "8126a_1") /\ Leaves(p2, "8126a_1", {})
    BY <1>1, <1>2, <2>1, NextPatch, OfImageConcat
  <2>3. /\ Block(p3, U1, {} \cup {"8126a_1_2"} \cup {"8126a_1_3"}, {"0023"})
        /\ Ready(p3, U1) /\ OfImage(p3, "8126a_1")
    BY <1>1, <1>2, <2>2, NextPatch, OfImageConcat
  <2> QED BY <2>3
<1>4. PICK D2 : /\ Block(q2, U2, D2, {"0027"}) /\ Ready(q2, U2)
                /\ OfImage(q2, "8126a_2")
  <2>1. /\ Block(q1, U2, {"8126a_2_1"}, {"0027"}) /\ Ready(q1, U2)
        /\ OfImage(q1, "8126a_2") /\ Leaves(q1, "8126a_2", {})
    BY Image8126a_2_1Is, OnePatch
  <2>2. /\ Block(q2, U2, {"8126a_2_1"} \cup {"8126a_2_3"}, {"0027"})
        /\ Ready(q2, U2) /\ OfImage(q2, "8126a_2")
    BY <1>1, <1>2, <2>1, NextPatch, OfImageConcat
  <2> QED BY <2>2
<1>5. /\ Block(r, U3, {}, {}) /\ Leaves(r, "8126a_3", E)
  BY Image8126a_3_1Is, OnePatch
<1>6. Fallthrough32 = q2 \o r /\ Fallthrough31 = p3 \o (q2 \o r)
  BY DEF Fallthrough31, Fallthrough32, Fallthrough33, SetPhyMcu8126a_1,
         SetPhyMcu8126a_2, SetPhyMcu8126a_3
<1> HIDE DEF p1, p2, p3, q1, q2, r
<1> DEFINE w == q2 \o r
<1>7. Block(w, U2 \cup U3, D2 \cup {}, {"0027"} \cup {})
  BY <1>4, <1>5, BlockConcat
<1>8. Ready(w, C)
  <2>1. C \subseteq U2
    OBVIOUS
  <2>2. Ready(q2, C) /\ Whole(q2) /\ q2 \in Seq(Ops) /\ r \in Seq(Ops)
    BY <1>4, <1>5, <2>1, ReadyFewer DEF Block
  <2> HIDE DEF C, U2
  <2> QED BY <1>2, <1>4, <2>1, <2>2, ReadyAfter
<1>9. Leaves(w, "8126a_3", E)
  <2>1. \A u \in U2 : u \in U3 \/ << u, "8126a_2" >> \in E
    OBVIOUS
  <2> HIDE DEF U2, U3, E
  <2> QED BY <1>2, <1>4, <1>5, <2>1, LeavesReplaced
<1> HIDE DEF w
<1>10. /\ Block(p3 \o w, U1 \cup (U2 \cup U3), D1 \cup (D2 \cup {}),
                {"0023"} \cup ({"0027"} \cup {}))
  BY <1>3, <1>7, BlockConcat
<1>11. Ready(p3 \o w, C)
  <2>1. C \subseteq U1
    OBVIOUS
  <2>2. Ready(p3, C) /\ Whole(p3) /\ p3 \in Seq(Ops) /\ w \in Seq(Ops)
    BY <1>3, <1>7, <2>1, ReadyFewer DEF Block
  <2> HIDE DEF C, U1
  <2> QED BY <1>2, <1>3, <2>1, <2>2, ReadyAfter
<1>12. Leaves(p3 \o w, "8126a_3", E)
  <2>1. \A u \in U1 : u \in U2 \cup U3
    OBVIOUS
  <2> HIDE DEF U1, U2, U3, E
  <2> QED BY <1>2, <1>3, <1>7, <1>9, <2>1, LeavesReplaced
<1>13. /\ Excused(31) = {"nc0x", "nc1", "nc2x"} /\ Stays(31) = E
       /\ Excused(32) = {"nc0x", "nc1", "nc2x"} /\ Stays(32) = E
       /\ Revision(31) = "8126a_3" /\ Revision(32) = "8126a_3"
       /\ SwRamCodeVer(32) = "0033"
  BY DEF Excused, Stays, Revision, SwRamCodeVer
<1>14. /\ (U2 \cup U3) \ Excused(32) = C
       /\ (U1 \cup (U2 \cup U3)) \ Excused(31) = C
  BY <1>13
<1>15. "0033" \notin {"0027"} \cup {}
  OBVIOUS
<1> HIDE DEF C, U1, U2, U3, E
<1>16. Load(32, w, U2 \cup U3, D2 \cup {}, {"0027"} \cup {})
  BY <1>7, <1>8, <1>9, <1>13, <1>14, <1>15 DEF Load
<1>17. Load(31, p3 \o w, U1 \cup (U2 \cup U3), D1 \cup (D2 \cup {}),
            {"0023"} \cup ({"0027"} \cup {}))
  BY <1>10, <1>11, <1>12, <1>13, <1>14 DEF Load
<1> QED BY <1>6, <1>16, <1>17 DEF w

(* Every method's code is loaded so. *)
LEMMA Loads ==
  \A m \in Methods : \E U, D, V : Load(m, SetPhyMcu(m), U, D, V)
<1> SUFFICES ASSUME NEW m \in Methods
             PROVE  \E U, D, V : Load(m, SetPhyMcu(m), U, D, V)
  OBVIOUS
<1>1. m \in {2, 3, 4, 5, 6, 7, 8, 9, 10, 11, 12, 13, 31, 32, 33}
  BY DownloadAssumption DEF DownloadAssumption
<1>2. CASE m \in {2, 3, 4, 5, 6, 7}
  BY <1>2, LoadsOfOne DEF SetPhyMcu
<1>3. CASE m \in {9, 12, 33}
  BY <1>3, LoadsOfOne DEF SetPhyMcu, Fallthrough33
<1>4. CASE m \in {8, 10, 11, 13}
  BY <1>4, LoadsOfMore DEF SetPhyMcu
<1>5. CASE m \in {31, 32}
  BY <1>5, LoadsThatFallThrough DEF SetPhyMcu
<1> QED BY <1>1, <1>2, <1>3, <1>4, <1>5

(* The version is the last write of the script, and it occurs nowhere else *)
(* in it.                                                                  *)
Announces(s, v) ==
  /\ Len(s) > 0 /\ s[Len(s)].op = "version" /\ s[Len(s)].value = v

AnnouncesOnce(s, v) ==
  \A k \in 1 .. Len(s) : s[k].op = "version" /\ s[k].value = v => k = Len(s)

(* From n on, s has the code and the data of t. *)
Holds(s, t, n) ==
  /\ n \in Nat
  /\ \A k \in 1 .. Len(t) : n + k \in 1 .. Len(s) /\ s[n + k] = t[k]
  /\ \A k \in 1 .. Len(s) :
       s[k].op \in {"code", "data"} => k - n \in 1 .. Len(t)

(* What a pass over the PHY's code is when it is not skipped. *)
Pass(m, s, U, D) ==
  /\ \E V : Block(s, U, D, V)
  /\ Ready(s, U \ Excused(m))
  /\ Announces(s, SwRamCodeVer(m))
  /\ m # 31 => AnnouncesOnce(s, SwRamCodeVer(m))
  /\ \E n : Holds(s, SetPhyMcu(m), n)

(* The driver's own write of the version is a block, *)
LEMMA VersionBlock ==
  ASSUME NEW v \in Names
  PROVE  /\ Block(Version(v), {}, {}, {v}) /\ Without(Version(v), Withdraws)
         /\ Len(Version(v)) = 1
         /\ Version(v)[1].op = "version" /\ Version(v)[1].value = v
<1> DEFINE x == [op |-> "version", value |-> v]
<1>1. x \in Ops
  BY DEF Ops
<1>2. x.op = "version" /\ x.value = v
  OBVIOUS
<1> DEFINE s == << x >>
<1>3. s = Version(v)
  BY DEF Version
<1>4. s \in Seq(Ops) /\ Len(s) = 1 /\ s[1] = x
  BY <1>1, SingleIs
<1> HIDE DEF x, s
<1>5. \A k \in 1 .. Len(s) : s[k].op = "version" /\ s[k].value = v
  BY <1>2, <1>4
<1>6. Whole(s) /\ AllHeld(s) /\ Content(s, {}, {}, {v}) /\ Without(s, Withdraws)
  BY <1>5 DEF Whole, AllHeld, Content, Without, Needs, Withdraws
<1>7. /\ Without(s, LockOn) /\ Without(s, ModeOn) /\ Without(s, RequestOn)
  BY <1>5 DEF Without, LockOn, ModeOn, RequestOn
<1> QED BY <1>2, <1>3, <1>4, <1>6, <1>7, SettlesWithout DEF Block

(* a group of parameters is one, *)
LEMMA ParametersBlock ==
  ASSUME NEW kind \in Names, kind # "held"
  PROVE  /\ Block(Parameters(kind), {}, {}, {})
         /\ Without(Parameters(kind), Withdraws)
         /\ Without(Parameters(kind), Needs)
         /\ \A k \in 1 .. Len(Parameters(kind)) :
              Parameters(kind)[k].op = "parameters"
<1> DEFINE x == [op |-> "parameters", kind |-> kind]
<1>1. x \in Ops
  BY DEF Ops
<1>2. x.op = "parameters" /\ x.kind = kind
  OBVIOUS
<1> DEFINE s == << x >>
<1>3. s = Parameters(kind)
  BY DEF Parameters
<1>4. s \in Seq(Ops) /\ Len(s) = 1 /\ s[1] = x
  BY <1>1, SingleIs
<1> HIDE DEF x, s
<1>5. \A k \in 1 .. Len(s) : s[k].op = "parameters" /\ s[k].kind # "held"
  BY <1>2, <1>4
<1>6. Whole(s) /\ AllHeld(s) /\ Content(s, {}, {}, {}) /\ Without(s, Withdraws)
      /\ Without(s, Needs)
  BY <1>5 DEF Whole, AllHeld, Content, Without, Needs, Withdraws
<1>7. /\ Without(s, LockOn) /\ Without(s, ModeOn) /\ Without(s, RequestOn)
  BY <1>5 DEF Without, LockOn, ModeOn, RequestOn
<1> QED BY <1>3, <1>4, <1>5, <1>6, <1>7, SettlesWithout DEF Block

(* and so is what precedes the code. *)
LEMMA BeforeBlock ==
  \A m \in Methods :
    LET s == SetHwPhyBeforeInitPhyMcu(m)
    IN  /\ Block(s, {}, {}, {}) /\ Without(s, Withdraws) /\ Without(s, Needs)
        /\ \A k \in 1 .. Len(s) : s[k].op = "parameters"
<1> SUFFICES ASSUME NEW m \in Methods
             PROVE  LET s == SetHwPhyBeforeInitPhyMcu(m)
                    IN  /\ Block(s, {}, {}, {})
                        /\ Without(s, Withdraws) /\ Without(s, Needs)
                        /\ \A k \in 1 .. Len(s) : s[k].op = "parameters"
  OBVIOUS
<1>1. CASE m = 4
  <2>1. "watchdog" \in Names
    BY DEF Names
  <2> QED BY <1>1, <2>1, ParametersBlock DEF SetHwPhyBeforeInitPhyMcu
<1>2. CASE m # 4
  <2>1. \A k \in 1 .. Len(<< >>) : FALSE
    OBVIOUS
  <2> QED BY <1>2, <2>1, EmptyIs DEF SetHwPhyBeforeInitPhyMcu
<1> QED BY <1>1, <1>2

(* Hence the pass loads the code and announces it, *)
LEMMA PassIs ==
  \A m \in Methods :
    \E U, D, V : /\ Pass(m, PhyPass[m][FALSE], U, D)
                 /\ Load(m, SetPhyMcu(m), U, D, V)
<1> SUFFICES ASSUME NEW m \in Methods
             PROVE  \E U, D, V : /\ Pass(m, PhyPass[m][FALSE], U, D)
                                 /\ Load(m, SetPhyMcu(m), U, D, V)
  OBVIOUS
<1> DEFINE p == SetHwPhyBeforeInitPhyMcu(m)
<1> DEFINE l == SetPhyMcu(m)
<1> DEFINE v == SwRamCodeVer(m)
<1> DEFINE t == Version(v)
<1> DEFINE q == l \o t
<1> DEFINE s == p \o q
<1>1. PICK U, D, V : Load(m, l, U, D, V)
  BY Loads
<1>2. v \in Names
  <2>1. m \in {2, 3, 4, 5, 6, 7, 8, 9, 10, 11, 12, 13, 31, 32, 33}
    BY DownloadAssumption DEF DownloadAssumption
  <2> QED BY <2>1 DEF SwRamCodeVer, Names
<1>3. /\ Block(t, {}, {}, {v}) /\ Without(t, Withdraws) /\ Len(t) = 1
      /\ t[1].op = "version" /\ t[1].value = v
  BY <1>2, VersionBlock
<1>4. /\ Block(p, {}, {}, {}) /\ Without(p, Withdraws)
      /\ \A k \in 1 .. Len(p) : p[k].op = "parameters"
  BY BeforeBlock
<1>5. s = PhyPass[m][FALSE]
  BY DEF PhyPass, InitHwPhyMcu, WriteHwPhyMcuCodeVer
<1>6. m # 31 => v \notin V
  BY <1>1 DEF Load
<1>7. Block(l, U, D, V) /\ Ready(l, U \ Excused(m))
  BY <1>1 DEF Load
<1> HIDE DEF p, l, v, t
<1>8. Block(q, U \cup {}, D \cup {}, V \cup {v})
  BY <1>3, <1>7, BlockConcat
<1>9. p \in Seq(Ops) /\ l \in Seq(Ops) /\ t \in Seq(Ops) /\ q \in Seq(Ops)
  BY <1>3, <1>4, <1>7, ConcatIs DEF Block
<1>10. Ready(s, U \ Excused(m))
  <2>1. U \ Excused(m) \subseteq U
    OBVIOUS
  <2>2. Whole(l) /\ Content(l, U, D, V)
    BY <1>7 DEF Block
  <2>3. Ready(q, U \ Excused(m))
    BY <1>7, <1>9, <2>1, <2>2, ReadyAfter
  <2> HIDE DEF q
  <2> QED BY <1>4, <1>9, <2>3, ReadyBefore
<1>11. /\ Len(l) \in Nat /\ Len(q) = Len(l) + 1
       /\ \A k \in 1 .. Len(l) : q[k] = l[k]
       /\ q[Len(l) + 1] = t[1]
       /\ \A k \in 1 .. Len(q) : k \in 1 .. Len(l) \/ k = Len(l) + 1
  <2>1. /\ Len(l) \in Nat /\ Len(t) \in Nat
        /\ Len(q) = Len(l) + Len(t)
        /\ \A k \in 1 .. Len(l) : q[k] = l[k]
        /\ \A j \in 1 .. Len(t) : q[Len(l) + j] = t[j]
        /\ \A k \in 1 .. Len(q) : \/ k \in 1 .. Len(l)
                                  \/ \E j \in 1 .. Len(t) : k = Len(l) + j
    BY <1>9, ConcatParts
  <2> HIDE DEF q
  <2> QED BY <1>3, <2>1
<1> HIDE DEF q
<1>12. Block(s, U, D, V \cup {v})
  <2>1. Block(s, {} \cup (U \cup {}), {} \cup (D \cup {}), {} \cup (V \cup {v}))
    BY <1>4, <1>8, BlockConcat
  <2>2. \A A : {} \cup A = A /\ A \cup {} = A
    OBVIOUS
  <2> QED BY <2>1, <2>2
<1>13. /\ Len(p) \in Nat /\ Len(q) \in Nat
       /\ Len(s) = Len(p) + Len(q)
       /\ \A k \in 1 .. Len(p) : s[k] = p[k]
       /\ \A j \in 1 .. Len(q) : s[Len(p) + j] = q[j]
       /\ \A k \in 1 .. Len(s) : \/ k \in 1 .. Len(p)
                                 \/ \E j \in 1 .. Len(q) : k = Len(p) + j
  BY <1>9, ConcatParts
<1> HIDE DEF s
<1>14. Announces(s, v)
  <2>1. Len(l) + 1 \in 1 .. Len(q) /\ Len(s) = Len(p) + (Len(l) + 1)
    BY <1>11, <1>13
  <2>2. s[Len(s)] = t[1] /\ Len(s) > 0
    BY <1>11, <1>13, <2>1
  <2> QED BY <1>3, <2>2 DEF Announces
<1>15. ASSUME m # 31
       PROVE  AnnouncesOnce(s, v)
  <2> SUFFICES ASSUME NEW k \in 1 .. Len(s), s[k].op = "version", s[k].value = v
               PROVE  k = Len(s)
    BY DEF AnnouncesOnce
  <2>1. PICK j \in 1 .. Len(q) : k = Len(p) + j
    BY <1>4, <1>13
  <2>2. q[j] = s[k]
    BY <1>13, <2>1
  <2>3. j \notin 1 .. Len(l)
    BY <1>6, <1>7, <1>11, <1>15, <2>2 DEF Block, Content
  <2> QED BY <1>11, <1>13, <2>1, <2>3
<1>16. Holds(s, l, Len(p))
  <2>1. ASSUME NEW k \in 1 .. Len(l)
        PROVE  Len(p) + k \in 1 .. Len(s) /\ s[Len(p) + k] = l[k]
    <3>1. k \in 1 .. Len(q) /\ Len(p) + k \in 1 .. Len(s)
      BY <1>11, <1>13
    <3> QED BY <1>11, <1>13, <3>1
  <2>2. ASSUME NEW k \in 1 .. Len(s), s[k].op \in {"code", "data"}
        PROVE  k - Len(p) \in 1 .. Len(l)
    <3>1. PICK j \in 1 .. Len(q) : k = Len(p) + j
      BY <1>4, <1>13, <2>2
    <3>2. q[j] = s[k]
      BY <1>13, <3>1
    <3>3. j # Len(l) + 1
      BY <1>3, <1>11, <2>2, <3>2
    <3>4. j \in 1 .. Len(l)
      BY <1>11, <3>3
    <3>5. k - Len(p) = j
      BY <1>13, <3>1
    <3> QED BY <3>4, <3>5
  <2> QED BY <1>13, <2>1, <2>2 DEF Holds
<1>17. Pass(m, s, U, D)
  BY <1>10, <1>12, <1>14, <1>15, <1>16 DEF Pass, v, l
<1> QED BY <1>1, <1>5, <1>17 DEF l

(* and a skipped pass writes parameters only. *)
LEMMA SkippedIs ==
  \A m \in Methods :
    /\ PhyPass[m][TRUE] \in Seq(Ops)
    /\ Without(PhyPass[m][TRUE], Needs)
    /\ \A k \in 1 .. Len(PhyPass[m][TRUE]) :
         PhyPass[m][TRUE][k].op = "parameters"
<1> SUFFICES ASSUME NEW m \in Methods
             PROVE  /\ PhyPass[m][TRUE] \in Seq(Ops)
                    /\ Without(PhyPass[m][TRUE], Needs)
                    /\ \A k \in 1 .. Len(PhyPass[m][TRUE]) :
                         PhyPass[m][TRUE][k].op = "parameters"
  OBVIOUS
<1> DEFINE p == SetHwPhyBeforeInitPhyMcu(m)
<1>1. PhyPass[m][TRUE] = p \o << >>
  BY DEF PhyPass, InitHwPhyMcu
<1>2. /\ p \in Seq(Ops) /\ Without(p, Needs)
      /\ \A k \in 1 .. Len(p) : p[k].op = "parameters"
  BY BeforeBlock DEF Block
<1> HIDE DEF p
<1>3. p \o << >> = p
  BY <1>2, ConcatEmptySeq
<1> QED BY <1>1, <1>2, <1>3

(* A table of parameters: the request is its only other operation. *)
Table(s) ==
  /\ s \in Seq(Ops) /\ AllHeld(s) /\ Settles(s, RequestOn, Withdraws)
  /\ \A k \in 1 .. Len(s) :
       s[k].op \in {"parameters", "setRequest", "clearRequest"}

(* Tables in a row are a table. *)
LEMMA TableConcat ==
  ASSUME NEW s, NEW t, Table(s), Table(t)
  PROVE  Table(s \o t)
<1> DEFINE r == s \o t
<1>1. s \in Seq(Ops) /\ t \in Seq(Ops)
  BY DEF Table
<1>2. /\ r \in Seq(Ops)
      /\ \A k \in 1 .. Len(s) : r[k] = s[k]
      /\ \A j \in 1 .. Len(t) : r[Len(s) + j] = t[j]
      /\ \A k \in 1 .. Len(r) : \/ k \in 1 .. Len(s)
                                \/ \E j \in 1 .. Len(t) : k = Len(s) + j
  BY <1>1, ConcatParts
<1>3. AllHeld(r) /\ Settles(r, RequestOn, Withdraws)
  BY <1>1, AllHeldConcat, SettlesBoth DEF Table
<1> HIDE DEF r
<1>4. Table(r)
  BY <1>2, <1>3 DEF Table
<1> QED BY <1>4 DEF r

(* The groups that the tables consist of, *)
LEMMA TableParts ==
  /\ Table(Plain) /\ Table(Guarded) /\ Table(Aldps) /\ Table(Held)
  /\ Without(Plain \o Aldps, Withdraws)
<1>1. ASSUME NEW kind \in Names, kind # "held"
      PROVE  Table(Parameters(kind)) /\ Without(Parameters(kind), Withdraws)
  <2>1. /\ Block(Parameters(kind), {}, {}, {})
        /\ Without(Parameters(kind), Withdraws)
        /\ \A k \in 1 .. Len(Parameters(kind)) :
             Parameters(kind)[k].op = "parameters"
    BY <1>1, ParametersBlock
  <2> QED BY <2>1 DEF Table, Block
<1>2. "plain" \in Names /\ "guarded" \in Names /\ "aldps" \in Names /\ "held" \in Names
  BY DEF Names
<1>3. Table(Plain) /\ Table(Guarded) /\ Table(Aldps)
  BY <1>1, <1>2 DEF Plain, Guarded, Aldps
<1>4. Without(Plain \o Aldps, Withdraws)
  <2>1. Without(Plain, Withdraws) /\ Without(Aldps, Withdraws)
    BY <1>1, <1>2 DEF Plain, Aldps
  <2> QED BY <1>3, <2>1, WithoutConcat DEF Table
<1>5. Table(Held)
  <2> DEFINE x == [op |-> "setRequest"]
  <2> DEFINE y == [op |-> "parameters", kind |-> "held"]
  <2> DEFINE z == [op |-> "clearRequest"]
  <2>1. x \in Ops /\ y \in Ops /\ z \in Ops
    BY <1>2 DEF Ops
  <2>2. x.op = "setRequest" /\ y.op = "parameters" /\ z.op = "clearRequest"
    OBVIOUS
  <2>3. Held = << x >> \o << y >> \o << z >>
    BY DEF Held, Patched, SetPatchRequest, ClearPatchRequest, Parameters
  <2> HIDE DEF Ops, x, y, z
  <2>4. << x >> \in Seq(Ops) /\ << y >> \in Seq(Ops) /\ << z >> \in Seq(Ops)
        /\ Len(<< x >>) = 1 /\ Len(<< y >>) = 1 /\ Len(<< z >>) = 1
        /\ << x >>[1] = x /\ << y >>[1] = y /\ << z >>[1] = z
    BY <2>1, SingleIs
  <2> DEFINE a == << x >>
  <2> DEFINE b == << y >>
  <2> DEFINE c == << z >>
  <2>5. a \in Seq(Ops) /\ b \in Seq(Ops) /\ c \in Seq(Ops)
        /\ Len(a) = 1 /\ Len(b) = 1 /\ Len(c) = 1 /\ a[1] = x /\ b[1] = y /\ c[1] = z
    BY <2>4
  <2> HIDE DEF a, b, c
  <2> DEFINE d == a \o b
  <2>6. d \in Seq(Ops) /\ Len(d) = 2 /\ d[1] = x /\ d[2] = y
    <3>1. /\ d \in Seq(Ops) /\ Len(d) = Len(a) + Len(b)
          /\ \A k \in 1 .. Len(a) : d[k] = a[k]
          /\ \A k \in 1 .. Len(b) : d[Len(a) + k] = b[k]
      BY <2>5, ConcatIs
    <3> HIDE DEF d
    <3> QED BY <2>5, <3>1
  <2> HIDE DEF d
  <2> DEFINE r == d \o c
  <2>7. r \in Seq(Ops) /\ Len(r) = 3 /\ r[1] = x /\ r[2] = y /\ r[3] = z
    <3>1. /\ r \in Seq(Ops) /\ Len(r) = Len(d) + Len(c)
          /\ \A k \in 1 .. Len(d) : r[k] = d[k]
          /\ \A k \in 1 .. Len(c) : r[Len(d) + k] = c[k]
      BY <2>5, <2>6, ConcatIs
    <3> HIDE DEF r
    <3> QED BY <2>5, <2>6, <3>1
  <2> HIDE DEF r
  <2>8. \A k \in 1 .. 3 : k = 1 \/ k = 2 \/ k = 3
    OBVIOUS
  <2>9. AllHeld(r)
    <3>1. HeldAt(r, 2)
      BY <2>2, <2>7 DEF HeldAt
    <3>2. x \notin Needs /\ z \notin Needs
      BY <2>2 DEF Needs
    <3> QED BY <2>7, <2>8, <3>1, <3>2 DEF AllHeld
  <2>10. Settles(r, RequestOn, Withdraws)
    <3>1. y \notin RequestOn /\ z \notin RequestOn /\ z \in Withdraws
      BY <2>1, <2>2 DEF RequestOn, Withdraws
    <3> QED BY <2>7, <2>8, <3>1 DEF Settles
  <2>11. Table(r)
    BY <2>2, <2>7, <2>8, <2>9, <2>10 DEF Table
  <2> QED BY <2>3, <2>11 DEF r, d, a, b, c
<1> QED BY <1>3, <1>4, <1>5

(* and the tables of all methods. *)
LEMMA Tables ==
  \A m \in Methods : /\ Table(PhyTable(m))
                     /\ m = 31 => Without(PhyTable(m), Withdraws)
<1> SUFFICES ASSUME NEW m \in Methods
             PROVE  /\ Table(PhyTable(m))
                    /\ m = 31 => Without(PhyTable(m), Withdraws)
  OBVIOUS
<1>1. m \in {2, 3, 4, 5, 6, 7, 8, 9, 10, 11, 12, 13, 31, 32, 33}
  BY DownloadAssumption DEF DownloadAssumption
<1>2. /\ Table(HwPhyConfig8125a_1) /\ Table(HwPhyConfig8125b_2)
      /\ Table(HwPhyConfig8125bp_1) /\ Table(HwPhyConfig8125bp_2)
      /\ Table(HwPhyConfig8125cp_1)
      /\ Table(HwPhyConfig8126a_1) /\ Table(HwPhyConfig8126a_3)
  BY TableParts, TableConcat
     DEF HwPhyConfig8125a_1, HwPhyConfig8125b_2, HwPhyConfig8125bp_1,
         HwPhyConfig8125bp_2, HwPhyConfig8125cp_1, HwPhyConfig8126a_1,
         HwPhyConfig8126a_3
<1>3. Table(HwPhyConfig8125d_2) /\ Table(HwPhyConfig8126a_2)
  BY TableParts, TableConcat DEF HwPhyConfig8125d_2, HwPhyConfig8126a_2
<1>4. Table(HwPhyConfig8125a_2)
  BY TableParts, TableConcat DEF HwPhyConfig8125a_2, MdiSwap
<1>5. Table(HwPhyConfig8125b_1)
  BY TableParts, TableConcat DEF HwPhyConfig8125b_1
<1>6. Table(HwPhyConfig8125d_1)
  BY TableParts, TableConcat DEF HwPhyConfig8125d_1
<1>7. Without(HwPhyConfig8126a_1, Withdraws)
  BY TableParts DEF HwPhyConfig8126a_1
<1>8. Table(PhyTable(m))
  BY <1>1, <1>2, <1>3, <1>4, <1>5, <1>6 DEF PhyTable
<1>9. m = 31 => PhyTable(m) = HwPhyConfig8126a_1
  BY DEF PhyTable
<1> QED BY <1>7, <1>8, <1>9

-----------------------------------------------------------------------------
(* The state, and the steps by kind                                        *)

(* The PHY, the MAC's microcontroller and the operations on it. *)
PhyStates ==
  [code : [Units -> Names],
   aim : [Units -> [image : Names, hooks : SUBSET Hooks]],
   enabled : [Units -> SUBSET Hooks],
   data : SUBSET Names, version : Names,
   keyLock : BOOLEAN, patchMode : BOOLEAN, request : BOOLEAN, granted : BOOLEAN,
   tuned : SUBSET Names]

MacAims == [image : Names, hooks : SUBSET MacHooks]

MacStates ==
  [code : Names, version : Names, aim : MacAims, enabled : SUBSET MacHooks]

MacOps ==
  [op : {"macCode"}, image : Names]
    \cup [op : {"macVersion"}, value : Names]
    \cup [op : {"macAim"}, aim : MacAims]
    \cup [op : {"macEnable"}, hooks : SUBSET MacHooks]

Phases == {"off", "idle", "mac", "phy", "table", "up"}

(* The type invariant. *)
Types ==
  /\ mcfg \in Methods /\ known \in BOOLEAN
  /\ phase \in Phases /\ goal \in {"idle", "up"}
  /\ step \in Nat /\ step >= 1 /\ polls \in Nat
  /\ hasRam \in BOOLEAN /\ hwVer \in BOOLEAN
  /\ keep \in BOOLEAN /\ resume \in BOOLEAN
  /\ phy \in PhyStates /\ mac \in MacStates
  /\ late \in BOOLEAN /\ cut \in BOOLEAN

(* The images of the MAC's microcontroller: their names are none of the    *)
(* states in which it is found, and the hooks that they enable were aimed. *)
LEMMA MacPatches ==
  ASSUME NEW m \in MacMcuMethods
  PROVE  /\ SetMacMcu(m).image \in Names
         /\ SetMacMcu(m).aimed \in SUBSET MacHooks
         /\ SetMacMcu(m).enabled \in SUBSET MacHooks
         /\ SetMacMcu(m).image \notin {"none", "other", "torn", "rom"}
         /\ SetMacMcu(m).enabled \subseteq
              SetMacMcu(m).aimed
                \cup (IF SetMacMcu(m).image = "8125b_2" THEN {6} ELSE {})
<1>1. CASE m \in {3, 6}
  BY <1>1 DEF SetMacMcu, SetMacMcu8125a_2, MacPatch, MacHooks, Names
<1>2. CASE m \in {5, 7}
  BY <1>2 DEF SetMacMcu, SetMacMcu8125b_2, MacPatch, MacHooks, Names
<1>3. CASE m = 8
  BY <1>3 DEF SetMacMcu, SetMacMcu8125bp_1, MacPatch, MacHooks, Names
<1>4. CASE m = 9
  BY <1>4 DEF SetMacMcu, SetMacMcu8125bp_2, MacPatch, MacHooks, Names
<1>5. CASE m = 10
  BY <1>5 DEF SetMacMcu, SetMacMcu8125d_1, MacPatch, MacHooks, Names
<1>6. CASE m \in {11, 13}
  BY <1>6 DEF SetMacMcu, SetMacMcu8125d_2, MacPatch, MacHooks, Names
<1>7. CASE m = 12
  BY <1>7 DEF SetMacMcu, SetMacMcu8125cp_1, MacPatch, MacHooks, Names
<1> QED BY <1>1, <1>2, <1>3, <1>4, <1>5, <1>6, <1>7 DEF MacMcuMethods

(* Scripts of one and of two operations. *)
LEMMA TwoOps ==
  ASSUME NEW a \in MacOps, NEW b \in MacOps
  PROVE  /\ << a, b >> \in Seq(MacOps) /\ Len(<< a, b >>) = 2
         /\ << a, b >>[1] = a /\ << a, b >>[2] = b
         /\ << a >> \in Seq(MacOps) /\ Len(<< a >>) = 1 /\ << a >>[1] = a
<1> HIDE DEF MacOps
<1> QED OBVIOUS

(* The script of phase "mac", operation by operation. *)
MacScript == HwMacMcuConfig

(* It turns the hooks off, loads unless the version was found, aims and    *)
(* enables.                                                                *)
LEMMA MacScriptIs ==
  ASSUME mcfg \in Methods, known \in BOOLEAN, hwVer \in BOOLEAN
  PROVE  LET M == MacScript
             p == SetMacMcu(mcfg)
         IN  /\ M \in Seq(MacOps)
             /\ ~known => Len(M) = 0
             /\ known =>
                  /\ M[1] = [op |-> "macEnable", hooks |-> {}]
                  /\ M[2] = [op |-> "macAim", aim |-> NoAim]
                  /\ mcfg \notin MacMcuMethods => Len(M) = 2
                  /\ mcfg \in MacMcuMethods /\ hwVer =>
                       /\ Len(M) = 4
                       /\ M[3] = [op |-> "macAim",
                                   aim |-> [image |-> p.image, hooks |-> p.aimed]]
                       /\ M[4] = [op |-> "macEnable", hooks |-> p.enabled]
                  /\ mcfg \in MacMcuMethods /\ ~hwVer =>
                       /\ Len(M) = 7
                       /\ M[3] = [op |-> "macCode", image |-> "torn"]
                       /\ M[4] = [op |-> "macCode", image |-> p.image]
                       /\ M[5] = [op |-> "macVersion", value |-> p.image]
                       /\ M[6] = [op |-> "macAim",
                                   aim |-> [image |-> p.image, hooks |-> p.aimed]]
                       /\ M[7] = [op |-> "macEnable", hooks |-> p.enabled]
<1> DEFINE M == MacScript
<1> DEFINE p == SetMacMcu(mcfg)
<1> DEFINE d1 == [op |-> "macEnable", hooks |-> {}]
<1> DEFINE d2 == [op |-> "macAim", aim |-> NoAim]
<1> DEFINE d == << d1, d2 >>
<1>1. CASE ~known
  <2>1. M = << >>
    BY <1>1 DEF MacScript, HwMacMcuConfig
  <2> HIDE DEF M
  <2>2. M \in Seq(MacOps) /\ Len(M) = 0
    <3> HIDE DEF MacOps
    <3> QED BY <2>1
  <2> QED BY <1>1, <2>2 DEF M
<1>2. CASE known /\ mcfg \notin MacMcuMethods
  <2>1. d1 \in MacOps /\ d2 \in MacOps
    BY DEF MacOps, MacAims, NoAim, Names
  <2> HIDE DEF d1, d2
  <2>2. d \in Seq(MacOps) /\ Len(d) = 2 /\ d[1] = d1 /\ d[2] = d2
    BY <2>1, TwoOps
  <2>3. M = d \o << >>
    BY <1>2 DEF MacScript, HwMacMcuConfig, DisableMacMcuBps, d1, d2
  <2> HIDE DEF d, M
  <2>4. d \o << >> = d
    BY <2>2, ConcatEmptySeq
  <2>5. M \in Seq(MacOps) /\ Len(M) = 2 /\ M[1] = d1 /\ M[2] = d2
    BY <2>2, <2>3, <2>4
  <2> QED BY <1>2, <2>5 DEF M, d1, d2
<1>3. CASE known /\ mcfg \in MacMcuMethods
  <2> DEFINE c1 == [op |-> "macCode", image |-> "torn"]
  <2> DEFINE c2 == [op |-> "macCode", image |-> p.image]
  <2> DEFINE v  == [op |-> "macVersion", value |-> p.image]
  <2> DEFINE e1 == [op |-> "macAim", aim |-> [image |-> p.image, hooks |-> p.aimed]]
  <2> DEFINE e2 == [op |-> "macEnable", hooks |-> p.enabled]
  <2>1. d1 \in MacOps /\ d2 \in MacOps /\ c1 \in MacOps /\ c2 \in MacOps /\ v \in MacOps
        /\ e1 \in MacOps /\ e2 \in MacOps
    <3>1. /\ p.image \in Names /\ p.aimed \in SUBSET MacHooks
          /\ p.enabled \in SUBSET MacHooks
          /\ "none" \in Names /\ "torn" \in Names
      BY <1>3, MacPatches DEF Names
    <3> HIDE DEF p
    <3> QED BY <3>1 DEF MacOps, MacAims, NoAim
  <2>2. /\ DisableMacMcuBps = << d1, d2 >>
        /\ MacDownload(p) = << c1, c2 >> \o << v >>
        /\ EnableMacMcuBps(p) = << e1, e2 >>
    BY DEF DisableMacMcuBps, MacDownload, WriteMacMcuRamCode, SetHwMcuPatchCodeVer,
       EnableMacMcuBps
  <2>3. M = << d1, d2 >>
              \o ((IF hwVer THEN << >> ELSE << c1, c2 >> \o << v >>) \o << e1, e2 >>)
    BY <1>3, <2>2 DEF MacScript, HwMacMcuConfig
  <2> HIDE DEF d1, d2, c1, c2, v, e1, e2, MacOps
  <2> DEFINE c == << c1, c2 >>
  <2> DEFINE w == << v >>
  <2> DEFINE e == << e1, e2 >>
  <2>4. /\ d \in Seq(MacOps) /\ c \in Seq(MacOps) /\ w \in Seq(MacOps)
        /\ e \in Seq(MacOps)
        /\ Len(d) = 2 /\ Len(c) = 2 /\ Len(w) = 1 /\ Len(e) = 2
        /\ d[1] = d1 /\ d[2] = d2 /\ c[1] = c1 /\ c[2] = c2 /\ w[1] = v
        /\ e[1] = e1 /\ e[2] = e2
    BY <2>1, TwoOps
  <2>5. M = d \o ((IF hwVer THEN << >> ELSE c \o w) \o e)
    BY <2>3
  <2> HIDE DEF d, c, w, e, M
  <2>6. CASE hwVer
    <3> DEFINE r == d \o e
    <3>1. M = r
      <4>1. << >> \o e = e
        BY <2>4, ConcatEmptySeq
      <4> QED BY <2>5, <2>6, <4>1
    <3>2. /\ r \in Seq(MacOps) /\ Len(r) = Len(d) + Len(e)
          /\ \A i \in 1 .. Len(d) + Len(e) :
               r[i] = IF i <= Len(d) THEN d[i] ELSE e[i - Len(d)]
      BY <2>4, ConcatProperties
    <3> HIDE DEF r
    <3>3. /\ M \in Seq(MacOps) /\ Len(M) = 4 /\ M[1] = d1 /\ M[2] = d2
          /\ M[3] = e1 /\ M[4] = e2
      BY <2>4, <3>1, <3>2
    <3> QED BY <1>3, <2>6, <3>3 DEF d1, d2, e1, e2, M
  <2>7. CASE ~hwVer
    <3> DEFINE q == c \o w
    <3>1. /\ q \in Seq(MacOps) /\ Len(q) = Len(c) + Len(w)
          /\ \A i \in 1 .. Len(c) + Len(w) :
               q[i] = IF i <= Len(c) THEN c[i] ELSE w[i - Len(c)]
      BY <2>4, ConcatProperties
    <3>2. M = d \o (q \o e)
      BY <2>5, <2>7
    <3> HIDE DEF q
    <3>3. Len(q) = 3 /\ q[1] = c1 /\ q[2] = c2 /\ q[3] = v
      BY <2>4, <3>1
    <3> DEFINE s == q \o e
    <3>4. /\ s \in Seq(MacOps) /\ Len(s) = Len(q) + Len(e)
          /\ \A i \in 1 .. Len(q) + Len(e) :
               s[i] = IF i <= Len(q) THEN q[i] ELSE e[i - Len(q)]
      <4>1. q \in Seq(MacOps) /\ e \in Seq(MacOps)
        BY <2>4, <3>1
      <4> QED BY ONLY <4>1, ConcatProperties
    <3> HIDE DEF s
    <3>5. Len(s) = 5 /\ s[1] = c1 /\ s[2] = c2 /\ s[3] = v /\ s[4] = e1 /\ s[5] = e2
      BY <2>4, <3>3, <3>4
    <3> DEFINE r == d \o s
    <3>6. /\ r \in Seq(MacOps) /\ Len(r) = Len(d) + Len(s)
          /\ \A i \in 1 .. Len(d) + Len(s) :
               r[i] = IF i <= Len(d) THEN d[i] ELSE s[i - Len(d)]
      <4>1. d \in Seq(MacOps) /\ s \in Seq(MacOps)
        BY <2>4, <3>4
      <4> QED BY ONLY <4>1, ConcatProperties
    <3>7. M = r
      BY <3>2 DEF s
    <3> HIDE DEF r
    <3>8. /\ M \in Seq(MacOps) /\ Len(M) = 7 /\ M[1] = d1 /\ M[2] = d2 /\ M[3] = c1
          /\ M[4] = c2 /\ M[5] = v /\ M[6] = e1 /\ M[7] = e2
      BY <2>4, <3>5, <3>6, <3>7
    <3> QED BY <1>3, <2>7, <3>8 DEF d1, d2, c1, c2, v, e1, e2, M
  <2> QED BY <2>6, <2>7
<1> QED BY <1>1, <1>2, <1>3

(* The script of a download, and whether one is under way. *)
Loading == PhyPass[mcfg][FALSE]
Downloading == phase = "phy" /\ known /\ ~hasRam

(* Which script runs in which phase. *)
LEMMA ScriptIs ==
  ASSUME Types
  PROVE  /\ phase = "mac" => Script = MacScript
         /\ Downloading => Script = Loading
         /\ phase = "phy" /\ ~Downloading => Script = PhyPass[mcfg][TRUE]
         /\ phase = "table" => Script = PhyTable(mcfg)
         /\ phase \in {"phy", "table"} => Script \in Seq(Ops)
         /\ phase = "mac" => Script \in Seq(MacOps)
         /\ Loading \in Seq(Ops)
<1>1. mcfg \in Methods /\ known \in BOOLEAN /\ hasRam \in BOOLEAN /\ hwVer \in BOOLEAN
  BY DEF Types
<1>2. phase = "mac" => Script = MacScript
  BY DEF Script, MacScript
<1>3. phase = "table" => Script = PhyTable(mcfg)
  BY DEF Script
<1>4. ASSUME Downloading
      PROVE  Script = Loading
  <2>1. (~known \/ hasRam) = FALSE
    BY <1>4 DEF Downloading
  <2>2. Script = PhyPass[mcfg][~known \/ hasRam]
    BY <1>4 DEF Script, Downloading
  <2> QED BY <2>1, <2>2 DEF Loading
<1>5. ASSUME phase = "phy", ~Downloading
      PROVE  Script = PhyPass[mcfg][TRUE]
  <2>1. (~known \/ hasRam) = TRUE
    BY <1>1, <1>5 DEF Downloading
  <2>2. Script = PhyPass[mcfg][~known \/ hasRam]
    BY <1>5 DEF Script
  <2> QED BY <2>1, <2>2
<1>6. /\ PhyPass[mcfg][TRUE] \in Seq(Ops) /\ PhyTable(mcfg) \in Seq(Ops)
      /\ Loading \in Seq(Ops)
  BY <1>1, SkippedIs, Tables, PassIs DEF Table, Pass, Block, Loading
<1>7. MacScript \in Seq(MacOps)
  BY <1>1, MacScriptIs
<1> QED BY <1>2, <1>3, <1>4, <1>5, <1>6, <1>7

(* As long as its phase lasts, a script does not change. *)
LEMMA ScriptStays ==
  ASSUME UNCHANGED << mcfg, known, phase, hasRam, hwVer >>
  PROVE  Script' = Script /\ Busy' = Busy /\ Loading' = Loading
         /\ (Downloading' <=> Downloading)
<1>1. HwMacMcuConfig' = HwMacMcuConfig
  BY DEF HwMacMcuConfig
<1> QED BY <1>1 DEF Script, Busy, Loading, Downloading

(* The kinds of steps, with their effect field by field: the driver gets   *)
(* one operation further,                                                  *)
Stepping ==
  /\ step \in 1 .. Len(Script)
  /\ step' = step + 1 /\ polls' = 0
  /\ UNCHANGED << mcfg, known, phase, goal, hasRam, hwVer, keep, resume, cut >>

(* by a write to the PHY *)
PhyWritten ==
  /\ phase \in {"phy", "table"} /\ Stepping
  /\ Op \in Ops /\ Op.op \notin {"setRequest", "clearRequest"}
  /\ UNCHANGED << mac, late >>
  /\ phy'.code = IF Op.op = "code" THEN [phy.code EXCEPT ![Op.unit] = Op.image]
                 ELSE phy.code
  /\ phy'.aim = IF Op.op = "aim"
                THEN [phy.aim EXCEPT ![Op.unit] =
                                        [image |-> Op.image, hooks |-> Op.hooks]]
                ELSE phy.aim
  /\ phy'.enabled = IF Op.op = "enable"
                    THEN [phy.enabled EXCEPT ![Op.unit] = Op.hooks]
                    ELSE phy.enabled
  /\ phy'.data = IF Op.op = "data" THEN phy.data \cup {Op.image} ELSE phy.data
  /\ phy'.version = IF Op.op = "version" THEN Op.value ELSE phy.version
  /\ phy'.keyLock = IF Op.op = "keylock" THEN Op.open ELSE phy.keyLock
  /\ phy'.patchMode = IF Op.op = "patchMode" THEN Op.on
                      ELSE IF Op.op = "b820" THEN Op.mode ELSE phy.patchMode
  /\ phy'.request = IF Op.op = "b820" THEN Op.request ELSE phy.request
  /\ phy'.granted = phy.granted
  /\ phy'.tuned = IF Op.op = "parameters" /\ MayTune(Op.kind)
                  THEN phy.tuned \cup {Op.kind} ELSE phy.tuned

(* or to the MAC's microcontroller. *)
MacWritten ==
  /\ phase = "mac" /\ Stepping
  /\ Op \in MacOps
  /\ UNCHANGED << phy, late >>
  /\ mac'.code = IF Op.op = "macCode" THEN Op.image ELSE mac.code
  /\ mac'.version = IF Op.op = "macVersion" THEN Op.value ELSE mac.version
  /\ mac'.aim = IF Op.op = "macAim" THEN Op.aim ELSE mac.aim
  /\ mac'.enabled = IF Op.op = "macEnable" THEN Op.hooks ELSE mac.enabled

PhyWrite ==
  \/ WriteCode \/ AimHooks \/ EnableHooks \/ WriteData \/ WriteKeyLock
  \/ WritePatchMode \/ WriteB820 \/ WriteVersion \/ WriteParameters

MacWrite == WriteMacCode \/ WriteMacVersion \/ WriteMacAim \/ WriteMacEnable

(* The operation that is next is one of the phase's kind. *)
LEMMA OpIs ==
  ASSUME Types, NEW o, At(o)
  PROVE  /\ step \in 1 .. Len(Script) /\ Op.op = o
         /\ \/ phase \in {"phy", "table"} /\ Op \in Ops
            \/ phase = "mac" /\ Op \in MacOps
<1>1. Busy /\ step <= Len(Script) /\ Script[step].op = o
  BY DEF At
<1>2. phase \in {"phy", "table"} \/ phase = "mac"
  BY <1>1 DEF Busy
<1>3. step \in Nat /\ step >= 1
  BY DEF Types
<1>4. CASE phase \in {"phy", "table"}
  <2>1. Script \in Seq(Ops)
    BY <1>4, ScriptIs
  <2> HIDE DEF Ops
  <2>2. Len(Script) \in Nat
    BY <2>1, LenProperties
  <2>3. step \in 1 .. Len(Script)
    BY <1>1, <1>3, <2>2
  <2>4. Script[step] \in Ops
    BY <2>1, <2>3, ElementOfSeq
  <2> QED BY <1>1, <1>4, <2>3, <2>4 DEF Op
<1>5. CASE phase = "mac"
  <2>1. Script \in Seq(MacOps)
    BY <1>5, ScriptIs
  <2> HIDE DEF MacOps
  <2>2. Len(Script) \in Nat
    BY <2>1, LenProperties
  <2>3. step \in 1 .. Len(Script)
    BY <1>1, <1>3, <2>2
  <2>4. Script[step] \in MacOps
    BY <2>1, <2>3, ElementOfSeq
  <2> QED BY <1>1, <1>5, <2>3, <2>4 DEF Op
<1> QED BY <1>2, <1>4, <1>5

(* The writes of the model are of these kinds. *)
LEMMA PhyWrites ==
  ASSUME Types, PhyWrite
  PROVE  PhyWritten
<1>1. phy \in PhyStates
  BY DEF Types
<1>2. PICK o \in {"code", "aim", "enable", "data", "keylock", "patchMode", "b820",
                  "version", "parameters"} : At(o)
  BY DEF PhyWrite, WriteCode, AimHooks, EnableHooks, WriteData, WriteKeyLock,
         WritePatchMode, WriteB820, WriteVersion, WriteParameters
<1>3. step \in 1 .. Len(Script) /\ phase \in {"phy", "table"} /\ Op \in Ops
      /\ Op.op \notin {"setRequest", "clearRequest"}
  <2>1. Op \notin MacOps
    BY <1>2, OpIs DEF MacOps
  <2> QED BY <1>2, <2>1, OpIs
<1>4. \A q : At(q) => Op.op = q
  BY DEF At, Op
<1> USE DEF PhyWritten, Stepping, WritePhy, NextStep, PhyStates
<1>5. CASE WriteCode
  BY <1>1, <1>3, <1>4, <1>5 DEF WriteCode
<1>6. CASE AimHooks
  BY <1>1, <1>3, <1>4, <1>6 DEF AimHooks
<1>7. CASE EnableHooks
  BY <1>1, <1>3, <1>4, <1>7 DEF EnableHooks
<1>8. CASE WriteData
  BY <1>1, <1>3, <1>4, <1>8 DEF WriteData
<1>9. CASE WriteKeyLock
  BY <1>1, <1>3, <1>4, <1>9 DEF WriteKeyLock
<1>10. CASE WritePatchMode
  BY <1>1, <1>3, <1>4, <1>10 DEF WritePatchMode
<1>11. CASE WriteB820
  BY <1>1, <1>3, <1>4, <1>11 DEF WriteB820
<1>12. CASE WriteVersion
  BY <1>1, <1>3, <1>4, <1>12 DEF WriteVersion
<1>13. CASE WriteParameters
  BY <1>1, <1>3, <1>4, <1>13 DEF WriteParameters
<1> QED BY <1>5, <1>6, <1>7, <1>8, <1>9, <1>10, <1>11, <1>12, <1>13 DEF PhyWrite

(* Those to the MAC's microcontroller too. *)
LEMMA MacWrites ==
  ASSUME Types, MacWrite
  PROVE  MacWritten
<1>1. mac \in MacStates
  BY DEF Types
<1>2. PICK o \in {"macCode", "macVersion", "macAim", "macEnable"} : At(o)
  BY DEF MacWrite, WriteMacCode, WriteMacVersion, WriteMacAim, WriteMacEnable
<1>3. step \in 1 .. Len(Script) /\ phase = "mac" /\ Op \in MacOps
  <2>1. Op \notin Ops
    BY <1>2, OpIs DEF Ops
  <2> QED BY <1>2, <2>1, OpIs
<1>4. \A q : At(q) => Op.op = q
  BY DEF At, Op
<1> USE DEF MacWritten, Stepping, WriteMac, NextStep, MacStates
<1>5. CASE WriteMacCode
  BY <1>1, <1>3, <1>4, <1>5 DEF WriteMacCode
<1>6. CASE WriteMacVersion
  BY <1>1, <1>3, <1>4, <1>6 DEF WriteMacVersion
<1>7. CASE WriteMacAim
  BY <1>1, <1>3, <1>4, <1>7 DEF WriteMacAim
<1>8. CASE WriteMacEnable
  BY <1>1, <1>3, <1>4, <1>8 DEF WriteMacEnable
<1> QED BY <1>5, <1>6, <1>7, <1>8 DEF MacWrite

(* The steps of a patch request: it is written, polled and answered or     *)
(* given up.                                                               *)
CodeSame ==
  /\ phy'.code = phy.code /\ phy'.aim = phy.aim /\ phy'.enabled = phy.enabled
  /\ phy'.data = phy.data /\ phy'.version = phy.version
  /\ phy'.keyLock = phy.keyLock /\ phy'.patchMode = phy.patchMode

RestSame ==
  UNCHANGED << mcfg, known, phase, goal, step, hasRam, hwVer, keep, resume, mac,
               late, cut >>

Calling(on) ==
  /\ phase \in {"phy", "table"} /\ step \in 1 .. Len(Script)
  /\ Op \in Ops /\ Op.op = IF on THEN "setRequest" ELSE "clearRequest"

Asked(on) ==
  /\ Calling(on) /\ RestSame /\ CodeSame
  /\ polls' = 1
  /\ phy'.request = on /\ phy'.granted = phy.granted /\ phy'.tuned = phy.tuned

Polled(on) ==
  /\ Calling(on) /\ RestSame
  /\ polls > 0 /\ polls' = polls + 1
  /\ phy' = phy

Answered(on) ==
  /\ Calling(on) /\ Stepping
  /\ polls > 0
  /\ UNCHANGED << phy, mac >>
  /\ late' = IF on THEN ~phy.granted ELSE late

(* The calls consist of these steps. *)
LEMMA PatchCalls ==
  ASSUME Types, SetPhyMcuPatchRequest \/ ClearPhyMcuPatchRequest
  PROVE  \E on \in BOOLEAN : Asked(on) \/ Polled(on) \/ Answered(on)
<1>1. phy \in PhyStates /\ polls \in Nat /\ late \in BOOLEAN
  BY DEF Types
<1>2. kMaxPolls \in Nat /\ kMaxPolls > 0
  BY DownloadAssumption DEF DownloadAssumption
<1>3. CASE SetPhyMcuPatchRequest
  <2>1. At("setRequest")
    BY <1>3 DEF SetPhyMcuPatchRequest
  <2>2. Op \notin MacOps
    BY <2>1, OpIs DEF MacOps
  <2>3. Calling(TRUE)
    BY <2>1, <2>2, OpIs DEF Calling
  <2>4. CASE WriteRequest(TRUE)
    <3>1. RestSame /\ polls' = 1
      BY <2>4 DEF WriteRequest, RestSame
    <3>2. CodeSame /\ phy'.request = TRUE /\ phy'.granted = phy.granted
          /\ phy'.tuned = phy.tuned
      BY <1>1, <2>4 DEF WriteRequest, CodeSame, PhyStates
    <3> QED BY <2>3, <3>1, <3>2 DEF Asked
  <2>5. CASE polls > 0 /\ ~phy.granted /\ PollAgain
    BY <2>3, <2>5 DEF PollAgain, Polled, RestSame
  <2>6. CASE /\ (polls > 0 /\ phy.granted) \/ polls = kMaxPolls
             /\ late' = ~phy.granted
             /\ NextStep /\ UNCHANGED <<phy, mac>>
    <3>1. polls > 0
      BY <1>2, <2>6
    <3>2. Answered(TRUE)
      BY <2>3, <2>6, <3>1 DEF Answered, NextStep, Stepping, Calling
    <3> QED BY <3>2
  <2> QED BY <1>3, <2>4, <2>5, <2>6 DEF SetPhyMcuPatchRequest
<1>4. CASE ClearPhyMcuPatchRequest
  <2>1. At("clearRequest")
    BY <1>4 DEF ClearPhyMcuPatchRequest
  <2>2. Op \notin MacOps
    BY <2>1, OpIs DEF MacOps
  <2>3. Calling(FALSE)
    BY <2>1, <2>2, OpIs DEF Calling
  <2>4. CASE WriteRequest(FALSE)
    <3>1. RestSame /\ polls' = 1
      BY <2>4 DEF WriteRequest, RestSame
    <3>2. CodeSame /\ phy'.request = FALSE /\ phy'.granted = phy.granted
          /\ phy'.tuned = phy.tuned
      BY <1>1, <2>4 DEF WriteRequest, CodeSame, PhyStates
    <3> QED BY <2>3, <3>1, <3>2 DEF Asked
  <2>5. CASE polls > 0 /\ phy.granted /\ PollAgain
    BY <2>3, <2>5 DEF PollAgain, Polled, RestSame
  <2>6. CASE /\ (polls > 0 /\ ~phy.granted) \/ polls = kMaxPolls
             /\ NextStep /\ UNCHANGED <<phy, mac, late>>
    <3>1. polls > 0
      BY <1>2, <2>6
    <3>2. Answered(FALSE)
      BY <2>3, <2>6, <3>1 DEF Answered, NextStep, Stepping, Calling
    <3> QED BY <3>2
  <2> QED BY <1>4, <2>4, <2>5, <2>6 DEF ClearPhyMcuPatchRequest
<1> QED BY <1>3, <1>4

(* The PHY grants a request or takes the grant back. *)
Signalled ==
  /\ RestSame /\ CodeSame /\ polls' = polls
  /\ phy'.request = phy.request /\ phy'.tuned = phy.tuned
  /\ \/ phy.request = TRUE /\ phy'.granted = TRUE
     \/ phy.request = FALSE /\ phy'.granted = FALSE

(* Nothing else changes when it does. *)
LEMMA Signals ==
  ASSUME Types, Grant \/ Withdraw
  PROVE  Signalled
<1>1. phy \in PhyStates
  BY DEF Types
<1>2. RestSame /\ polls' = polls
  BY DEF Grant, Withdraw, RestSame, sw
<1>3. CodeSame /\ phy'.request = phy.request /\ phy'.tuned = phy.tuned
  BY <1>1 DEF Grant, Withdraw, CodeSame, PhyStates
<1>4. \/ phy.request = TRUE /\ phy'.granted = TRUE
      \/ phy.request = FALSE /\ phy'.granted = FALSE
  BY <1>1 DEF Grant, Withdraw, PhyStates
<1> QED BY <1>2, <1>3, <1>4 DEF Signalled

(* A script ends and the next phase begins. *)
Ended(from, to) ==
  /\ phase = from /\ phase' = to
  /\ step = Len(Script) + 1 /\ step' = 1 /\ polls' = 0
  /\ UNCHANGED << mcfg, known, goal, hwVer, keep, resume, mac, late, cut >>
  /\ CodeSame /\ phy'.request = phy.request /\ phy'.granted = phy.granted

Ends ==
  \/ Ended("mac", "idle") /\ goal = "idle" /\ UNCHANGED << hasRam, phy >>
  \/ Ended("mac", "up") /\ goal = "up" /\ resume /\ UNCHANGED << hasRam, phy >>
  \/ /\ Ended("mac", "phy") /\ goal = "up" /\ ~resume
     /\ phy'.tuned = {} /\ UNCHANGED hasRam
  \/ Ended("phy", "table") /\ hasRam' = (hasRam \/ known) /\ UNCHANGED phy
  \/ Ended("table", "up") /\ UNCHANGED << hasRam, phy >>

(* These are the phases that follow one another. *)
LEMMA ScriptEnds ==
  ASSUME Types, EndOfScript
  PROVE  Ends
<1>1. phy \in PhyStates
  BY DEF Types
<1>2. \A to : Enter(to) => /\ phase' = to /\ step' = 1 /\ polls' = 0
                           /\ UNCHANGED << mcfg, known, goal, hwVer, keep, resume,
                                           mac, late, cut >>
  BY DEF Enter
<1>3. step = Len(Script) + 1
  BY DEF EndOfScript
<1>4. CASE UNCHANGED phy
  <2>1. CodeSame /\ phy'.request = phy.request /\ phy'.granted = phy.granted
    BY <1>4 DEF CodeSame
  <2>2. CASE /\ phase = "mac" /\ goal = "up" /\ ~resume /\ Enter("phy")
             /\ phy' = [phy EXCEPT !.tuned = {}] /\ UNCHANGED hasRam
    BY <1>1, <1>2, <1>3, <2>1, <2>2 DEF Ends, Ended, PhyStates
  <2>3. CASE ~(/\ phase = "mac" /\ goal = "up" /\ ~resume /\ Enter("phy")
               /\ phy' = [phy EXCEPT !.tuned = {}] /\ UNCHANGED hasRam)
    BY <1>2, <1>3, <2>1, <2>3 DEF EndOfScript, Ends, Ended
  <2> QED BY <2>2, <2>3
<1>5. CASE ~UNCHANGED phy
  <2>1. /\ phase = "mac" /\ goal = "up" /\ ~resume /\ Enter("phy")
        /\ phy' = [phy EXCEPT !.tuned = {}] /\ UNCHANGED hasRam
    BY <1>5 DEF EndOfScript
  <2>2. CodeSame /\ phy'.request = phy.request /\ phy'.granted = phy.granted
        /\ phy'.tuned = {}
    BY <1>1, <2>1 DEF CodeSame, PhyStates
  <2> QED BY <1>2, <1>3, <2>1, <2>2 DEF Ends, Ended
<1> QED BY <1>4, <1>5

(* Every step is of one of these kinds. *)
LEMMA StepKinds ==
  ASSUME Types, [DownloadNext]_downloadVars
  PROVE  \/ PhyWritten \/ MacWritten
         \/ \E on \in BOOLEAN : Asked(on) \/ Polled(on) \/ Answered(on)
         \/ Ends \/ Attach \/ Rtl812xEnable \/ Rtl812xDisable
         \/ Signalled \/ Stop \/ LosePower \/ UNCHANGED downloadVars
<1>1. Write => \/ PhyWrite \/ MacWrite
               \/ SetPhyMcuPatchRequest \/ ClearPhyMcuPatchRequest
  BY DEF Write, PhyWrite, MacWrite
<1> QED BY <1>1, PhyWrites, MacWrites, PatchCalls, ScriptEnds, Signals
        DEF DownloadNext, Driver

(* The states in which a chip is found. *)
LEMMA PoweredOnIs ==
  /\ PhyPoweredOn \in PhyStates /\ PhyOfOther \in PhyStates
  /\ MacPoweredOn \in MacStates /\ MacOfOther \in MacStates
  /\ PhyPoweredOn.code = [u \in Units |-> "rom"]
  /\ PhyPoweredOn.enabled = [u \in Units |-> {}]
  /\ PhyPoweredOn.data = {} /\ PhyPoweredOn.version = "none"
  /\ ~PhyPoweredOn.keyLock /\ ~PhyPoweredOn.patchMode
  /\ ~PhyPoweredOn.request /\ ~PhyPoweredOn.granted
  /\ PhyOfOther.code = [u \in Units |-> "other"]
  /\ PhyOfOther.aim = [u \in Units |-> [image |-> "other", hooks |-> Hooks]]
  /\ PhyOfOther.enabled = [u \in Units |-> Hooks]
  /\ PhyOfOther.data = {} /\ PhyOfOther.version = "other"
  /\ ~PhyOfOther.keyLock /\ ~PhyOfOther.patchMode
  /\ ~PhyOfOther.request /\ ~PhyOfOther.granted
<1>1. "none" \in Names /\ "rom" \in Names /\ "other" \in Names
  BY DEF Names
<1>2. PhyPoweredOn \in PhyStates
  BY <1>1 DEF PhyPoweredOn, PhyStates, NoAim
<1>3. /\ PhyOfOther.code = [u \in Units |-> "other"]
      /\ PhyOfOther.aim = [u \in Units |-> [image |-> "other", hooks |-> Hooks]]
      /\ PhyOfOther.enabled = [u \in Units |-> Hooks]
      /\ PhyOfOther.data = {} /\ PhyOfOther.version = "other"
      /\ ~PhyOfOther.keyLock /\ ~PhyOfOther.patchMode
      /\ ~PhyOfOther.request /\ ~PhyOfOther.granted
  BY DEF PhyOfOther, PhyPoweredOn
<1>4. PhyOfOther \in PhyStates
  BY <1>1 DEF PhyOfOther, PhyPoweredOn, PhyStates
<1>5. MacPoweredOn \in MacStates /\ MacOfOther \in MacStates
  BY <1>1 DEF MacPoweredOn, MacOfOther, MacStates, MacAims, NoAim
<1>6. /\ PhyPoweredOn.code = [u \in Units |-> "rom"]
      /\ PhyPoweredOn.enabled = [u \in Units |-> {}]
      /\ PhyPoweredOn.data = {} /\ PhyPoweredOn.version = "none"
      /\ ~PhyPoweredOn.keyLock /\ ~PhyPoweredOn.patchMode
      /\ ~PhyPoweredOn.request /\ ~PhyPoweredOn.granted
  BY DEF PhyPoweredOn
<1> QED BY <1>2, <1>3, <1>4, <1>5, <1>6

(* The types hold at the start *)
LEMMA TypesInit ==
  ASSUME DownloadInit
  PROVE  Types
<1>1. phy \in PhyStates /\ mac \in MacStates
  BY PoweredOnIs DEF DownloadInit
<1>2. step \in Nat /\ step >= 1 /\ polls \in Nat
  BY DEF DownloadInit
<1>3. /\ mcfg \in Methods /\ known \in BOOLEAN
      /\ phase \in Phases /\ goal \in {"idle", "up"}
  BY DEF DownloadInit, Phases
<1>4. /\ hasRam \in BOOLEAN /\ hwVer \in BOOLEAN
      /\ keep \in BOOLEAN /\ resume \in BOOLEAN
      /\ late \in BOOLEAN /\ cut \in BOOLEAN
  BY Zenon DEF DownloadInit
<1> QED BY <1>1, <1>2, <1>3, <1>4 DEF Types

(* The PHY's record keeps its shape. *)
LEMMA PhyStays ==
  ASSUME Types, [DownloadNext]_downloadVars
  PROVE  phy' \in PhyStates
<1>1. phy \in PhyStates
  BY DEF Types
<1>2. CASE PhyWrite
  <2>1. PhyWritten
    BY <1>2, PhyWrites
  <2>2. /\ phy.code \in [Units -> Names] /\ phy.enabled \in [Units -> SUBSET Hooks]
        /\ phy.aim \in [Units -> [image : Names, hooks : SUBSET Hooks]]
        /\ phy.data \in SUBSET Names /\ phy.version \in Names
        /\ phy.tuned \in SUBSET Names
        /\ phy.keyLock \in BOOLEAN /\ phy.patchMode \in BOOLEAN
        /\ phy.request \in BOOLEAN /\ phy.granted \in BOOLEAN
    BY <1>1 DEF PhyStates
  <2>3. Op \in Ops /\ \A o : At(o) => Op.op = o
    BY <2>1 DEF PhyWritten, At, Op
  <2> HIDE DEF Units, Names, Hooks
  <2>4. CASE WriteCode
    BY <1>1, <2>3, <2>4 DEF WriteCode, WritePhy, Ops, PhyStates
  <2>5. CASE AimHooks
    BY <1>1, <2>3, <2>5 DEF AimHooks, WritePhy, Ops, PhyStates
  <2>6. CASE EnableHooks
    BY <1>1, <2>3, <2>6 DEF EnableHooks, WritePhy, Ops, PhyStates
  <2>7. CASE WriteData
    BY <1>1, <2>3, <2>7 DEF WriteData, WritePhy, Ops, PhyStates
  <2>8. CASE WriteKeyLock
    BY <1>1, <2>3, <2>8 DEF WriteKeyLock, WritePhy, Ops, PhyStates
  <2>9. CASE WritePatchMode
    BY <1>1, <2>3, <2>9 DEF WritePatchMode, WritePhy, Ops, PhyStates
  <2>10. CASE WriteB820
    BY <1>1, <2>3, <2>10 DEF WriteB820, WritePhy, Ops, PhyStates
  <2>11. CASE WriteVersion
    BY <1>1, <2>3, <2>11 DEF WriteVersion, WritePhy, Ops, PhyStates
  <2>12. CASE WriteParameters
    BY <1>1, <2>3, <2>12 DEF WriteParameters, WritePhy, Ops, PhyStates
  <2> QED BY <1>2, <2>4, <2>5, <2>6, <2>7, <2>8, <2>9, <2>10, <2>11, <2>12 DEF PhyWrite
<1>3. CASE SetPhyMcuPatchRequest \/ ClearPhyMcuPatchRequest
  <2>1. \/ phy' = phy
        \/ phy' = [phy EXCEPT !.request = TRUE]
        \/ phy' = [phy EXCEPT !.request = FALSE]
    BY <1>3 DEF SetPhyMcuPatchRequest, ClearPhyMcuPatchRequest, WriteRequest, PollAgain
  <2> QED BY <1>1, <2>1 DEF PhyStates
<1>4. CASE EndOfScript
  BY <1>1, <1>4 DEF EndOfScript, PhyStates
<1>5. CASE Grant \/ Withdraw
  BY <1>1, <1>5 DEF Grant, Withdraw, PhyStates
<1>6. CASE LosePower
  BY <1>6, PoweredOnIs DEF LosePower
<1>7. CASE \/ MacWrite \/ Attach \/ Rtl812xEnable \/ Rtl812xDisable \/ Stop
           \/ UNCHANGED downloadVars
  <2>1. phy' = phy
    BY <1>7 DEF MacWrite, WriteMacCode, WriteMacVersion, WriteMacAim, WriteMacEnable,
       WriteMac, Attach, Rtl812xEnable, StartPass, Rtl812xDisable, Stop, downloadVars
  <2> QED BY <1>1, <2>1
<1> QED BY <1>2, <1>3, <1>4, <1>5, <1>6, <1>7
        DEF DownloadNext, Driver, Write, PhyWrite, MacWrite

(* and every step keeps them. *)
LEMMA TypesStep ==
  ASSUME Types, [DownloadNext]_downloadVars
  PROVE  Types'
<1>1. phy' \in PhyStates
  BY PhyStays
<1>2. mac' \in MacStates
  <2>1. CASE MacWrite
    <3>1. MacWritten
      BY <2>1, MacWrites
    <3>2. Op \in MacOps /\ \A o : At(o) => Op.op = o
      BY <3>1 DEF MacWritten, At, Op
    <3>3. mac \in MacStates
      BY DEF Types
    <3> HIDE DEF Names, MacHooks, MacAims
    <3> QED BY <2>1, <3>2, <3>3
            DEF MacWrite, WriteMacCode, WriteMacVersion, WriteMacAim, WriteMacEnable,
                WriteMac, MacStates, MacOps
  <2>2. CASE LosePower
    BY <2>2, PoweredOnIs DEF LosePower
  <2>3. CASE ~MacWrite /\ ~LosePower
    <3>1. PhyWrite => mac' = mac
      BY PhyWrites DEF PhyWritten
    <3>2. SetPhyMcuPatchRequest \/ ClearPhyMcuPatchRequest => mac' = mac
      BY PatchCalls DEF Asked, Polled, Answered, RestSame
    <3>3. EndOfScript \/ Grant \/ Withdraw => mac' = mac
      BY ScriptEnds, Signals DEF Ends, Ended, Signalled, RestSame
    <3>4. (Attach \/ Rtl812xEnable \/ Rtl812xDisable \/ Stop \/ UNCHANGED downloadVars)
            => mac' = mac
      BY DEF Attach, Rtl812xEnable, StartPass, Rtl812xDisable, Stop, downloadVars
    <3>5. mac' = mac
      BY <2>3, <3>1, <3>2, <3>3, <3>4
         DEF DownloadNext, Driver, Write, PhyWrite, MacWrite
    <3> QED BY <3>5 DEF Types
  <2> QED BY <2>1, <2>2, <2>3
<1>3. mcfg' \in Methods /\ known' \in BOOLEAN
  <2>1. UNCHANGED << mcfg, known >>
    BY StepKinds DEF PhyWritten, MacWritten, Stepping, Asked, Polled, Answered,
       RestSame, Ends, Ended, Attach, Rtl812xEnable, StartPass, Rtl812xDisable,
       Signalled, Stop, LosePower, downloadVars
  <2> QED BY <2>1 DEF Types
<1>4. phase' \in Phases /\ goal' \in {"idle", "up"}
  BY StepKinds DEF PhyWritten, MacWritten, Stepping, Asked, Polled, Answered,
     RestSame, Ends, Ended, Attach, Rtl812xEnable, StartPass, Rtl812xDisable,
     Signalled, Stop, LosePower, downloadVars, sw, Types, Phases
<1>5. step' \in Nat /\ step' >= 1
  <2>1. \/ step' = step \/ step' = step + 1 \/ step' = 1
    BY StepKinds DEF PhyWritten, MacWritten, Stepping, Asked, Polled, Answered,
       RestSame, Ends, Ended, Attach, Rtl812xEnable, StartPass, Rtl812xDisable,
       Signalled, Stop, LosePower, downloadVars, sw
  <2> QED BY <2>1 DEF Types
<1>6. polls' \in Nat
  <2>1. \/ polls' = polls \/ polls' = polls + 1 \/ polls' = 1 \/ polls' = 0
    BY StepKinds DEF PhyWritten, MacWritten, Stepping, Asked, Polled, Answered,
       RestSame, Ends, Ended, Attach, Rtl812xEnable, StartPass, Rtl812xDisable,
       Signalled, Stop, LosePower, downloadVars, sw
  <2> QED BY <2>1 DEF Types
<1>7. hasRam' \in BOOLEAN /\ hwVer' \in BOOLEAN
  <2>1. \/ hasRam' = hasRam /\ hwVer' = hwVer
        \/ hasRam' = CheckHwPhyMcuCodeVer /\ hwVer' = MacIsCurrent
        \/ hasRam' = (hasRam \/ known) /\ hwVer' = hwVer
        \/ hasRam' = FALSE /\ hwVer' = FALSE
    BY StepKinds DEF PhyWritten, MacWritten, Stepping, Asked, Polled, Answered,
       RestSame, Ends, Ended, Attach, Rtl812xEnable, StartPass, Rtl812xDisable,
       Signalled, Stop, LosePower, downloadVars, sw
  <2> QED BY <2>1, Zenon DEF Types, CheckHwPhyMcuCodeVer, MacIsCurrent
<1>8. keep' \in BOOLEAN /\ resume' \in BOOLEAN
  BY StepKinds DEF PhyWritten, MacWritten, Stepping, Asked, Polled, Answered,
     RestSame, Ends, Ended, Attach, Rtl812xEnable, StartPass, Rtl812xDisable,
     Signalled, Stop, LosePower, downloadVars, sw, Types
<1>9. late' \in BOOLEAN /\ cut' \in BOOLEAN
  <2>1. \/ late' = late \/ late' = ~phy.granted \/ late' = FALSE
    BY StepKinds DEF PhyWritten, MacWritten, Asked, Polled, Answered,
       RestSame, Ends, Ended, Attach, Rtl812xEnable, StartPass, Rtl812xDisable,
       Signalled, Stop, LosePower, downloadVars
  <2>2. \/ cut' = cut \/ cut' = (cut \/ Announced) \/ cut' = FALSE
    BY StepKinds DEF PhyWritten, MacWritten, Stepping, Asked, Polled, Answered,
       RestSame, Ends, Ended, Attach, Rtl812xEnable, StartPass, Rtl812xDisable,
       Signalled, Stop, LosePower, downloadVars
  <2> QED BY <2>1, <2>2, Zenon DEF Types, Announced
<1> QED BY <1>1, <1>2, <1>3, <1>4, <1>5, <1>6, <1>7, <1>8, <1>9 DEF Types

-----------------------------------------------------------------------------
(* The MAC's microcontroller                                               *)

(* The length of the script that touches the MAC's microcontroller, and    *)
(* what it aims the hooks at.                                              *)
MacLen == IF mcfg \notin MacMcuMethods THEN 2 ELSE IF hwVer THEN 4 ELSE 7

MacAim == [image |-> SetMacMcu(mcfg).image, hooks |-> SetMacMcu(mcfg).aimed]

(* How far the script has got: the hooks stay off until the last           *)
(* operation, the version is shown only after the code, and the hooks are  *)
(* aimed before that.                                                      *)
MacLoading ==
  /\ hwVer => MacIsCurrent
  /\ step > 1 /\ ~(step > MacLen /\ mcfg \in MacMcuMethods) => mac.enabled = {}
  /\ mcfg \in MacMcuMethods =>
       /\ ~hwVer /\ step <= 5 => ~MacIsCurrent
       /\ ~hwVer /\ step > 4 => mac.code = SetMacMcu(mcfg).image
       /\ step = MacLen => mac.aim = MacAim

(* The inductive invariant of the MAC's microcontroller. *)
MacInv ==
  /\ MacHooksAimed
  /\ MacIsCurrent => mac.code = SetMacMcu(mcfg).image
  /\ phase = "mac" /\ known => MacLoading

(* It holds of a chip that was powered on and of one that another driver   *)
(* has left,                                                               *)
LEMMA MacInit ==
  ASSUME DownloadInit
  PROVE  MacInv
<1>1. mcfg \in MacMcuMethods => SetMacMcu(mcfg).image \notin {"none", "other"}
  BY MacPatches
<1>2. /\ MacPoweredOn.version = "none" /\ MacPoweredOn.enabled = {}
      /\ MacOfOther.version = "other" /\ MacOfOther.enabled = MacHooks
      /\ MacOfOther.aim.image = MacOfOther.code /\ MacOfOther.aim.hooks = MacHooks
  BY DEF MacPoweredOn, MacOfOther
<1>3. mac = MacPoweredOn \/ mac = MacOfOther
  BY DEF DownloadInit
<1>4. ~MacIsCurrent
  BY <1>1, <1>2, <1>3 DEF MacIsCurrent
<1>5. MacHooksAimed
  BY <1>2, <1>3 DEF MacHooksAimed
<1> QED BY <1>4, <1>5 DEF MacInv, DownloadInit

(* as long as the microcontroller is left alone, *)
LEMMA MacUntouched ==
  ASSUME MacInv, UNCHANGED << mac, mcfg, known >>,
         \/ phase' # "mac"
         \/ UNCHANGED << phase, hwVer, step >>
         \/ step' = 1 /\ hwVer' = MacIsCurrent
  PROVE  MacInv'
<1>1. (MacIsCurrent' <=> MacIsCurrent) /\ (MacHooksAimed' <=> MacHooksAimed)
  BY DEF MacIsCurrent, MacHooksAimed
<1>2. SetMacMcu(mcfg)' = SetMacMcu(mcfg)
  BY DEF SetMacMcu
<1>3. MacHooksAimed' /\ (MacIsCurrent' => mac'.code = SetMacMcu(mcfg)'.image)
  BY <1>1, <1>2 DEF MacInv
<1>4. ASSUME UNCHANGED << phase, hwVer, step >>
      PROVE  phase' = "mac" /\ known' => MacLoading'
  <2>1. MacLen' = MacLen /\ MacAim' = MacAim
    BY <1>4, <1>2 DEF MacLen, MacAim
  <2> QED BY <1>1, <1>2, <1>4, <2>1 DEF MacInv, MacLoading
<1>5. ASSUME step' = 1, hwVer' = MacIsCurrent
      PROVE  MacLoading'
  <2>1. MacLen' \in {2, 4, 7}
    BY DEF MacLen
  <2>2. hwVer' <=> MacIsCurrent
    BY <1>5
  <2> QED BY <1>1, <1>5, <2>1, <2>2 DEF MacLoading
<1> QED BY <1>3, <1>4, <1>5 DEF MacInv

(* when the power was lost *)
LEMMA MacPowerLost ==
  ASSUME Types, LosePower
  PROVE  MacInv'
<1>1. mcfg \in MacMcuMethods => SetMacMcu(mcfg).image \notin {"none", "other"}
  BY MacPatches
<1>2. mac' = MacPoweredOn /\ mcfg' = mcfg /\ phase' = phase /\ phase # "mac"
  BY DEF LosePower, sw
<1>3. mac'.version = "none" /\ mac'.enabled = {}
  BY <1>2 DEF MacPoweredOn
<1>4. ~MacIsCurrent'
  BY <1>1, <1>2, <1>3 DEF MacIsCurrent
<1> QED BY <1>2, <1>3, <1>4 DEF MacInv, MacHooksAimed

(* and after each of its writes; *)
LEMMA MacAdvances ==
  ASSUME Types, MacInv, MacWritten
  PROVE  MacInv'
<1>1. /\ mcfg \in Methods /\ known \in BOOLEAN /\ hwVer \in BOOLEAN
      /\ mac \in MacStates
  BY DEF Types
<1>2. phase = "mac" /\ Script = MacScript
  BY ScriptIs DEF MacWritten
<1>3. /\ step \in 1 .. Len(MacScript) /\ Op = MacScript[step]
      /\ step' = step + 1
      /\ UNCHANGED << mcfg, known, phase, hwVer >>
  BY <1>2 DEF MacWritten, Stepping, Op
<1>4. known
  BY <1>1, <1>3, MacScriptIs
<1>5. Len(MacScript) = MacLen
  BY <1>1, <1>4, MacScriptIs DEF MacLen
<1>6. MacLoading
  BY <1>2, <1>4 DEF MacInv
<1> DEFINE p == SetMacMcu(mcfg)
<1>7. SetMacMcu(mcfg)' = p /\ MacLen' = MacLen /\ MacAim' = MacAim
  BY <1>3 DEF SetMacMcu, MacLen, MacAim
<1>8. /\ mac'.code = IF Op.op = "macCode" THEN Op.image ELSE mac.code
      /\ mac'.version = IF Op.op = "macVersion" THEN Op.value ELSE mac.version
      /\ mac'.aim = IF Op.op = "macAim" THEN Op.aim ELSE mac.aim
      /\ mac'.enabled = IF Op.op = "macEnable" THEN Op.hooks ELSE mac.enabled
  BY DEF MacWritten
<1>9. MacIsCurrent' <=> mcfg \in MacMcuMethods /\ mac'.version = p.image
  BY <1>3, <1>7 DEF MacIsCurrent
<1>10. MacIsCurrent <=> mcfg \in MacMcuMethods /\ mac.version = p.image
  BY DEF MacIsCurrent
<1>11. mcfg \in MacMcuMethods =>
         /\ p.image \notin {"none", "torn"}
         /\ p.enabled \subseteq p.aimed \cup (IF p.image = "8125b_2" THEN {6} ELSE {})
  BY MacPatches
<1> HIDE DEF p
<1>12. CASE step = 1
  <2>1. Op = [op |-> "macEnable", hooks |-> {}]
    BY <1>1, <1>3, <1>4, <1>12, MacScriptIs
  <2>2. mac'.enabled = {} /\ mac'.version = mac.version /\ mac'.code = mac.code
    BY <1>8, <2>1
  <2> QED BY <1>3, <1>6, <1>7, <1>9, <1>10, <1>12, <2>2
          DEF MacInv, MacLoading, MacLen, MacHooksAimed, p
<1>13. CASE step = 2
  <2>1. Op = [op |-> "macAim", aim |-> NoAim]
    BY <1>1, <1>3, <1>4, <1>13, MacScriptIs
  <2>2. mac'.enabled = mac.enabled /\ mac'.version = mac.version /\ mac'.code = mac.code
    BY <1>8, <2>1
  <2>3. mac.enabled = {}
    BY <1>6, <1>13 DEF MacLoading, MacLen
  <2> QED BY <1>3, <1>6, <1>7, <1>9, <1>10, <1>13, <2>2, <2>3
          DEF MacInv, MacLoading, MacLen, MacHooksAimed, p
<1>14. CASE step > 2
  <2>1. mcfg \in MacMcuMethods
    BY <1>3, <1>5, <1>14 DEF MacLen
  <2>2. mac.enabled = {}
    BY <1>3, <1>5, <1>6, <1>14 DEF MacLoading
  <2>3. CASE step = MacLen - 1
    <3>1. Op = [op |-> "macAim", aim |-> MacAim]
      BY <1>1, <1>3, <1>4, <2>1, <2>3, MacScriptIs DEF MacLen, MacAim
    <3>2. /\ mac'.enabled = mac.enabled /\ mac'.version = mac.version
          /\ mac'.code = mac.code
          /\ mac'.aim = MacAim
      BY <1>8, <3>1
    <3>3. MacLen \in {4, 7} /\ (hwVer <=> MacLen = 4)
      BY <2>1 DEF MacLen
    <3> QED BY <1>3, <1>6, <1>7, <1>9, <1>10, <1>14, <2>1, <2>2, <2>3, <3>2, <3>3
            DEF MacInv, MacLoading, MacHooksAimed, p
  <2>4. CASE step = MacLen
    <3>1. Op = [op |-> "macEnable", hooks |-> p.enabled]
      BY <1>1, <1>3, <1>4, <2>1, <2>4, MacScriptIs DEF MacLen, p
    <3>2. mac'.version = mac.version /\ mac'.code = mac.code
          /\ mac'.aim = mac.aim /\ mac'.enabled = p.enabled
      BY <1>8, <3>1
    <3>3. MacLen \in {4, 7} /\ (hwVer <=> MacLen = 4)
      BY <2>1 DEF MacLen
    <3>4. mac.aim = MacAim /\ mac.code = p.image
      BY <1>6, <1>1, <2>1, <2>4, <3>3 DEF MacLoading, MacInv, p
    <3>5. mac'.aim.image = p.image /\ mac'.aim.hooks = p.aimed /\ mac'.code = p.image
      BY <3>2, <3>4 DEF MacAim, p
    <3>6. MacHooksAimed'
      BY <1>11, <2>1, <3>2, <3>5 DEF MacHooksAimed
    <3> QED BY <1>3, <1>6, <1>7, <1>9, <1>10, <2>1, <2>4, <3>2, <3>3, <3>5, <3>6
            DEF MacInv, MacLoading, p
  <2>5. CASE step # MacLen /\ step # MacLen - 1
    <3>1. ~hwVer /\ step \in {3, 4, 5} /\ MacLen = 7
      BY <1>3, <1>5, <1>14, <2>1, <2>5 DEF MacLen
    <3>2. CASE step = 3 \/ step = 4
      <4>1. Op.op = "macCode" /\ (step = 4 => Op.image = p.image)
        BY <1>1, <1>3, <1>4, <2>1, <3>1, <3>2, MacScriptIs DEF p
      <4>2. mac'.enabled = mac.enabled /\ mac'.version = mac.version
            /\ (step = 4 => mac'.code = p.image)
        BY <1>8, <4>1
      <4> QED BY <1>3, <1>6, <1>7, <1>9, <1>10, <2>1, <2>2, <3>1, <3>2, <4>2
              DEF MacInv, MacLoading, MacHooksAimed, p
    <3>3. CASE step = 5
      <4>1. Op = [op |-> "macVersion", value |-> p.image]
        BY <1>1, <1>3, <1>4, <2>1, <3>1, <3>3, MacScriptIs DEF p
      <4>2. mac'.enabled = mac.enabled /\ mac'.code = mac.code
        BY <1>8, <4>1
      <4>3. mac.code = p.image
        BY <1>6, <2>1, <3>1, <3>3 DEF MacLoading, p
      <4> QED BY <1>3, <1>6, <1>7, <1>9, <1>10, <2>1, <2>2, <3>1, <3>3, <4>2, <4>3
              DEF MacInv, MacLoading, MacHooksAimed, p
    <3> QED BY <3>1, <3>2, <3>3
  <2> QED BY <2>3, <2>4, <2>5
<1> QED BY <1>3, <1>12, <1>13, <1>14

(* hence after every step. *)
LEMMA MacStep ==
  ASSUME Types, MacInv, [DownloadNext]_downloadVars
  PROVE  MacInv'
<1>1. CASE MacWritten
  BY <1>1, MacAdvances
<1>2. CASE LosePower
  BY <1>2, MacPowerLost
<1>3. CASE ~MacWritten /\ ~LosePower
  <2> DEFINE Quiet == /\ UNCHANGED << mac, mcfg, known >>
                      /\ \/ phase' # "mac"
                         \/ UNCHANGED << phase, hwVer, step >>
                         \/ step' = 1 /\ hwVer' = MacIsCurrent
  <2>1. Attach \/ Rtl812xEnable => Quiet
    BY DEF Attach, Rtl812xEnable, StartPass
  <2>2. Signalled \/ Stop \/ Rtl812xDisable => Quiet
    BY DEF Signalled, Stop, Rtl812xDisable, RestSame
  <2>3. UNCHANGED downloadVars => Quiet
    BY DEF downloadVars, sw
  <2>4. Ends => Quiet
    BY DEF Ends, Ended
  <2>5. PhyWritten => Quiet
    BY DEF PhyWritten, Stepping
  <2>6. ASSUME NEW on \in BOOLEAN
        PROVE  Asked(on) \/ Polled(on) \/ Answered(on) => Quiet
    BY DEF Asked, Polled, Answered, Calling, Stepping, RestSame
  <2>7. Quiet
    <3> HIDE DEF Quiet
    <3> QED BY <1>3, <2>1, <2>2, <2>3, <2>4, <2>5, <2>6, StepKinds
  <2> QED BY <2>7, MacUntouched
<1> QED BY <1>1, <1>2, <1>3

(* The types hold throughout. *)
THEOREM DownloadTypes == DownloadSpec => []Types
<1>1. DownloadInit => Types
  BY TypesInit
<1>2. Types /\ [DownloadNext]_downloadVars => Types'
  BY TypesStep
<1> QED BY <1>1, <1>2, PTL DEF DownloadSpec

(* Over stops between any two writes, power losses and passes of other     *)
(* drivers, the enabled hooks of the MAC's microcontroller are aimed by    *)
(* the code that is there: rtl812x_hw_mac_mcu_config() turns them off      *)
(* first.                                                                  *)
THEOREM MacHooksStayAimed == DownloadSpec => []MacHooksAimed
<1>1. DownloadInit => MacInv
  BY MacInit
<1>2. Types /\ MacInv /\ [DownloadNext]_downloadVars => MacInv'
  BY MacStep
<1>3. MacInv => MacHooksAimed
  BY DEF MacInv
<1> QED BY <1>1, <1>2, <1>3, DownloadTypes, PTL DEF DownloadSpec

-----------------------------------------------------------------------------
(* Writing while the PHY is stopped                                        *)

(* A script of the PHY runs. *)
InScripts == phase \in {"phy", "table"}

(* While a call polls, the request is what it has written. *)
PollInv ==
  InScripts /\ polls > 0 => /\ At("setRequest") => phy.request = TRUE
                            /\ At("clearRequest") => phy.request = FALSE

(* Where the script holds a request, the PHY shows it, and has granted it  *)
(* or was given up.                                                        *)
HeldInv ==
  InScripts /\ HeldAt(Script, step) /\ ~(At("clearRequest") /\ polls > 0) =>
    phy.request = TRUE /\ (phy.granted \/ late)

(* What is held after an operation was held before it, unless the          *)
(* operation is the request.                                               *)
LEMMA HeldNext ==
  ASSUME NEW s, NEW k \in Nat, k >= 1, HeldAt(s, k + 1), s[k].op # "setRequest"
  PROVE  HeldAt(s, k) /\ s[k] \notin Withdraws
<1>1. PICK j \in 1 .. (k+1)-1 : /\ s[j].op = "setRequest"
                                /\ \A i \in j+1 .. (k+1)-1 : s[i] \notin Withdraws
  BY DEF HeldAt
<1>2. j \in 1 .. k-1
  BY <1>1
<1> QED BY <1>1, <1>2 DEF HeldAt

(* No script begins with a request in force. *)
LEMMA HeldFirst ==
  ASSUME NEW s
  PROVE  ~HeldAt(s, 1)
BY DEF HeldAt

(* All scripts of the PHY write code under a request only. *)
LEMMA ScriptsHeld ==
  ASSUME Types, InScripts
  PROVE  Script \in Seq(Ops) /\ AllHeld(Script)
<1>1. mcfg \in Methods
  BY DEF Types
<1>2. Script \in Seq(Ops)
  BY ScriptIs DEF InScripts
<1>3. CASE Downloading
  BY <1>1, <1>3, ScriptIs, PassIs DEF Pass, Block, Loading
<1>4. CASE phase = "phy" /\ ~Downloading
  <2>1. Script = PhyPass[mcfg][TRUE]
    BY <1>4, ScriptIs
  <2>2. Without(Script, Needs)
    BY <1>1, <2>1, SkippedIs
  <2> QED BY <1>2, <2>2 DEF Without, AllHeld
<1>5. CASE phase = "table"
  BY <1>1, <1>5, ScriptIs, Tables DEF Table
<1> QED BY <1>2, <1>3, <1>4, <1>5 DEF InScripts

(* Steps within a script, and the others. *)
LEMMA Elsewhere ==
  ASSUME Types,
         \/ MacWritten \/ Attach \/ Rtl812xEnable \/ Rtl812xDisable
         \/ Stop \/ LosePower \/ Ends
  PROVE  \/ ~InScripts'
         \/ InScripts' /\ step' = 1 /\ polls' = 0
BY DEF MacWritten, Stepping, Attach, Rtl812xEnable, StartPass, Rtl812xDisable, Stop,
       LosePower, sw, Ends, Ended, InScripts

(* The place in the script is the same as long as the phase is. *)
LEMMA ScriptKept ==
  ASSUME UNCHANGED << mcfg, known, phase, hasRam, hwVer >>
  PROVE  /\ Script' = Script /\ (InScripts' <=> InScripts)
         /\ UNCHANGED step => Op' = Op /\ \A o : At(o)' <=> At(o)
<1>1. Script' = Script /\ Busy' = Busy
  BY ScriptStays
<1> QED BY <1>1 DEF InScripts, Op, At

(* Both are inductive. *)
LEMMA HeldStep ==
  ASSUME Types, PollInv, HeldInv, [DownloadNext]_downloadVars
  PROVE  PollInv' /\ HeldInv'
<1>1. step \in Nat /\ step >= 1 /\ polls \in Nat
  BY DEF Types
<1>2. CASE PhyWritten
  <2>1. /\ UNCHANGED << mcfg, known, phase, hasRam, hwVer >> /\ step' = step + 1
        /\ polls' = 0
        /\ late' = late
    BY <1>2 DEF PhyWritten, Stepping
  <2>2. Script' = Script /\ (InScripts' <=> InScripts)
    BY <2>1, ScriptKept
  <2>3. PollInv'
    BY <2>1 DEF PollInv
  <2>4. ASSUME InScripts', HeldAt(Script', step')
        PROVE  phy'.request = TRUE /\ (phy'.granted \/ late')
    <3>1. HeldAt(Script, step) /\ Script[step] \notin Withdraws
      BY <1>1, <1>2, <2>1, <2>2, <2>4, HeldNext DEF PhyWritten, Op
    <3>2. ~At("clearRequest")
      BY <1>2 DEF PhyWritten, At, Op
    <3>3. phy.request = TRUE /\ (phy.granted \/ late)
      BY <2>2, <2>4, <3>1, <3>2 DEF HeldInv
    <3>4. Op.op = "b820" => Op.request = TRUE
      BY <1>2, <3>1 DEF PhyWritten, Op, Withdraws, Ops
    <3> QED BY <1>2, <2>1, <3>3, <3>4 DEF PhyWritten
  <2> QED BY <2>3, <2>4 DEF HeldInv
<1>3. ASSUME NEW on \in BOOLEAN, Asked(on)
      PROVE  PollInv' /\ HeldInv'
  <2>1. /\ UNCHANGED << mcfg, known, phase, hasRam, hwVer, step, late >> /\ polls' = 1
        /\ phy'.request = on /\ phy'.granted = phy.granted
        /\ Op.op = IF on THEN "setRequest" ELSE "clearRequest"
    BY <1>3 DEF Asked, RestSame, Calling
  <2>2. /\ Script' = Script /\ (InScripts' <=> InScripts)
        /\ \A o : At(o)' <=> At(o)
    BY <2>1, ScriptKept
  <2>3. \A o : At(o) => o = IF on THEN "setRequest" ELSE "clearRequest"
    BY <2>1 DEF At, Op
  <2>4. PollInv'
    BY <2>1, <2>2, <2>3 DEF PollInv
  <2>5. on = TRUE \/ on = FALSE
    OBVIOUS
  <2>6. CASE on = TRUE
    <3>1. ~At("clearRequest")
      BY <2>3, <2>6
    <3> QED BY <2>1, <2>2, <2>4, <2>6, <3>1 DEF HeldInv
  <2>7. CASE on = FALSE
    <3>1. At("clearRequest")
      BY <1>3, <2>7 DEF Asked, Calling, At, Op, Busy
    <3> QED BY <2>1, <2>2, <2>4, <2>7, <3>1 DEF HeldInv
  <2> QED BY <2>5, <2>6, <2>7
<1>4. ASSUME NEW on \in BOOLEAN, Polled(on)
      PROVE  PollInv' /\ HeldInv'
  <2>1. /\ UNCHANGED << mcfg, known, phase, hasRam, hwVer, step, late, phy >>
        /\ polls > 0 /\ polls' = polls + 1
    BY <1>4 DEF Polled, RestSame
  <2>2. /\ Script' = Script /\ (InScripts' <=> InScripts)
        /\ \A o : At(o)' <=> At(o)
    BY <2>1, ScriptKept
  <2> QED BY <1>1, <2>1, <2>2 DEF PollInv, HeldInv
<1>5. ASSUME NEW on \in BOOLEAN, Answered(on)
      PROVE  PollInv' /\ HeldInv'
  <2>1. /\ UNCHANGED << mcfg, known, phase, hasRam, hwVer, phy >>
        /\ step' = step + 1 /\ polls' = 0 /\ polls > 0
        /\ Op.op = IF on THEN "setRequest" ELSE "clearRequest"
        /\ Op \in Ops
        /\ late' = IF on THEN ~phy.granted ELSE late
        /\ InScripts
    BY <1>5 DEF Answered, Stepping, Calling, InScripts
  <2>2. Script' = Script /\ (InScripts' <=> InScripts)
    BY <2>1, ScriptKept
  <2>3. PollInv'
    BY <2>1 DEF PollInv
  <2>4. on = TRUE \/ on = FALSE
    OBVIOUS
  <2>5. CASE on = TRUE
    <3>1. At("setRequest")
      BY <1>5, <2>5 DEF Answered, Calling, At, Op, Busy
    <3>2. phy.request = TRUE
      BY <2>1, <3>1 DEF PollInv
    <3>3. late' = ~phy.granted
      BY <2>1, <2>5
    <3> QED BY <2>1, <2>3, <3>2, <3>3 DEF HeldInv
  <2>6. CASE on = FALSE
    <3>1. Op \in Withdraws
      BY <2>1, <2>6 DEF Withdraws
    <3>2. ~HeldAt(Script, step + 1)
      <4>1. Script[step].op # "setRequest"
        BY <2>1, <2>6 DEF Op
      <4> QED BY <1>1, <3>1, <4>1, HeldNext DEF Op
    <3> QED BY <2>1, <2>2, <2>3, <3>2 DEF HeldInv
  <2> QED BY <2>4, <2>5, <2>6
<1>6. CASE Signalled
  <2>1. /\ UNCHANGED << mcfg, known, phase, hasRam, hwVer, step, late, polls >>
        /\ phy'.request = phy.request
        /\ \/ phy.request = TRUE /\ phy'.granted = TRUE
           \/ phy.request = FALSE /\ phy'.granted = FALSE
    BY <1>6 DEF Signalled, RestSame
  <2>2. /\ Script' = Script /\ (InScripts' <=> InScripts)
        /\ \A o : At(o)' <=> At(o)
    BY <2>1, ScriptKept
  <2> QED BY <2>1, <2>2 DEF PollInv, HeldInv
<1>7. CASE UNCHANGED downloadVars
  <2>1. UNCHANGED << mcfg, known, phase, hasRam, hwVer, step, late, polls, phy >>
    BY <1>7 DEF downloadVars, sw
  <2>2. /\ Script' = Script /\ (InScripts' <=> InScripts)
        /\ \A o : At(o)' <=> At(o)
    BY <2>1, ScriptKept
  <2> QED BY <2>1, <2>2 DEF PollInv, HeldInv
<1>8. CASE \/ MacWritten \/ Attach \/ Rtl812xEnable \/ Rtl812xDisable
           \/ Stop \/ LosePower \/ Ends
  <2>1. ~InScripts' \/ (step' = 1 /\ polls' = 0)
    BY <1>8, Elsewhere
  <2>2. ~HeldAt(Script', 1)
    BY HeldFirst
  <2> QED BY <2>1, <2>2 DEF PollInv, HeldInv
<1> QED BY <1>2, <1>3, <1>4, <1>5, <1>6, <1>7, <1>8, StepKinds

(* Where a write needs it, the PHY is stopped or was given up. *)
LEMMA HeldNow ==
  ASSUME Types, HeldInv, NeedsStop
  PROVE  InScripts /\ phy.request = TRUE /\ (phy.granted \/ late)
<1>1. PICK o \in {"code", "data", "parameters"} : At(o)
  BY DEF NeedsStop
<1>2. Op.op = o /\ step \in 1 .. Len(Script)
  BY <1>1, OpIs
<1>3. InScripts /\ Op \in Ops
  <2>1. Op \notin MacOps
    BY <1>1, <1>2 DEF MacOps
  <2> QED BY <1>1, <2>1, OpIs DEF InScripts
<1>4. Op \in Needs
  BY <1>2, <1>3 DEF NeedsStop, Needs, At, Op
<1>5. HeldAt(Script, step)
  BY <1>2, <1>3, <1>4, ScriptsHeld DEF AllHeld, Op
<1>6. ~At("clearRequest")
  BY <1>1, <1>2 DEF At, Op
<1> QED BY <1>3, <1>5, <1>6 DEF HeldInv

(* At the start no script runs. *)
LEMMA HeldInit ==
  ASSUME DownloadInit
  PROVE  PollInv /\ HeldInv
BY DEF DownloadInit, PollInv, HeldInv, InScripts

(* A request that is in force in the script is in force in the PHY. *)
THEOREM HeldThroughout == DownloadSpec => [](PollInv /\ HeldInv)
<1>1. DownloadInit => PollInv /\ HeldInv
  BY HeldInit
<1>2. Types /\ (PollInv /\ HeldInv) /\ [DownloadNext]_downloadVars
        => (PollInv /\ HeldInv)'
  BY HeldStep
<1> QED BY <1>1, <1>2, DownloadTypes, PTL DEF DownloadSpec

(* Code, data and the parameters that need it are written while the PHY is *)
(* stopped by a granted request, unless the request was given up after its *)
(* polls.                                                                  *)
THEOREM WrittenWhileHeld == DownloadSpec => HeldForPatch
<1>1. Types /\ (PollInv /\ HeldInv) =>
        [NeedsStop /\ step' = step + 1 => phy.granted \/ late]_downloadVars
  BY HeldNow
<1> QED BY <1>1, DownloadTypes, HeldThroughout, PTL DEF HeldForPatch

-----------------------------------------------------------------------------
(* The version that the PHY shows                                          *)

(* A script has code for unit u. *)
InCode(s, u) == \E k \in 1 .. Len(s) : s[k].op = "code" /\ s[k].unit = u

(* What the download is, as a sequence of operations. *)
LEMMA LoadingIs ==
  ASSUME Types
  PROVE  /\ Loading \in Seq(Ops) /\ Whole(Loading) /\ AllHeld(Loading)
         /\ Len(Loading) \in Nat /\ Len(Loading) > 0
         /\ Announces(Loading, SwRamCodeVer(mcfg))
         /\ mcfg # 31 => AnnouncesOnce(Loading, SwRamCodeVer(mcfg))
         /\ \A k \in 1 .. Len(Loading) :
              Loading[k] \in Withdraws =>
                \A u \in Units :
                  InCode(Loading, u) =>
                    \/ u \in NotInEveryImage
                    \/ \E j \in 1 .. k-1 :
                         Loading[j].op = "enable" /\ Loading[j].unit = u
<1>1. PICK U, D, V : Pass(mcfg, Loading, U, D) /\ Block(Loading, U, D, V)
  BY PassIs DEF Types, Loading, Pass
<1>2. /\ Loading \in Seq(Ops) /\ Whole(Loading) /\ AllHeld(Loading)
      /\ Content(Loading, U, D, V) /\ Ready(Loading, U \ Excused(mcfg))
      /\ Announces(Loading, SwRamCodeVer(mcfg))
      /\ mcfg # 31 => AnnouncesOnce(Loading, SwRamCodeVer(mcfg))
  BY <1>1 DEF Pass, Block
<1>3. Len(Loading) \in Nat
  <2> HIDE DEF Ops
  <2> QED BY <1>2, LenProperties
<1>4. \A u : InCode(Loading, u) => u \in U
  BY <1>2 DEF InCode, Content
<1>5. Excused(mcfg) = NotInEveryImage
  BY DEF Excused, NotInEveryImage
<1> HIDE DEF Loading
<1>6. ASSUME NEW k \in 1 .. Len(Loading), Loading[k] \in Withdraws,
             NEW u \in Units, InCode(Loading, u), u \notin NotInEveryImage
      PROVE  \E j \in 1 .. k-1 : Loading[j].op = "enable" /\ Loading[j].unit = u
  <2>1. u \in U \ Excused(mcfg)
    BY <1>4, <1>5, <1>6
  <2> HIDE DEF Excused
  <2> QED BY <1>2, <1>6, <2>1 DEF Ready
<1>7. Len(Loading) > 0
  BY <1>2 DEF Announces
<1> QED BY <1>2, <1>3, <1>6, <1>7

(* A script other than the download's writes parameters, or asks. *)
LEMMA OtherScripts ==
  ASSUME Types, InScripts, ~Downloading, step \in 1 .. Len(Script)
  PROVE  /\ Op.op \in {"parameters", "setRequest", "clearRequest"}
         /\ phase = "phy" => Op.op = "parameters"
<1>1. mcfg \in Methods
  BY DEF Types
<1>2. CASE phase = "phy"
  BY <1>1, <1>2, ScriptIs, SkippedIs DEF Op
<1>3. CASE phase = "table"
  BY <1>1, <1>3, ScriptIs, Tables DEF Table, Op
<1> QED BY <1>2, <1>3 DEF InScripts

(* The PHY shows the version of this driver's code. *)
Current == CheckHwPhyMcuCodeVer

(* What the driver takes the PHY to have, and whether it shows it: only    *)
(* the end of a download does, but for method 31, of which an image shows  *)
(* the version too early.                                                  *)
VersionInv ==
  /\ phase = "mac" => (hasRam <=> Current)
  /\ phase = "mac" /\ resume => hasRam
  /\ Downloading /\ step <= Len(Loading) /\ mcfg # 31 => ~Current
  /\ Downloading /\ step > Len(Loading) => Current
  /\ phase \in {"phy", "table", "up"} /\ hasRam => Current
  /\ phase \in {"table", "up"} /\ known => hasRam
  /\ ~known => ~Current /\ ~hasRam
  /\ cut => mcfg = 31

(* At the start no version is known. *)
LEMMA VersionInit ==
  ASSUME DownloadInit
  PROVE  VersionInv
<1>1. mcfg \in {2, 3, 4, 5, 6, 7, 8, 9, 10, 11, 12, 13, 31, 32, 33}
  BY DownloadAssumption DEF DownloadAssumption, DownloadInit
<1>2. phy.version = "none" \/ phy.version = "other"
  BY PoweredOnIs DEF DownloadInit
<1>3. ~Current
  BY <1>1, <1>2 DEF Current, CheckHwPhyMcuCodeVer, SwRamCodeVer
<1> QED BY <1>3 DEF DownloadInit, VersionInv, Downloading, InScripts

(* A PHY of another driver does not show this driver's version, nor does   *)
(* one that was powered on.                                                *)
LEMMA VersionNamed ==
  ASSUME Types
  PROVE  SwRamCodeVer(mcfg) \notin {"none", "other"}
<1>1. mcfg \in {2, 3, 4, 5, 6, 7, 8, 9, 10, 11, 12, 13, 31, 32, 33}
  BY DownloadAssumption DEF DownloadAssumption, Types
<1> QED BY <1>1 DEF SwRamCodeVer

(* Only a write of the version can change this. *)
LEMMA VersionSame ==
  ASSUME phy'.version = phy.version, mcfg' = mcfg
  PROVE  Current' <=> Current
BY DEF Current, CheckHwPhyMcuCodeVer

(* The invariant is inductive. *)
LEMMA VersionStep ==
  ASSUME Types, VersionInv, [DownloadNext]_downloadVars
  PROVE  VersionInv'
<1>1. step \in Nat /\ step >= 1
  BY DEF Types
<1>2. CASE PhyWritten
  <2>1. /\ UNCHANGED << mcfg, known, phase, hasRam, hwVer, resume, cut >>
        /\ step' = step + 1
        /\ step \in 1 .. Len(Script) /\ InScripts /\ Op \in Ops
        /\ phy'.version = IF Op.op = "version" THEN Op.value ELSE phy.version
    BY <1>2 DEF PhyWritten, Stepping, InScripts
  <2>2. /\ (InScripts' <=> InScripts) /\ (Downloading' <=> Downloading)
        /\ Loading' = Loading
    BY <2>1, ScriptKept, ScriptStays
  <2>3. CASE Downloading
    <3>1. Script = Loading
      BY <2>3, ScriptIs
    <3>2. step \in 1 .. Len(Loading) /\ Op = Loading[step]
      BY <2>1, <3>1 DEF Op
    <3>3. /\ Len(Loading) \in Nat /\ Announces(Loading, SwRamCodeVer(mcfg))
          /\ mcfg # 31 => AnnouncesOnce(Loading, SwRamCodeVer(mcfg))
      BY LoadingIs
    <3>4. ASSUME step' <= Len(Loading), mcfg # 31
          PROVE  ~Current'
      <4>1. ~Current
        BY <1>1, <2>1, <2>3, <3>2, <3>4 DEF VersionInv
      <4>2. Op.op = "version" => Op.value # SwRamCodeVer(mcfg)
        BY <2>1, <3>2, <3>3, <3>4 DEF AnnouncesOnce
      <4> QED BY <2>1, <4>1, <4>2 DEF Current, CheckHwPhyMcuCodeVer
    <3>5. ASSUME step' > Len(Loading)
          PROVE  Current'
      <4>1. step = Len(Loading)
        BY <2>1, <3>2, <3>3, <3>5
      <4>2. Op.op = "version" /\ Op.value = SwRamCodeVer(mcfg)
        BY <3>2, <3>3, <4>1 DEF Announces
      <4> QED BY <2>1, <4>2 DEF Current, CheckHwPhyMcuCodeVer
    <3>6. phase = "phy" /\ known /\ ~hasRam
      BY <2>3 DEF Downloading
    <3> QED BY <2>1, <2>2, <3>4, <3>5, <3>6 DEF VersionInv
  <2>4. CASE ~Downloading
    <3>1. Op.op # "version"
      BY <2>1, <2>4, OtherScripts
    <3>2. Current' <=> Current
      BY <2>1, <3>1, VersionSame
    <3> QED BY <2>1, <2>2, <2>4, <3>2 DEF VersionInv, InScripts
  <2> QED BY <2>3, <2>4
<1>3. ASSUME NEW on \in BOOLEAN, Answered(on)
      PROVE  VersionInv'
  <2>1. /\ UNCHANGED << mcfg, known, phase, hasRam, hwVer, resume, cut, phy >>
        /\ step' = step + 1
        /\ step \in 1 .. Len(Script) /\ InScripts
        /\ Op.op \in {"setRequest", "clearRequest"}
    BY <1>3 DEF Answered, Calling, Stepping, InScripts
  <2>2. /\ (InScripts' <=> InScripts) /\ (Downloading' <=> Downloading)
        /\ Loading' = Loading
    BY <2>1, ScriptKept, ScriptStays
  <2>3. Current' <=> Current
    BY <2>1, VersionSame
  <2>4. CASE Downloading
    <3>1. Script = Loading
      BY <2>4, ScriptIs
    <3>2. Len(Loading) \in Nat /\ Announces(Loading, SwRamCodeVer(mcfg))
      BY LoadingIs
    <3>3. step' <= Len(Loading)
      BY <2>1, <3>1, <3>2 DEF Announces, Op
    <3>4. phase = "phy" /\ known /\ ~hasRam
      BY <2>4 DEF Downloading
    <3> QED BY <1>1, <2>1, <2>2, <2>3, <3>2, <3>3, <3>4 DEF VersionInv
  <2>5. CASE ~Downloading
    BY <2>1, <2>2, <2>3, <2>5 DEF VersionInv
  <2> QED BY <2>4, <2>5
<1>4. ASSUME \/ \E on \in BOOLEAN : Asked(on) \/ Polled(on)
             \/ Signalled \/ UNCHANGED downloadVars
      PROVE  VersionInv'
  <2>1. UNCHANGED << mcfg, known, phase, hasRam, hwVer, resume, cut, step >>
        /\ phy'.version = phy.version
    BY <1>4 DEF Asked, Polled, Signalled, downloadVars, sw, RestSame, CodeSame
  <2>2. /\ (InScripts' <=> InScripts) /\ (Downloading' <=> Downloading)
        /\ Loading' = Loading
    BY <2>1, ScriptKept, ScriptStays
  <2>3. Current' <=> Current
    BY <2>1, VersionSame
  <2> QED BY <2>1, <2>2, <2>3 DEF VersionInv
<1>5. CASE MacWritten
  <2>1. /\ UNCHANGED << mcfg, known, phase, hasRam, hwVer, resume, cut, phy >>
        /\ phase = "mac"
    BY <1>5 DEF MacWritten, Stepping
  <2>2. Current' <=> Current
    BY <2>1, VersionSame
  <2> QED BY <2>1, <2>2 DEF VersionInv, Downloading, InScripts
<1>6. CASE Ends
  <2>1. UNCHANGED << mcfg, known, resume, cut >> /\ phy'.version = phy.version
        /\ step' = 1 /\ step = Len(Script) + 1
    BY <1>6 DEF Ends, Ended, CodeSame
  <2>2. (Current' <=> Current) /\ Loading' = Loading
    BY <2>1, VersionSame DEF Loading
  <2>3. Len(Loading) \in Nat /\ Len(Loading) > 0
    BY LoadingIs
  <2>4. CASE phase = "mac"
    BY <1>6, <2>1, <2>2, <2>3, <2>4
       DEF VersionInv, Ends, Ended, Downloading, InScripts
  <2>5. CASE Ended("phy", "table") /\ hasRam' = (hasRam \/ known)
    <3>0. /\ phase = "phy" /\ phase' = "table" /\ ~Downloading'
          /\ hasRam' <=> hasRam \/ known
      BY <2>5 DEF Ended, Downloading
    <3>1. known \/ hasRam => Current
      <4>1. CASE Downloading
        <5>1. step > Len(Loading)
          BY <2>1, <2>3, <4>1, ScriptIs
        <5> QED BY <4>1, <5>1 DEF VersionInv
      <4>2. CASE ~Downloading
        BY <3>0, <4>2 DEF VersionInv, Downloading, InScripts
      <4> QED BY <4>1, <4>2
    <3>2. ~known => ~Current /\ ~hasRam
      BY DEF VersionInv
    <3>3. cut => mcfg = 31
      BY DEF VersionInv
    <3> QED BY <2>1, <2>2, <3>0, <3>1, <3>2, <3>3 DEF VersionInv, InScripts
  <2>6. CASE phase = "table"
    BY <1>6, <2>1, <2>2, <2>6 DEF VersionInv, Ends, Ended, Downloading, InScripts
  <2> QED BY <1>6, <2>4, <2>5, <2>6 DEF Ends, Ended
<1>7. CASE Attach \/ Rtl812xEnable
  <2>1. /\ phase' = "mac" /\ (hasRam' <=> Current)
        /\ UNCHANGED << mcfg, known, cut, phy >>
        /\ resume' => Current
    BY <1>7 DEF Attach, Rtl812xEnable, StartPass, Current
  <2>2. Current' <=> Current
    BY <2>1, VersionSame
  <2> QED BY <2>1, <2>2 DEF VersionInv, Downloading, InScripts
<1>8. CASE Rtl812xDisable
  <2>1. phase' = "idle" /\ UNCHANGED << mcfg, known, cut, phy, hasRam >>
    BY <1>8 DEF Rtl812xDisable
  <2>2. Current' <=> Current
    BY <2>1, VersionSame
  <2> QED BY <2>1, <2>2 DEF VersionInv, Downloading, InScripts
<1>9. CASE Stop
  <2>1. phase' = "off" /\ hasRam' = FALSE /\ UNCHANGED << mcfg, known, phy >>
        /\ cut' = (cut \/ Announced)
    BY <1>9 DEF Stop
  <2>2. Current' <=> Current
    BY <2>1, VersionSame
  <2>3. Announced => mcfg = 31
    <3>1. SUFFICES ASSUME Announced
                   PROVE  mcfg = 31
      OBVIOUS
    <3>2. phase = "phy" /\ ~hasRam /\ step <= Len(Script) /\ Current
      BY <3>1 DEF Announced, Current
    <3>3. Downloading
      BY <3>2 DEF VersionInv, Downloading
    <3> QED BY <3>2, <3>3, ScriptIs DEF VersionInv
  <2> QED BY <2>1, <2>2, <2>3 DEF VersionInv, Downloading, InScripts
<1>10. CASE LosePower
  <2>1. /\ phase' \in {"off", "idle"} /\ UNCHANGED << mcfg, known, hasRam >>
        /\ cut' = FALSE
        /\ phy'.version = "none"
    BY <1>10, PoweredOnIs DEF LosePower, sw
  <2>2. ~Current'
    BY <2>1, VersionNamed DEF Current, CheckHwPhyMcuCodeVer
  <2> QED BY <2>1, <2>2 DEF VersionInv, Downloading, InScripts
<1> QED BY <1>2, <1>3, <1>4, <1>5, <1>6, <1>7, <1>8, <1>9, <1>10, StepKinds

-----------------------------------------------------------------------------
(* Hooks: a section is never left half written in a PHY that runs          *)

(* The section of u is under way: code was just written or its hooks       *)
(* aimed, and they are not enabled yet.                                    *)
Inside(u) ==
  /\ step > 1
  /\ Loading[step-1].op \in {"code", "aim"} /\ Loading[step-1].unit = u

(* What the operation before has left. *)
LastWritten ==
  step > 1 =>
    /\ Loading[step-1].op = "code" =>
         phy.code[Loading[step-1].unit] = Loading[step-1].image
    /\ Loading[step-1].op = "aim" =>
         /\ phy.code[Loading[step-1].unit] = Loading[step-1].image
         /\ phy.aim[Loading[step-1].unit].image = Loading[step-1].image
         /\ phy.aim[Loading[step-1].unit].hooks = Loading[step-1].hooks

(* A unit of which the hooks were enabled is aimed, unless the next        *)
(* section of it is under way.                                             *)
SectionsDone ==
  \A j \in 1 .. step-1 :
    Loading[j].op = "enable" /\ ~Inside(Loading[j].unit) => Aimed(Loading[j].unit)

(* The state of the sections in a download. *)
SectInv ==
  Downloading => step <= Len(Loading) + 1 /\ LastWritten /\ SectionsDone

(* Every unit is aimed; and the PHY does not run, or may be running        *)
(* because a request was given up.                                         *)
AllAimed == \A u \in Units : Aimed(u)

Stopped == late \/ (phy.request = TRUE /\ phy.granted)

(* A unit that is not aimed will be written by the download, and until     *)
(* then the PHY is stopped, unless the unit is not in every image.         *)
TornInv ==
  \A u \in Units :
    ~Aimed(u) => InCode(Loading, u) /\ (Stopped \/ u \in NotInEveryImage)

(* A PHY that is taken to have the code, or that shows its version, is     *)
(* aimed, unless a stop came between.                                      *)
TrustAim ==
  /\ hasRam /\ ~cut => AllAimed
  /\ Current /\ ~Downloading /\ ~cut => AllAimed
  /\ ~known => AllAimed

(* The inductive invariant of the hooks. *)
AimedInv == SectInv /\ TornInv /\ TrustAim

(* Nothing of a section is written. *)
HooksSame == phy'.code = phy.code /\ phy'.aim = phy.aim /\ phy'.enabled = phy.enabled

(* Then nothing is aimed differently. *)
LEMMA AimedSame ==
  ASSUME HooksSame
  PROVE  /\ \A u : Aimed(u)' <=> Aimed(u)
         /\ AllAimed' <=> AllAimed
<1>1. \A u : Aimed(u)' <=> Aimed(u)
  BY DEF HooksSame, Aimed
<1> QED BY <1>1 DEF AllAimed

(* A PHY that is found is aimed. *)
LEMMA AimedInit ==
  ASSUME DownloadInit
  PROVE  AimedInv
<1>1. \A u \in Units : Aimed(u)
  BY PoweredOnIs DEF DownloadInit, Aimed
<1>2. ~Downloading
  BY DEF DownloadInit, Downloading
<1> QED BY <1>1, <1>2 DEF AimedInv, SectInv, TornInv, TrustAim, AllAimed

(* While code is loaded, what is written next to the operation before. *)
LEMMA BeforeOp ==
  ASSUME Types, NEW k \in 1 .. Len(Loading)
  PROVE  /\ Loading[k].op = "aim" =>
              /\ k > 1 /\ Loading[k-1].op = "code"
              /\ Loading[k-1].unit = Loading[k].unit
              /\ Loading[k-1].image = Loading[k].image
         /\ Loading[k].op = "enable" =>
              /\ k > 1 /\ Loading[k-1].op = "aim" /\ Loading[k-1].unit = Loading[k].unit
              /\ Loading[k].hooks \subseteq Loading[k-1].hooks
         /\ k > 1 /\ Loading[k].op \notin {"aim", "enable"} =>
              Loading[k-1].op \notin {"code", "aim"}
<1>1. Len(Loading) \in Nat /\ Whole(Loading)
  BY LoadingIs
<1> HIDE DEF Loading
<1>2. k > 1 => k - 1 \in 1 .. Len(Loading) /\ (k-1)+1 = k
  BY <1>1
<1> QED BY <1>1, <1>2 DEF Whole

(* The operation that is next in a download. *)
LEMMA OpOfDownload ==
  ASSUME Types, Downloading, step \in 1 .. Len(Script)
  PROVE  /\ step \in 1 .. Len(Loading) /\ Op = Loading[step] /\ Op \in Ops
         /\ Script = Loading
         /\ Op.op \in {"code", "aim", "enable"} => Op.unit \in Units
<1>1. Script = Loading /\ Loading \in Seq(Ops)
  BY ScriptIs
<1>2. Op \in Ops
  <2> HIDE DEF Ops
  <2> QED BY <1>1, ElementOfSeq DEF Op
<1>3. Op.op \in {"code", "aim", "enable"} => Op.unit \in Units
  <2> HIDE DEF Units
  <2> QED BY <1>2 DEF Ops
<1> QED BY <1>1, <1>2, <1>3 DEF Op

(* Each write of a download keeps its sections, *)
LEMMA SectionWrites ==
  ASSUME Types, SectInv, Downloading, PhyWritten
  PROVE  SectInv'
<1>1. /\ UNCHANGED << mcfg, known, phase, hasRam, hwVer >> /\ step' = step + 1
      /\ step \in 1 .. Len(Script)
  BY DEF PhyWritten, Stepping
<1>2. Loading' = Loading /\ step \in Nat /\ step >= 1
  BY <1>1, ScriptStays DEF Types
<1>3. step \in 1 .. Len(Loading) /\ Op = Loading[step] /\ Op \in Ops
      /\ (Op.op \in {"code", "aim", "enable"} => Op.unit \in Units)
  BY <1>1, OpOfDownload
<1>4. /\ Op.op = "aim" =>
           /\ step > 1 /\ Loading[step-1].op = "code" /\ Loading[step-1].unit = Op.unit
           /\ Loading[step-1].image = Op.image
      /\ Op.op = "enable" =>
           /\ step > 1 /\ Loading[step-1].op = "aim" /\ Loading[step-1].unit = Op.unit
           /\ Op.hooks \subseteq Loading[step-1].hooks
      /\ step > 1 /\ Op.op \notin {"aim", "enable"} =>
           Loading[step-1].op \notin {"code", "aim"}
  BY <1>3, BeforeOp
<1>5. LastWritten /\ SectionsDone
  BY DEF SectInv
<1>6. /\ phy.code \in [Units -> Names] /\ phy.enabled \in [Units -> SUBSET Hooks]
      /\ phy.aim \in [Units -> [image : Names, hooks : SUBSET Hooks]]
  BY DEF Types, PhyStates
<1>7. /\ phy'.code = IF Op.op = "code" THEN [phy.code EXCEPT ![Op.unit] = Op.image]
                     ELSE phy.code
      /\ phy'.aim = IF Op.op = "aim"
                    THEN [phy.aim EXCEPT ![Op.unit] =
                                            [image |-> Op.image, hooks |-> Op.hooks]]
                    ELSE phy.aim
      /\ phy'.enabled = IF Op.op = "enable"
                        THEN [phy.enabled EXCEPT ![Op.unit] = Op.hooks]
                        ELSE phy.enabled
  BY DEF PhyWritten
<1>8. step'-1 = step /\ step' > 1
  BY <1>1, <1>2
<1> HIDE DEF Loading
<1>9. LastWritten'
  <2>1. CASE Op.op = "code"
    <3>1. phy'.code[Op.unit] = Op.image
      BY <1>3, <1>6, <1>7, <2>1
    <3> QED BY <1>2, <1>3, <1>8, <2>1, <3>1 DEF LastWritten
  <2>2. CASE Op.op = "aim"
    <3>1. /\ phy'.aim[Op.unit].image = Op.image /\ phy'.aim[Op.unit].hooks = Op.hooks
          /\ phy'.code = phy.code
      BY <1>3, <1>6, <1>7, <2>2
    <3>2. phy.code[Op.unit] = Op.image
      BY <1>4, <1>5, <2>2 DEF LastWritten
    <3> QED BY <1>2, <1>3, <1>8, <2>2, <3>1, <3>2 DEF LastWritten
  <2>3. CASE Op.op \notin {"code", "aim"}
    BY <1>2, <1>3, <1>8, <2>3 DEF LastWritten
  <2> QED BY <2>1, <2>2, <2>3
<1>10. SectionsDone'
  <2> SUFFICES ASSUME NEW j \in 1 .. step, Loading[j].op = "enable",
                      ~(Op.op \in {"code", "aim"} /\ Op.unit = Loading[j].unit)
               PROVE  Aimed(Loading[j].unit)'
    BY <1>2, <1>3, <1>8 DEF SectionsDone, Inside
  <2> DEFINE u == Loading[j].unit
  <2>0. j \in 1 .. Len(Loading) /\ u \in Units
    <3>1. j \in 1 .. Len(Loading)
      BY <1>2, <1>3, LoadingIs
    <3>2. Loading[j] \in Ops
      <4> HIDE DEF Ops
      <4> QED BY <3>1, LoadingIs, ElementOfSeq
    <3> HIDE DEF Units
    <3> QED BY <3>1, <3>2 DEF Ops
  <2>1. CASE Op.op = "enable" /\ Op.unit = u
    <3>1. phy.code[u] = phy.aim[u].image /\ phy.aim[u].hooks = Loading[step-1].hooks
      BY <1>4, <1>5, <2>1 DEF LastWritten
    <3>2. phy'.code = phy.code /\ phy'.aim = phy.aim /\ phy'.enabled[u] = Op.hooks
      BY <1>6, <1>7, <2>0, <2>1
    <3> QED BY <1>2, <1>4, <2>1, <3>1, <3>2 DEF Aimed
  <2>2. CASE ~(Op.op = "enable" /\ Op.unit = u)
    <3>1. j \in 1 .. step-1
      <4>1. j # step
        BY <1>3, <2>2
      <4> QED BY <1>2, <4>1
    <3>2. ~Inside(u)
      BY <1>4, <2>2 DEF Inside
    <3>3. Aimed(u)
      BY <1>5, <3>1, <3>2 DEF SectionsDone
    <3>4. /\ phy'.code[u] = phy.code[u] /\ phy'.aim[u] = phy.aim[u]
          /\ phy'.enabled[u] = phy.enabled[u]
      BY <1>3, <1>6, <1>7, <2>0, <2>2
    <3> QED BY <1>2, <3>3, <3>4 DEF Aimed
  <2> QED BY <2>1, <2>2
<1>11. step' <= Len(Loading') + 1
  BY <1>1, <1>2, <1>3, LoadingIs
<1> QED BY <1>9, <1>10, <1>11 DEF SectInv

(* as do the calls of the request. *)
LEMMA SectionWaits ==
  ASSUME Types, SectInv, Downloading, NEW on \in BOOLEAN, Answered(on)
  PROVE  SectInv'
<1>1. /\ UNCHANGED << mcfg, known, phase, hasRam, hwVer, phy >> /\ step' = step + 1
      /\ step \in 1 .. Len(Script) /\ Op.op \in {"setRequest", "clearRequest"}
  BY DEF Answered, Calling, Stepping
<1>2. Loading' = Loading /\ step \in Nat /\ step >= 1
  BY <1>1, ScriptStays DEF Types
<1>3. step \in 1 .. Len(Loading) /\ Op = Loading[step]
  BY <1>1, OpOfDownload
<1>4. step > 1 => Loading[step-1].op \notin {"code", "aim"}
  BY <1>1, <1>3, BeforeOp
<1>5. SectionsDone
  BY DEF SectInv
<1>6. step'-1 = step /\ step' > 1
  BY <1>1, <1>2
<1>7. \A u : Aimed(u)' <=> Aimed(u)
  BY <1>1, AimedSame DEF HooksSame
<1> HIDE DEF Loading
<1>8. LastWritten'
  BY <1>1, <1>2, <1>3, <1>6 DEF LastWritten
<1>9. SectionsDone'
  <2> SUFFICES ASSUME NEW j \in 1 .. step, Loading[j].op = "enable"
               PROVE  Aimed(Loading[j].unit)
    BY <1>2, <1>6, <1>7 DEF SectionsDone
  <2>1. j \in 1 .. step-1
    <3>1. j # step
      BY <1>1, <1>3
    <3> QED BY <1>2, <3>1
  <2>2. ~Inside(Loading[j].unit)
    BY <1>4 DEF Inside
  <2> QED BY <1>5, <2>1, <2>2 DEF SectionsDone
<1>10. step' <= Len(Loading') + 1
  BY <1>1, <1>2, <1>3, LoadingIs
<1> QED BY <1>8, <1>9, <1>10 DEF SectInv

(* Whatever has its code and is not excused is aimed when the request goes.  *)
LEMMA AimedBeforeWithdraw ==
  ASSUME Types, SectInv, VersionInv, TrustAim, InScripts, step \in 1 .. Len(Script),
         Op \in Withdraws, NEW u \in Units, InCode(Loading, u), u \notin NotInEveryImage
  PROVE  Aimed(u)
<1>1. step \in Nat /\ mcfg \in Methods
  BY DEF Types
<1>2. CASE Downloading
  <2>1. step \in 1 .. Len(Loading) /\ Op = Loading[step]
    BY <1>2, OpOfDownload
  <2>2. PICK j \in 1 .. step-1 : Loading[j].op = "enable" /\ Loading[j].unit = u
    BY <2>1, LoadingIs
  <2>3. step > 1 => Loading[step-1].op \notin {"code", "aim"}
    <3>1. Op.op \notin {"aim", "enable"}
      BY DEF Withdraws
    <3> QED BY <2>1, <3>1, BeforeOp
  <2>4. ~Inside(u)
    BY <2>3 DEF Inside
  <2> QED BY <1>2, <2>2, <2>4 DEF SectInv, SectionsDone
<1>3. CASE ~Downloading
  <2>1. phase = "table"
    BY <1>3, OtherScripts DEF InScripts, Withdraws
  <2>2. mcfg # 31
    BY <1>1, <2>1, ScriptIs, Tables DEF Op, Without
  <2>3. ~cut /\ (known => hasRam)
    BY <2>1, <2>2 DEF VersionInv
  <2>4. AllAimed
    BY <2>3 DEF TrustAim
  <2> QED BY <2>4 DEF AllAimed
<1> QED BY <1>2, <1>3

(* At the end of the download all units are aimed. *)
LEMMA DownloadAims ==
  ASSUME Types, SectInv, TornInv, Downloading, step > Len(Loading)
  PROVE  AllAimed
<1>1. step = Len(Loading) + 1 /\ Len(Loading) \in Nat /\ Len(Loading) > 0
      /\ Whole(Loading) /\ Loading \in Seq(Ops) /\ Loading[Len(Loading)].op = "version"
  BY LoadingIs DEF Types, Announces, SectInv
<1> HIDE DEF Loading
<1>2. \A u : ~Inside(u)
  BY <1>1 DEF Inside
<1>3. ASSUME NEW u \in Units
      PROVE  Aimed(u)
  <2>1. CASE InCode(Loading, u)
    <3>1. PICK k \in 1 .. Len(Loading) : Loading[k].op = "code" /\ Loading[k].unit = u
      BY <2>1 DEF InCode
    <3>2. /\ k + 2 \in 1 .. Len(Loading) /\ Loading[k+2].op = "enable"
          /\ Loading[k+2].unit = u
      BY <1>1, <3>1, CodeThenEnable
    <3> QED BY <1>1, <1>2, <3>2 DEF SectInv, SectionsDone
  <2>2. CASE ~InCode(Loading, u)
    BY <2>2 DEF TornInv
  <2> QED BY <2>1, <2>2
<1> QED BY <1>3 DEF AllAimed

(* Each write to the PHY keeps the hooks' invariant. *)
LEMMA HooksWritten ==
  ASSUME Types, PollInv, HeldInv, VersionInv, AimedInv, PhyWritten
  PROVE  AimedInv'
<1>1. /\ UNCHANGED << mcfg, known, phase, hasRam, hwVer, late, cut >>
      /\ step' = step + 1
      /\ step \in 1 .. Len(Script) /\ InScripts /\ Op \in Ops
      /\ Op.op \notin {"setRequest", "clearRequest"}
      /\ phy'.granted = phy.granted
      /\ phy'.request = IF Op.op = "b820" THEN Op.request ELSE phy.request
  BY DEF PhyWritten, Stepping, InScripts
<1>2. Loading' = Loading /\ (Downloading' <=> Downloading)
      /\ NotInEveryImage' = NotInEveryImage
  BY <1>1, ScriptStays DEF NotInEveryImage
<1>3. SectInv /\ TornInv /\ TrustAim
  BY DEF AimedInv
<1>4. ~At("clearRequest")
  BY <1>1 DEF At, Op
<1>5. HeldAt(Script, step) => Stopped /\ phy.request = TRUE
  BY <1>1, <1>4 DEF HeldInv, Stopped
<1> HIDE DEF Loading
<1>6. CASE Downloading
  <2>1. step \in 1 .. Len(Loading) /\ Op = Loading[step] /\ Script = Loading
        /\ (Op.op \in {"code", "aim", "enable"} => Op.unit \in Units)
    BY <1>1, <1>6, OpOfDownload
  <2>2. SectInv'
    BY <1>3, <1>6, SectionWrites
  <2>3. phase = "phy" /\ known /\ ~hasRam
    BY <1>6 DEF Downloading
  <2>4. TrustAim'
    BY <1>1, <1>2, <1>6, <2>3 DEF TrustAim
  <2>5. CASE Op.op \in {"code", "aim"}
    <3>1. HeldAt(Script, step)
      <4>1. CASE Op.op = "code"
        <5>1. Op \in Needs
          BY <1>1, <4>1 DEF Needs
        <5> QED BY <1>1, <2>1, <5>1, LoadingIs DEF AllHeld
      <4>2. CASE Op.op = "aim"
        <5>1. step > 1 /\ Loading[step-1].op = "code" /\ step - 1 \in 1 .. Len(Loading)
          BY <2>1, <4>2, BeforeOp
        <5>2. Loading[step-1] \in Ops
          <6> HIDE DEF Ops
          <6> QED BY <5>1, LoadingIs, ElementOfSeq
        <5>3. Loading[step-1] \in Needs
          BY <5>1, <5>2 DEF Needs
        <5>4. HeldAt(Loading, step-1)
          BY <5>1, <5>3, LoadingIs DEF AllHeld
        <5>5. Loading[step-1] \notin Withdraws
          BY <5>1 DEF Withdraws
        <5>6. PICK j \in 1 .. (step-1)-1 :
                /\ Loading[j].op = "setRequest"
                /\ \A i \in j+1 .. (step-1)-1 : Loading[i] \notin Withdraws
          BY <5>4 DEF HeldAt
        <5>7. j \in 1 .. step-1 /\ \A i \in j+1 .. step-1 : Loading[i] \notin Withdraws
          BY <5>1, <5>5, <5>6
        <5> QED BY <2>1, <5>6, <5>7 DEF HeldAt
      <4> QED BY <2>5, <4>1, <4>2
    <3>2. Stopped'
      BY <1>1, <1>5, <2>5, <3>1 DEF Stopped
    <3>3. InCode(Loading, Op.unit)
      <4>1. CASE Op.op = "code"
        BY <2>1, <4>1 DEF InCode
      <4>2. CASE Op.op = "aim"
        <5>1. Loading[step-1].op = "code" /\ Loading[step-1].unit = Op.unit
              /\ step - 1 \in 1 .. Len(Loading)
          BY <2>1, <4>2, BeforeOp
        <5> QED BY <5>1 DEF InCode
      <4> QED BY <2>5, <4>1, <4>2
    <3>4. ASSUME NEW u \in Units, u # Op.unit
          PROVE  Aimed(u)' <=> Aimed(u)
      <4>1. /\ phy'.code[u] = phy.code[u] /\ phy'.aim[u] = phy.aim[u]
            /\ phy'.enabled[u] = phy.enabled[u]
        BY <2>1, <2>5, <3>4 DEF PhyWritten, Types, PhyStates
      <4> QED BY <4>1 DEF Aimed
    <3>5. TornInv'
      BY <1>2, <1>3, <3>2, <3>3, <3>4 DEF TornInv
    <3> QED BY <2>2, <2>4, <3>5 DEF AimedInv
  <2>6. CASE Op.op = "enable"
    <3>1. Stopped' <=> Stopped
      BY <1>1, <2>6 DEF Stopped
    <3>2. ASSUME NEW u \in Units, u = Op.unit
          PROVE  Aimed(u)'
      <4>1. /\ step > 1 /\ Loading[step-1].op = "aim" /\ Loading[step-1].unit = u
            /\ Op.hooks \subseteq Loading[step-1].hooks
        BY <2>1, <2>6, <3>2, BeforeOp
      <4>2. phy.code[u] = phy.aim[u].image /\ phy.aim[u].hooks = Loading[step-1].hooks
        BY <1>3, <1>6, <4>1 DEF SectInv, LastWritten
      <4>3. /\ phy'.code[u] = phy.code[u] /\ phy'.aim[u] = phy.aim[u]
            /\ phy'.enabled[u] = Op.hooks
        BY <2>1, <2>6, <3>2 DEF PhyWritten, Types, PhyStates
      <4> QED BY <4>1, <4>2, <4>3 DEF Aimed
    <3>3. ASSUME NEW u \in Units, u # Op.unit
          PROVE  Aimed(u)' <=> Aimed(u)
      <4>1. /\ phy'.code[u] = phy.code[u] /\ phy'.aim[u] = phy.aim[u]
            /\ phy'.enabled[u] = phy.enabled[u]
        BY <2>1, <2>6, <3>3 DEF PhyWritten, Types, PhyStates
      <4> QED BY <4>1 DEF Aimed
    <3>4. TornInv'
      <4> SUFFICES ASSUME NEW u \in Units, ~Aimed(u)'
                   PROVE  InCode(Loading, u) /\ (Stopped \/ u \in NotInEveryImage)
        BY <1>2, <3>1 DEF TornInv
      <4>1. u # Op.unit
        BY <3>2
      <4> QED BY <1>3, <3>3, <4>1 DEF TornInv
    <3> QED BY <2>2, <2>4, <3>4 DEF AimedInv
  <2>7. CASE Op.op \notin {"code", "aim", "enable"}
    <3>1. HooksSame
      BY <2>7 DEF PhyWritten, HooksSame
    <3>2. \A u : Aimed(u)' <=> Aimed(u)
      BY <3>1, AimedSame
    <3>3. CASE Op \in Withdraws
      <4>1. \A u \in Units : ~Aimed(u) => u \in NotInEveryImage
        BY <1>1, <1>3, <3>3, AimedBeforeWithdraw DEF TornInv
      <4>2. TornInv'
        BY <1>2, <1>3, <3>2, <4>1 DEF TornInv
      <4> QED BY <2>2, <2>4, <4>2 DEF AimedInv
    <3>4. CASE Op \notin Withdraws
      <4>1. Stopped => Stopped'
        <5>1. Op.op = "b820" => Op.request = TRUE
          BY <1>1, <3>4 DEF Withdraws, Ops
        <5> QED BY <1>1, <5>1 DEF Stopped
      <4>2. TornInv'
        BY <1>2, <1>3, <3>2, <4>1 DEF TornInv
      <4> QED BY <2>2, <2>4, <4>2 DEF AimedInv
    <3> QED BY <3>3, <3>4
  <2> QED BY <2>5, <2>6, <2>7
<1>7. CASE ~Downloading
  <2>1. Op.op = "parameters"
    BY <1>1, <1>7, OtherScripts
  <2>2. HooksSame /\ phy'.version = phy.version
    BY <2>1 DEF PhyWritten, HooksSame
  <2>3. /\ \A u : Aimed(u)' <=> Aimed(u)
        /\ AllAimed' <=> AllAimed
        /\ Current' <=> Current
    BY <1>1, <2>2, AimedSame, VersionSame
  <2>4. Stopped' <=> Stopped
    BY <1>1, <2>1 DEF Stopped
  <2>5. TornInv'
    BY <1>2, <1>3, <2>3, <2>4 DEF TornInv
  <2>6. TrustAim'
    BY <1>1, <1>2, <1>3, <2>3 DEF TrustAim
  <2> QED BY <1>2, <1>7, <2>5, <2>6 DEF AimedInv, SectInv
<1> QED BY <1>6, <1>7

(* While the driver waits. *)
LEMMA AimedWaits ==
  ASSUME Types, AimedInv, HooksSame, phy'.version = phy.version,
         UNCHANGED << mcfg, known, phase, hasRam, hwVer, step, cut >>,
         \A u \in Units : ~Aimed(u) /\ u \notin NotInEveryImage => Stopped'
  PROVE  AimedInv'
<1>1. Loading' = Loading /\ (Downloading' <=> Downloading)
      /\ NotInEveryImage' = NotInEveryImage
  BY ScriptStays DEF NotInEveryImage
<1>2. /\ \A u : Aimed(u)' <=> Aimed(u)
      /\ AllAimed' <=> AllAimed
      /\ Current' <=> Current
  BY AimedSame, VersionSame
<1>3. SectInv /\ TornInv /\ TrustAim
  BY DEF AimedInv
<1> HIDE DEF Loading
<1>4. LastWritten' <=> LastWritten
  BY <1>1 DEF LastWritten, HooksSame
<1>5. SectionsDone' <=> SectionsDone
  BY <1>1, <1>2 DEF SectionsDone, Inside
<1>6. SectInv'
  BY <1>1, <1>3, <1>4, <1>5 DEF SectInv
<1>7. TornInv'
  BY <1>1, <1>2, <1>3 DEF TornInv
<1>8. TrustAim'
  BY <1>1, <1>2, <1>3 DEF TrustAim
<1> QED BY <1>6, <1>7, <1>8 DEF AimedInv

(* Outside of the download. *)
LEMMA AimedElsewhere ==
  ASSUME Types, AimedInv, HooksSame, phy'.version = phy.version,
         UNCHANGED << mcfg, known, late >>,
         phy'.request = phy.request, phy'.granted = phy.granted,
         ~Downloading' \/ step' = 1,
         hasRam' => Current, ~cut' => ~cut,
         ~Downloading' /\ Current /\ ~cut' => AllAimed
  PROVE  AimedInv'
<1>1. Loading' = Loading /\ NotInEveryImage' = NotInEveryImage
  BY DEF Loading, NotInEveryImage
<1>2. /\ \A u : Aimed(u)' <=> Aimed(u)
      /\ AllAimed' <=> AllAimed
      /\ Current' <=> Current
  BY AimedSame, VersionSame
<1>3. SectInv /\ TornInv /\ TrustAim
  BY DEF AimedInv
<1>4. Len(Loading) \in Nat
  BY LoadingIs
<1> HIDE DEF Loading
<1>5. SectInv'
  BY <1>1, <1>4 DEF SectInv, LastWritten, SectionsDone
<1>6. TornInv'
  BY <1>1, <1>2, <1>3 DEF TornInv, Stopped
<1>7. hasRam' => ~Downloading'
  BY DEF Downloading
<1>8. TrustAim'
  BY <1>1, <1>2, <1>3, <1>7 DEF TrustAim
<1> QED BY <1>5, <1>6, <1>8 DEF AimedInv

(* Every step keeps it. *)
LEMMA AimedStep ==
  ASSUME Types, PollInv, HeldInv, VersionInv, AimedInv, [DownloadNext]_downloadVars
  PROVE  AimedInv'
<1>0. SectInv /\ TornInv /\ TrustAim
  BY DEF AimedInv
<1>1. CASE PhyWritten
  BY <1>1, HooksWritten
<1>2. ASSUME NEW on \in BOOLEAN, Asked(on)
      PROVE  AimedInv'
  <2>1. /\ UNCHANGED << mcfg, known, phase, hasRam, hwVer, step, cut, late >>
        /\ HooksSame /\ phy'.version = phy.version
        /\ phy'.request = on /\ phy'.granted = phy.granted
        /\ step \in 1 .. Len(Script) /\ InScripts /\ Op \in Ops
        /\ Op.op = IF on THEN "setRequest" ELSE "clearRequest"
    BY <1>2 DEF Asked, RestSame, CodeSame, HooksSame, Calling, InScripts
  <2>2. on = TRUE \/ on = FALSE
    OBVIOUS
  <2>3. \A u \in Units : ~Aimed(u) /\ u \notin NotInEveryImage => Stopped'
    <3>1. CASE on = TRUE
      BY <1>0, <2>1, <3>1 DEF TornInv, Stopped
    <3>2. CASE on = FALSE
      <4>1. Op \in Withdraws
        BY <2>1, <3>2 DEF Withdraws
      <4> QED BY <1>0, <2>1, <4>1, AimedBeforeWithdraw DEF TornInv
    <3> QED BY <2>2, <3>1, <3>2
  <2> QED BY <2>1, <2>3, AimedWaits
<1>3. ASSUME NEW on \in BOOLEAN, Polled(on)
      PROVE  AimedInv'
  <2>1. /\ UNCHANGED << mcfg, known, phase, hasRam, hwVer, step, cut, late, phy >>
    BY <1>3 DEF Polled, RestSame
  <2>2. \A u \in Units : ~Aimed(u) /\ u \notin NotInEveryImage => Stopped'
    BY <1>0, <2>1 DEF TornInv, Stopped
  <2> QED BY <2>1, <2>2, AimedWaits DEF HooksSame
<1>4. ASSUME NEW on \in BOOLEAN, Answered(on)
      PROVE  AimedInv'
  <2>1. /\ UNCHANGED << mcfg, known, phase, hasRam, hwVer, cut, phy >>
        /\ InScripts /\ polls > 0
        /\ Op.op = IF on THEN "setRequest" ELSE "clearRequest"
        /\ late' = IF on THEN ~phy.granted ELSE late
        /\ step' = step + 1
    BY <1>4 DEF Answered, Stepping, Calling, InScripts
  <2>2. Loading' = Loading /\ (Downloading' <=> Downloading)
        /\ NotInEveryImage' = NotInEveryImage
    BY <2>1, ScriptStays DEF NotInEveryImage
  <2>3. /\ \A u : Aimed(u)' <=> Aimed(u)
        /\ AllAimed' <=> AllAimed
        /\ Current' <=> Current
    BY <2>1, AimedSame, VersionSame DEF HooksSame
  <2>4. SectInv'
    BY <1>0, <1>4, <2>2, SectionWaits DEF SectInv
  <2>5. TrustAim'
    BY <1>0, <2>1, <2>2, <2>3 DEF TrustAim
  <2>6. on = TRUE \/ on = FALSE
    OBVIOUS
  <2>7. Stopped => Stopped'
    <3>1. CASE on = TRUE
      <4>1. At("setRequest")
        BY <1>4, <3>1 DEF Answered, Calling, At, Op, Busy
      <4>2. phy.request = TRUE
        BY <2>1, <4>1 DEF PollInv
      <4>3. late' = ~phy.granted
        BY <2>1, <3>1
      <4> QED BY <2>1, <4>2, <4>3 DEF Stopped
    <3>2. CASE on = FALSE
      <4>1. late' = late
        BY <2>1, <3>2
      <4> QED BY <2>1, <4>1 DEF Stopped
    <3> QED BY <2>6, <3>1, <3>2
  <2>8. TornInv'
    BY <1>0, <2>2, <2>3, <2>7 DEF TornInv
  <2> QED BY <2>4, <2>5, <2>8 DEF AimedInv
<1>5. CASE Signalled
  <2>1. /\ UNCHANGED << mcfg, known, phase, hasRam, hwVer, step, cut, late >>
        /\ HooksSame /\ phy'.version = phy.version
        /\ phy'.request = phy.request
        /\ \/ phy.request = TRUE /\ phy'.granted = TRUE
           \/ phy.request = FALSE /\ phy'.granted = FALSE
    BY <1>5 DEF Signalled, RestSame, CodeSame, HooksSame
  <2>2. Stopped => Stopped'
    BY <2>1 DEF Stopped
  <2>3. \A u \in Units : ~Aimed(u) /\ u \notin NotInEveryImage => Stopped'
    BY <1>0, <2>2 DEF TornInv
  <2> QED BY <2>1, <2>3, AimedWaits
<1>6. CASE UNCHANGED downloadVars
  <2>1. /\ UNCHANGED << mcfg, known, phase, hasRam, hwVer, step, cut, late, phy >>
    BY <1>6 DEF downloadVars, sw
  <2>2. \A u \in Units : ~Aimed(u) /\ u \notin NotInEveryImage => Stopped'
    BY <1>0, <2>1 DEF TornInv, Stopped
  <2> QED BY <2>1, <2>2, AimedWaits DEF HooksSame
<1>7. CASE MacWritten
  <2>1. /\ UNCHANGED << mcfg, known, phase, hasRam, phy, late, cut >> /\ phase = "mac"
    BY <1>7 DEF MacWritten, Stepping
  <2>2. ~Downloading /\ ~Downloading'
    BY <2>1 DEF Downloading
  <2>3. hasRam' => Current
    BY <2>1 DEF VersionInv
  <2>4. Current /\ ~cut => AllAimed
    BY <1>0, <2>2 DEF TrustAim
  <2> QED BY <2>1, <2>2, <2>3, <2>4, AimedElsewhere DEF HooksSame
<1>8. CASE Attach \/ Rtl812xEnable
  <2>1. /\ UNCHANGED << mcfg, known, phy, late, cut >> /\ phase' = "mac"
        /\ phase \in {"off", "idle"} /\ (hasRam' <=> Current)
    BY <1>8 DEF Attach, Rtl812xEnable, StartPass, Current
  <2>2. ~Downloading /\ ~Downloading'
    BY <2>1 DEF Downloading
  <2>3. Current /\ ~cut => AllAimed
    BY <1>0, <2>2 DEF TrustAim
  <2> QED BY <2>1, <2>2, <2>3, AimedElsewhere DEF HooksSame
<1>9. CASE Rtl812xDisable
  <2>1. /\ UNCHANGED << mcfg, known, hasRam, phy, late, cut >> /\ phase' = "idle"
        /\ phase = "up"
    BY <1>9 DEF Rtl812xDisable
  <2>2. ~Downloading /\ ~Downloading'
    BY <2>1 DEF Downloading
  <2>3. TornInv' /\ SectInv' /\ TrustAim'
    <3>1. Loading' = Loading /\ NotInEveryImage' = NotInEveryImage
      BY <2>1 DEF Loading, NotInEveryImage
    <3>2. /\ \A u : Aimed(u)' <=> Aimed(u)
          /\ AllAimed' <=> AllAimed
          /\ Current' <=> Current
      BY <2>1, AimedSame, VersionSame DEF HooksSame
    <3> QED BY <1>0, <2>1, <2>2, <3>1, <3>2 DEF TornInv, SectInv, TrustAim, Stopped
  <2> QED BY <2>3 DEF AimedInv
<1>10. CASE LosePower
  <2>1. phy' = PhyPoweredOn /\ phase' \in {"off", "idle"}
    BY <1>10 DEF LosePower, sw
  <2>2. \A u \in Units : Aimed(u)'
    BY <2>1, PoweredOnIs DEF Aimed
  <2>3. ~Downloading'
    BY <2>1 DEF Downloading
  <2> QED BY <2>2, <2>3 DEF AimedInv, SectInv, TornInv, TrustAim, AllAimed
<1>11. CASE Stop
  <2>1. /\ UNCHANGED << mcfg, known, phy, late >> /\ phase' = "off"
        /\ hasRam' = FALSE /\ cut' = (cut \/ Announced)
    BY <1>11 DEF Stop
  <2>2. ~Downloading' /\ (~cut' => ~cut /\ ~Announced)
    BY <2>1 DEF Downloading
  <2>3. ASSUME Current, ~cut, ~Announced
        PROVE  AllAimed
    <3>1. CASE Downloading
      <4>1. step > Len(Loading)
        <5>1. phase = "phy" /\ ~hasRam /\ Script = Loading
          BY <3>1, ScriptIs DEF Downloading
        <5>2. ~(step <= Len(Loading))
          BY <2>3, <5>1 DEF Announced, Current
        <5> QED BY <5>2, LoadingIs DEF Types
      <4> QED BY <1>0, <3>1, <4>1, DownloadAims
    <3>2. CASE ~Downloading
      BY <1>0, <2>3, <3>2 DEF TrustAim
    <3> QED BY <3>1, <3>2
  <2> QED BY <2>1, <2>2, <2>3, AimedElsewhere DEF HooksSame
<1>12. CASE Ends
  <2>1. /\ UNCHANGED << mcfg, known, late, cut >> /\ HooksSame
        /\ phy'.version = phy.version
        /\ phy'.request = phy.request /\ phy'.granted = phy.granted
        /\ step' = 1 /\ step = Len(Script) + 1
        /\ Busy
    BY <1>12 DEF Ends, Ended, CodeSame, HooksSame, Busy
  <2>2. CASE phase = "phy"
    <3>0. phase' = "table" /\ (hasRam' <=> hasRam \/ known) /\ ~Downloading'
      BY <1>12, <2>2 DEF Ends, Ended, Downloading
    <3>1. CASE Downloading
      <4>1. step > Len(Loading)
        BY <2>1, <3>1, ScriptIs, LoadingIs
      <4> QED BY <1>0, <2>1, <3>0, <3>1, <4>1, DownloadAims, AimedElsewhere
              DEF VersionInv
    <3>2. CASE ~Downloading
      <4>1. Current /\ ~cut => AllAimed
        BY <1>0, <3>2 DEF TrustAim
      <4>2. hasRam' => Current
        BY <2>2, <3>0, <3>2 DEF VersionInv, InScripts, Downloading
      <4> QED BY <2>1, <3>0, <4>1, <4>2, AimedElsewhere
    <3> QED BY <3>1, <3>2
  <2>3. CASE phase # "phy"
    <3>1. ~Downloading
      BY <2>3 DEF Downloading
    <3>2. hasRam' = hasRam
      BY <1>12, <2>3 DEF Ends, Ended
    <3>3. Current /\ ~cut => AllAimed
      BY <1>0, <3>1 DEF TrustAim
    <3>4. hasRam' => Current
      BY <2>1, <2>3, <3>2 DEF VersionInv, InScripts, Busy
    <3> QED BY <2>1, <3>3, <3>4, AimedElsewhere
  <2> QED BY <2>2, <2>3
<1> QED BY <1>1, <1>2, <1>3, <1>4, <1>5, <1>6, <1>7, <1>8, <1>9, <1>10, <1>11, <1>12,
        StepKinds

(* It implies that the hooks are aimed. *)
LEMMA AimedHooks ==
  ASSUME Types, AimedInv
  PROVE  HooksAimed
<1>1. ASSUME ~phy.granted, ~late, NEW u \in Units, ~Aimed(u)
      PROVE  u \in NotInEveryImage /\ (hasRam => cut)
  <2>1. ~Stopped
    BY <1>1 DEF Stopped
  <2>2. ~AllAimed
    BY <1>1 DEF AllAimed
  <2> QED BY <1>1, <2>1, <2>2 DEF AimedInv, TornInv, TrustAim
<1> QED BY <1>1 DEF HooksAimed

(* The driver knows at all times whether the PHY shows its version. *)
THEOREM VersionKnown == DownloadSpec => []VersionInv
<1>1. DownloadInit => VersionInv
  BY VersionInit
<1>2. Types /\ VersionInv /\ [DownloadNext]_downloadVars => VersionInv'
  BY VersionStep
<1> QED BY <1>1, <1>2, DownloadTypes, PTL DEF DownloadSpec

(* The hooks' invariant holds throughout. *)
THEOREM AimedThroughout == DownloadSpec => []AimedInv
<1>1. DownloadInit => AimedInv
  BY AimedInit
<1>2. /\ Types /\ (PollInv /\ HeldInv) /\ VersionInv /\ AimedInv
      /\ [DownloadNext]_downloadVars
      => AimedInv'
  BY AimedStep
<1> QED BY <1>1, <1>2, DownloadTypes, HeldThroughout, VersionKnown, PTL DEF DownloadSpec

(* A PHY that runs has every enabled hook aimed by the code that is in its *)
(* unit, in spite of stops between any two writes of                       *)
(* rtl812x_init_hw_phy_mcu(), unless a request was given up.               *)
THEOREM HooksStayAimed == DownloadSpec => []HooksAimed
<1>1. Types /\ AimedInv => HooksAimed
  BY AimedHooks
<1> QED BY <1>1, DownloadTypes, AimedThroughout, PTL

-----------------------------------------------------------------------------
(* The code that a download leaves                                         *)

(* A script has data block d. *)
InData(s, d) == \E k \in 1 .. Len(s) : s[k].op = "data" /\ s[k].image = d

(* What the download is made of, as the code that it loads sees it. *)
LEMMA LoadingLoads ==
  ASSUME Types
  PROVE  /\ SetPhyMcu(mcfg) \in Seq(Ops) /\ Len(SetPhyMcu(mcfg)) \in Nat
         /\ Settles(Loading, LockOn, LockOff) /\ Settles(Loading, ModeOn, ModeOff)
         /\ Settles(Loading, RequestOn, Withdraws)
         /\ Leaves(SetPhyMcu(mcfg), Revision(mcfg), Stays(mcfg))
         /\ \E n : Holds(Loading, SetPhyMcu(mcfg), n)
<1>1. PICK U, D, V : Pass(mcfg, Loading, U, D) /\ Load(mcfg, SetPhyMcu(mcfg), U, D, V)
  BY PassIs DEF Types, Loading
<1>2. SetPhyMcu(mcfg) \in Seq(Ops)
  BY <1>1 DEF Load, Block
<1>3. Len(SetPhyMcu(mcfg)) \in Nat
  <2> HIDE DEF Ops
  <2> QED BY <1>2, LenProperties
<1> QED BY <1>1, <1>2, <1>3 DEF Pass, Load, Block

(* The last section for a unit is the same in the download and in the code *)
(* that it loads.                                                          *)
LEMMA LastCodeIs ==
  ASSUME Types, NEW u
  PROVE  /\ ~InCode(Loading, u) => LastCode(SetPhyMcu(mcfg), u) = {"rom", "other"}
         /\ \A i \in 1 .. Len(Loading) :
              /\ Loading[i].op = "code" /\ Loading[i].unit = u
              /\ \A j \in i+1 .. Len(Loading) :
                   ~(Loading[j].op = "code" /\ Loading[j].unit = u)
              => LastCode(SetPhyMcu(mcfg), u) = {Loading[i].image}
<1> DEFINE s == SetPhyMcu(mcfg)
           L == Loading
           writes == {i \in DOMAIN s : s[i].op = "code" /\ s[i].unit = u}
<1>1. PICK n : Holds(L, s, n)
  BY LoadingLoads
<1>2. s \in Seq(Ops) /\ Len(s) \in Nat /\ Len(L) \in Nat
  BY LoadingLoads, LoadingIs
<1>3. DOMAIN s = 1 .. Len(s)
  <2> HIDE DEF s, Ops
  <2> QED BY <1>2
<1>4. LastCode(s, u) = IF writes = {} THEN {"rom", "other"}
                       ELSE {s[CHOOSE i \in writes : \A j \in writes : j <= i].image}
  BY DEF LastCode
<1> HIDE DEF s, L
<1>5. /\ n \in Nat
      /\ \A k \in 1 .. Len(s) : n + k \in 1 .. Len(L) /\ L[n + k] = s[k]
      /\ \A k \in 1 .. Len(L) : L[k].op = "code" => k - n \in 1 .. Len(s)
  BY <1>1 DEF Holds
<1>6. ASSUME ~InCode(L, u)
      PROVE  LastCode(s, u) = {"rom", "other"}
  <2>1. writes = {}
    BY <1>3, <1>5, <1>6 DEF InCode
  <2> QED BY <1>4, <2>1
<1>7. ASSUME NEW i \in 1 .. Len(L), L[i].op = "code", L[i].unit = u,
             \A j \in i+1 .. Len(L) : ~(L[j].op = "code" /\ L[j].unit = u)
      PROVE  LastCode(s, u) = {L[i].image}
  <2> DEFINE k == i - n
  <2>1. k \in 1 .. Len(s) /\ n + k = i
    BY <1>2, <1>5, <1>7
  <2>2. s[k] = L[i]
    BY <1>5, <2>1
  <2> HIDE DEF k
  <2>3. k \in writes
    BY <1>3, <1>7, <2>1, <2>2
  <2>4. ASSUME NEW j \in writes
        PROVE  j <= k
    <3>1. j \in 1 .. Len(s) /\ n + j \in 1 .. Len(L) /\ L[n + j] = s[j]
          /\ s[j].op = "code" /\ s[j].unit = u
      BY <1>3, <1>5
    <3>2. ~(n + j \in i+1 .. Len(L))
      BY <1>7, <3>1
    <3> QED BY <1>2, <1>5, <2>1, <3>1, <3>2
  <2>5. \A i2 \in writes : (\A j \in writes : j <= i2) => i2 = k
    <3>1. \A i2 \in writes : i2 \in Nat
      BY <1>2, <1>3
    <3> HIDE DEF writes
    <3> QED BY <2>3, <2>4, <3>1
  <2>6. (CHOOSE i2 \in writes : \A j \in writes : j <= i2) = k
    <3> HIDE DEF writes
    <3> QED BY <2>3, <2>4, <2>5
  <2>7. writes # {}
    BY <2>3
  <2> HIDE DEF writes
  <2> QED BY <1>4, <2>2, <2>6, <2>7
<1> QED BY <1>6, <1>7 DEF s, L

(* The data of the download are the data of the code that it loads. *)
LEMMA DataIsSame ==
  ASSUME Types, NEW d
  PROVE  d \in DataOf(SetPhyMcu(mcfg)) <=> InData(Loading, d)
<1> DEFINE s == SetPhyMcu(mcfg)
           L == Loading
<1>1. PICK n : Holds(L, s, n)
  BY LoadingLoads
<1>2. s \in Seq(Ops) /\ Len(s) \in Nat /\ Len(L) \in Nat
  BY LoadingLoads, LoadingIs
<1>3. DOMAIN s = 1 .. Len(s)
  <2> HIDE DEF s, Ops
  <2> QED BY <1>2
<1> HIDE DEF s, L
<1>4. /\ n \in Nat
      /\ \A k \in 1 .. Len(s) : n + k \in 1 .. Len(L) /\ L[n + k] = s[k]
      /\ \A k \in 1 .. Len(L) : L[k].op = "data" => k - n \in 1 .. Len(s)
  BY <1>1 DEF Holds
<1>5. ASSUME InData(L, d)
      PROVE  d \in DataOf(s)
  <2>1. PICK k \in 1 .. Len(L) : L[k].op = "data" /\ L[k].image = d
    BY <1>5 DEF InData
  <2>2. k - n \in 1 .. Len(s) /\ s[k - n] = L[k]
    BY <1>2, <1>4, <2>1
  <2> QED BY <1>3, <2>1, <2>2 DEF DataOf
<1>6. ASSUME d \in DataOf(s)
      PROVE  InData(L, d)
  BY <1>3, <1>4, <1>6 DEF DataOf, InData
<1> QED BY <1>5, <1>6 DEF s, L

(* No other revision's code is left over. *)
LEMMA LastCodeIsRevision ==
  ASSUME Types, NEW i \in 1 .. Len(Loading), Loading[i].op = "code",
         \A j \in i+1 .. Len(Loading) :
           ~(Loading[j].op = "code" /\ Loading[j].unit = Loading[i].unit)
  PROVE  \/ Loading[i].image = Revision(mcfg)
         \/ mcfg \in {31, 32} /\ Loading[i].unit = "nc1" /\ Loading[i].image = "8126a_2"
<1> DEFINE s == SetPhyMcu(mcfg)
           L == Loading
<1>1. PICK n : Holds(L, s, n)
  BY LoadingLoads
<1>2. Len(s) \in Nat /\ Len(L) \in Nat /\ Leaves(s, Revision(mcfg), Stays(mcfg))
  BY LoadingLoads, LoadingIs
<1>3. /\ i \in 1 .. Len(L) /\ L[i].op = "code"
      /\ \A j \in i+1 .. Len(L) : ~(L[j].op = "code" /\ L[j].unit = L[i].unit)
  OBVIOUS
<1> HIDE DEF s, L
<1>4. /\ n \in Nat
      /\ \A k \in 1 .. Len(s) : n + k \in 1 .. Len(L) /\ L[n + k] = s[k]
      /\ \A k \in 1 .. Len(L) : L[k].op = "code" => k - n \in 1 .. Len(s)
  BY <1>1 DEF Holds
<1> DEFINE k == i - n
<1>5. k \in 1 .. Len(s) /\ n + k = i
  BY <1>2, <1>3, <1>4
<1>6. s[k] = L[i]
  BY <1>4, <1>5
<1> HIDE DEF k
<1>7. \A j \in k+1 .. Len(s) : ~(s[j].op = "code" /\ s[j].unit = s[k].unit)
  <2> SUFFICES ASSUME NEW j \in k+1 .. Len(s), s[j].op = "code", s[j].unit = s[k].unit
               PROVE  FALSE
    OBVIOUS
  <2>1. j \in 1 .. Len(s)
    BY <1>2, <1>5
  <2>2. n + j \in 1 .. Len(L) /\ L[n + j] = s[j]
    BY <1>4, <2>1
  <2>3. n + j \in i+1 .. Len(L)
    BY <1>2, <1>3, <1>4, <1>5, <2>1, <2>2
  <2> QED BY <1>3, <1>6, <2>2, <2>3
<1>8. s[k].image = Revision(mcfg) \/ << s[k].unit, s[k].image >> \in Stays(mcfg)
  BY <1>2, <1>3, <1>5, <1>6, <1>7 DEF Leaves
<1> QED BY <1>6, <1>8 DEF Stays, L

(* Where the rest of the download begins. *)
From == IF Downloading THEN step ELSE 1

(* One of the operations Off is still to come in this download or, when    *)
(* none is under way, will come in the next one.                           *)
Pending(Off) == \E k \in From .. Len(Loading) : Loading[k] \in Off

(* The last code of this download for unit u was its operation i. *)
WrittenLast(u, i) ==
  /\ Loading[i].op = "code" /\ Loading[i].unit = u
  /\ phy.code[u] = Loading[i].image
  /\ \A j \in i+1 .. step-1 : ~(Loading[j].op = "code" /\ Loading[j].unit = u)

(* A unit that the download has no code for was never touched; the others  *)
(* have the code that was written last.                                    *)
LastInv ==
  /\ \A u \in Units : ~InCode(Loading, u) => phy.code[u] \in {"rom", "other"}
  /\ Downloading =>
       \A u \in Units :
         (\E j \in 1 .. step-1 : Loading[j].op = "code" /\ Loading[j].unit = u)
           => \E i \in 1 .. step-1 : WrittenLast(u, i)

(* The data that are there belong to the code, and those that were passed  *)
(* are there.                                                              *)
DataInv ==
  /\ \A d \in phy.data : InData(Loading, d)
  /\ Downloading => \A j \in 1 .. step-1 :
                      Loading[j].op = "data" => Loading[j].image \in phy.data

(* The lock is open or the mode on only while their closing is still to    *)
(* come.                                                                   *)
LockInv == phy.keyLock = TRUE => Pending(LockOff)
ModeInv == phy.patchMode = TRUE => Pending(ModeOff)

(* One revision's code, as OneRevision has it for one unit. *)
OfRevision(u) ==
  \/ phy.code[u] \in {"rom", "other", Revision(mcfg)}
  \/ mcfg \in {31, 32} /\ u = "nc1" /\ phy.code[u] = "8126a_2"

(* All of the code and the data is there, and nothing was left open. *)
Loaded ==
  /\ \A u \in Units : phy.code[u] \in LastCode(SetPhyMcu(mcfg), u)
  /\ \A u \in Units : OfRevision(u)
  /\ phy.data = DataOf(SetPhyMcu(mcfg))
  /\ ~phy.keyLock /\ ~phy.patchMode

(* A PHY that shows the version has all of it, unless a stop came between. *)
LoadInv == Current /\ ~Downloading /\ ~cut => Loaded

(* The inductive invariant of the PHY's code. *)
CodeInv == LastInv /\ DataInv /\ LockInv /\ ModeInv /\ LoadInv

(* The rest of a download is a part of it. *)
LEMMA FromIs ==
  ASSUME Types
  PROVE  /\ From \in Nat /\ From >= 1 /\ From <= step
         /\ Len(Loading) \in Nat
BY LoadingIs DEF Types, From

(* Nothing is loaded at the start. *)
LEMMA CodeInit ==
  ASSUME DownloadInit
  PROVE  CodeInv
<1>1. /\ \A u \in Units : phy.code[u] \in {"rom", "other"}
      /\ phy.data = {} /\ ~phy.keyLock /\ ~phy.patchMode
  BY PoweredOnIs DEF DownloadInit
<1>2. ~Downloading
  BY DEF DownloadInit, Downloading
<1>3. ~Current
  <2>1. Types
    BY TypesInit
  <2>2. phy.version = "none" \/ phy.version = "other"
    BY PoweredOnIs DEF DownloadInit
  <2> QED BY <2>1, <2>2, VersionNamed DEF Current, CheckHwPhyMcuCodeVer
<1> QED BY <1>1, <1>2, <1>3 DEF CodeInv, LastInv, DataInv, LockInv, ModeInv, LoadInv

(* When a download has run to its end, all is loaded. *)
LEMMA DownloadLoads ==
  ASSUME Types, SectInv, CodeInv, Downloading, step > Len(Loading)
  PROVE  Loaded
<1>1. step = Len(Loading) + 1 /\ Len(Loading) \in Nat /\ step - 1 = Len(Loading)
  BY LoadingIs DEF Types, SectInv
<1>2. LastInv /\ DataInv /\ LockInv /\ ModeInv
  BY DEF CodeInv
<1>3. From = step
  BY DEF From
<1>4. ~phy.keyLock /\ ~phy.patchMode
  <2>1. From .. Len(Loading) = {}
    BY <1>1, <1>3
  <2>2. phy.keyLock \in BOOLEAN /\ phy.patchMode \in BOOLEAN
    BY DEF Types, PhyStates
  <2> QED BY <1>2, <2>1, <2>2 DEF LockInv, ModeInv, Pending
<1>5. phy.data = DataOf(SetPhyMcu(mcfg))
  <2>1. \A d : d \in phy.data <=> InData(Loading, d)
    <3> HIDE DEF Loading
    <3> QED BY <1>1, <1>2 DEF DataInv, InData
  <2> QED BY <2>1, DataIsSame
<1>6. ASSUME NEW u \in Units
      PROVE  phy.code[u] \in LastCode(SetPhyMcu(mcfg), u) /\ OfRevision(u)
  <2>1. CASE InCode(Loading, u)
    <3>1. PICK i \in 1 .. step-1 : WrittenLast(u, i)
      <4> HIDE DEF Loading
      <4> QED BY <1>1, <1>2, <2>1 DEF LastInv, InCode
    <3>2. /\ i \in 1 .. Len(Loading) /\ Loading[i].op = "code" /\ Loading[i].unit = u
          /\ phy.code[u] = Loading[i].image
          /\ \A j \in i+1 .. Len(Loading) :
               ~(Loading[j].op = "code" /\ Loading[j].unit = u)
      BY <1>1, <3>1 DEF WrittenLast
    <3>3. LastCode(SetPhyMcu(mcfg), u) = {Loading[i].image}
      BY <3>2, LastCodeIs
    <3>4. \/ Loading[i].image = Revision(mcfg)
          \/ mcfg \in {31, 32} /\ u = "nc1" /\ Loading[i].image = "8126a_2"
      BY <3>2, LastCodeIsRevision
    <3> QED BY <3>2, <3>3, <3>4 DEF OfRevision
  <2>2. CASE ~InCode(Loading, u)
    BY <1>2, <2>2, LastCodeIs DEF LastInv, OfRevision
  <2> QED BY <2>1, <2>2
<1> QED BY <1>4, <1>5, <1>6 DEF Loaded

(* Steps that leave the PHY's code as it is. *)
LEMMA CodeStays ==
  ASSUME Types, CodeInv, CodeSame, UNCHANGED << mcfg, known >>,
         Downloading' => (Downloading /\ step' = step) \/ step' = 1,
         ~cut' => ~cut,
         Current /\ ~Downloading' /\ ~cut' => Loaded
  PROVE  CodeInv'
<1>1. Loading' = Loading /\ (Current' <=> Current)
  BY VersionSame DEF Loading, CodeSame
<1>2. From' <= From /\ From' \in Nat /\ From \in Nat
  BY FromIs DEF From, Types
<1>3. LastInv /\ DataInv /\ LockInv /\ ModeInv
  BY DEF CodeInv
<1>4. Len(Loading) \in Nat /\ step \in Nat
  BY LoadingIs DEF Types
<1>5. Loaded' <=> Loaded
  <2>1. SetPhyMcu(mcfg)' = SetPhyMcu(mcfg) /\ Revision(mcfg)' = Revision(mcfg)
    BY DEF SetPhyMcu, Revision
  <2> QED BY <2>1 DEF Loaded, OfRevision, CodeSame
<1> HIDE DEF Loading
<1>6. \A Off : Pending(Off) => \E k \in From' .. Len(Loading) : Loading[k] \in Off
  BY <1>2, <1>4 DEF Pending
<1>7. LockInv' /\ ModeInv'
  <2>1. phy'.keyLock = phy.keyLock /\ phy'.patchMode = phy.patchMode
    BY DEF CodeSame
  <2> QED BY <1>1, <1>3, <1>6, <2>1 DEF LockInv, ModeInv, Pending
<1>8. LastInv'
  <2>1. phy'.code = phy.code
    BY DEF CodeSame
  <2>2. CASE Downloading /\ step' = step
    BY <1>1, <1>3, <2>1, <2>2 DEF LastInv, WrittenLast
  <2>3. CASE step' = 1
    BY <1>1, <1>3, <2>1, <2>3 DEF LastInv
  <2>4. CASE ~Downloading'
    BY <1>1, <1>3, <2>1, <2>4 DEF LastInv
  <2> QED BY <2>2, <2>3, <2>4
<1>9. DataInv'
  <2>1. phy'.data = phy.data
    BY DEF CodeSame
  <2> QED BY <1>1, <1>3, <2>1 DEF DataInv
<1>10. LoadInv'
  BY <1>1, <1>5 DEF LoadInv
<1> QED BY <1>7, <1>8, <1>9, <1>10 DEF CodeInv

(* An operation of the download. *)
Advanced ==
  /\ Downloading /\ step \in 1 .. Len(Loading) /\ step' = step + 1
  /\ UNCHANGED << mcfg, known, phase, hasRam, hwVer, cut >>
  /\ phy'.code = IF Op.op = "code" THEN [phy.code EXCEPT ![Op.unit] = Op.image]
                 ELSE phy.code
  /\ phy'.data = IF Op.op = "data" THEN phy.data \cup {Op.image} ELSE phy.data
  /\ phy'.keyLock = IF Op.op = "keylock" THEN Op.open ELSE phy.keyLock
  /\ phy'.patchMode = IF Op.op = "patchMode" THEN Op.on
                      ELSE IF Op.op = "b820" THEN Op.mode ELSE phy.patchMode

(* Writes and answered calls carry out an operation. *)
LEMMA AdvancedIs ==
  ASSUME Types, Downloading,
         PhyWritten \/ \E on \in BOOLEAN : Answered(on)
  PROVE  Advanced
<1>1. step \in 1 .. Len(Loading)
  BY OpOfDownload DEF PhyWritten, Answered, Stepping
<1>2. CASE PhyWritten
  BY <1>1, <1>2 DEF PhyWritten, Stepping, Advanced
<1>3. ASSUME NEW on \in BOOLEAN, Answered(on)
      PROVE  Advanced
  <2>1. Op.op \in {"setRequest", "clearRequest"}
    BY <1>3 DEF Answered, Calling
  <2> QED BY <1>1, <1>3, <2>1 DEF Answered, Stepping, Advanced
<1> QED BY <1>2, <1>3

(* What is to come still is, unless it is the operation itself, *)
LEMMA PendingNext ==
  ASSUME Types, Advanced, NEW Off, Pending(Off), Op \notin Off
  PROVE  \E k \in step' .. Len(Loading) : Loading[k] \in Off
<1>1. PICK k \in step .. Len(Loading) : Loading[k] \in Off
  BY DEF Pending, From, Advanced
<1>2. Op = Loading[step] /\ step \in Nat /\ step' = step + 1 /\ Len(Loading) \in Nat
  BY OpOfDownload, ScriptIs, LoadingIs DEF Advanced, Types
<1> QED BY <1>1, <1>2

(* and what an operation turns on is turned off later. *)
LEMMA PendingSet ==
  ASSUME Types, Advanced, NEW On, NEW Off, Settles(Loading, On, Off), Op \in On
  PROVE  \E k \in step' .. Len(Loading) : Loading[k] \in Off
<1>1. Op = Loading[step] /\ step \in 1 .. Len(Loading) /\ step' = step + 1
  BY OpOfDownload, ScriptIs DEF Advanced
<1> HIDE DEF Loading
<1> QED BY <1>1 DEF Settles

(* The operations of a download keep the invariant, *)
LEMMA CodeAdvances ==
  ASSUME Types, CodeInv, Advanced
  PROVE  CodeInv'
<1>1. /\ Downloading /\ step \in 1 .. Len(Loading) /\ step' = step + 1
      /\ UNCHANGED << mcfg, known, phase, hasRam, hwVer, cut >>
  BY DEF Advanced
<1>2. Loading' = Loading /\ Downloading'
  BY <1>1, ScriptStays
<1>3. From' = step'
  BY <1>2 DEF From
<1>4. /\ Op = Loading[step] /\ Op \in Ops
      /\ Op.op \in {"code", "aim", "enable"} => Op.unit \in Units
  BY <1>1, OpOfDownload, ScriptIs
<1>5. LastInv /\ DataInv /\ LockInv /\ ModeInv
  BY DEF CodeInv
<1>6. step \in Nat /\ step'-1 = step /\ Len(Loading) \in Nat
  BY <1>1, LoadingIs DEF Types
<1>7. /\ phy.code \in [Units -> Names]
      /\ phy.keyLock \in BOOLEAN /\ phy.patchMode \in BOOLEAN
  BY DEF Types, PhyStates
<1>8. /\ Settles(Loading, LockOn, LockOff) /\ Settles(Loading, ModeOn, ModeOff)
  BY LoadingLoads
<1>9. LockInv'
  <2> SUFFICES ASSUME phy'.keyLock = TRUE
               PROVE  \E k \in step' .. Len(Loading) : Loading[k] \in LockOff
    BY <1>2, <1>3 DEF LockInv, Pending
  <2>1. CASE Op.op = "keylock"
    <3>1. Op \in LockOn
      BY <1>4, <2>1 DEF Advanced, LockOn
    <3> QED BY <1>8, <3>1, PendingSet
  <2>2. CASE Op.op # "keylock"
    <3>1. Op \notin LockOff /\ Pending(LockOff)
      BY <1>5, <2>2 DEF Advanced, LockOff, LockInv
    <3> QED BY <3>1, PendingNext
  <2> QED BY <2>1, <2>2
<1>10. ModeInv'
  <2> SUFFICES ASSUME phy'.patchMode = TRUE
               PROVE  \E k \in step' .. Len(Loading) : Loading[k] \in ModeOff
    BY <1>2, <1>3 DEF ModeInv, Pending
  <2>1. CASE Op.op \in {"patchMode", "b820"}
    <3>1. Op \in ModeOn
      BY <1>4, <2>1 DEF Advanced, ModeOn
    <3> QED BY <1>8, <3>1, PendingSet
  <2>2. CASE Op.op \notin {"patchMode", "b820"}
    <3>1. Op \notin ModeOff /\ Pending(ModeOff)
      BY <1>5, <2>2 DEF Advanced, ModeOff, ModeInv
    <3> QED BY <3>1, PendingNext
  <2> QED BY <2>1, <2>2
<1>11. LoadInv'
  BY <1>2 DEF LoadInv
<1> HIDE DEF Loading
<1>12. DataInv'
  <2>1. ASSUME NEW d \in phy'.data
        PROVE  InData(Loading, d)
    <3>1. CASE d \in phy.data
      BY <1>5, <3>1 DEF DataInv
    <3>2. CASE d \notin phy.data
      <4>1. Op.op = "data" /\ d = Op.image
        BY <2>1, <3>2 DEF Advanced
      <4> QED BY <1>1, <1>4, <4>1 DEF InData
    <3> QED BY <3>1, <3>2
  <2>2. ASSUME NEW j \in 1 .. step, Loading[j].op = "data"
        PROVE  Loading[j].image \in phy'.data
    <3>1. CASE j = step
      BY <1>4, <2>2, <3>1 DEF Advanced
    <3>2. CASE j # step
      <4>1. j \in 1 .. step-1
        BY <1>6, <3>2
      <4>2. Loading[j].image \in phy.data
        BY <1>1, <1>5, <2>2, <4>1 DEF DataInv
      <4> QED BY <4>2 DEF Advanced
    <3> QED BY <3>1, <3>2
  <2> QED BY <1>2, <1>6, <2>1, <2>2 DEF DataInv
<1>13. LastInv'
  <2>1. ASSUME NEW u \in Units, ~InCode(Loading, u)
        PROVE  phy'.code[u] \in {"rom", "other"}
    <3>1. ~(Op.op = "code" /\ Op.unit = u)
      BY <1>1, <1>4, <2>1 DEF InCode
    <3>2. phy'.code[u] = phy.code[u]
      BY <1>4, <1>7, <3>1 DEF Advanced
    <3> QED BY <1>5, <2>1, <3>2 DEF LastInv
  <2>2. ASSUME NEW u \in Units,
               \E j \in 1 .. step : Loading[j].op = "code" /\ Loading[j].unit = u
        PROVE  \E i \in 1 .. step :
                 /\ Loading[i].op = "code" /\ Loading[i].unit = u
                 /\ phy'.code[u] = Loading[i].image
                 /\ \A j \in i+1 .. step :
                      ~(Loading[j].op = "code" /\ Loading[j].unit = u)
    <3>1. CASE Op.op = "code" /\ Op.unit = u
      <4>1. phy'.code[u] = Op.image
        BY <1>7, <3>1 DEF Advanced
      <4>2. step \in 1 .. step /\ step+1 .. step = {}
        BY <1>1, <1>6
      <4> QED BY <1>4, <3>1, <4>1, <4>2
    <3>2. CASE ~(Op.op = "code" /\ Op.unit = u)
      <4>1. phy'.code[u] = phy.code[u]
        BY <1>4, <1>7, <3>2 DEF Advanced
      <4>2. \E j \in 1 .. step-1 : Loading[j].op = "code" /\ Loading[j].unit = u
        <5>1. PICK j \in 1 .. step : Loading[j].op = "code" /\ Loading[j].unit = u
          BY <2>2
        <5>2. j # step
          BY <1>4, <3>2, <5>1
        <5>3. j \in 1 .. step-1
          BY <1>6, <5>2
        <5> QED BY <5>1, <5>3
      <4>3. PICK i \in 1 .. step-1 : WrittenLast(u, i)
        BY <1>1, <1>5, <4>2 DEF LastInv
      <4>4. \A j \in i+1 .. step : ~(Loading[j].op = "code" /\ Loading[j].unit = u)
        <5> SUFFICES ASSUME NEW j \in i+1 .. step
                     PROVE  ~(Loading[j].op = "code" /\ Loading[j].unit = u)
          OBVIOUS
        <5>1. j = step \/ j \in i+1 .. step-1
          BY <1>6, <4>3
        <5> QED BY <1>4, <3>2, <4>3, <5>1 DEF WrittenLast
      <4>5. i \in 1 .. step
        BY <1>6
      <4> QED BY <4>1, <4>3, <4>4, <4>5 DEF WrittenLast
    <3> QED BY <3>1, <3>2
  <2> QED BY <1>2, <1>6, <2>1, <2>2 DEF LastInv, WrittenLast
<1> QED BY <1>9, <1>10, <1>11, <1>12, <1>13 DEF CodeInv

(* and so does every step. *)
LEMMA CodeStep ==
  ASSUME Types, SectInv, CodeInv, [DownloadNext]_downloadVars
  PROVE  CodeInv'
<1>0. LoadInv
  BY DEF CodeInv
<1>1. CASE PhyWritten
  <2>1. CASE Downloading
    BY <1>1, <2>1, AdvancedIs, CodeAdvances
  <2>2. CASE ~Downloading
    <3>1. UNCHANGED << mcfg, known, phase, hasRam, hwVer, cut >>
          /\ step \in 1 .. Len(Script) /\ InScripts
      BY <1>1 DEF PhyWritten, Stepping, InScripts
    <3>2. Op.op = "parameters"
      BY <1>1, <2>2, <3>1, OtherScripts DEF PhyWritten
    <3>3. CodeSame
      BY <1>1, <3>2 DEF PhyWritten, CodeSame
    <3>4. ~Downloading'
      BY <2>2, <3>1, ScriptStays
    <3> QED BY <1>0, <2>2, <3>1, <3>3, <3>4, CodeStays DEF LoadInv
  <2> QED BY <2>1, <2>2
<1>2. ASSUME NEW on \in BOOLEAN, Answered(on)
      PROVE  CodeInv'
  <2>1. CASE Downloading
    BY <1>2, <2>1, AdvancedIs, CodeAdvances
  <2>2. CASE ~Downloading
    <3>1. UNCHANGED << mcfg, known, phase, hasRam, hwVer, cut, phy >>
      BY <1>2 DEF Answered, Stepping
    <3>2. ~Downloading' /\ CodeSame
      BY <2>2, <3>1, ScriptStays DEF CodeSame
    <3> QED BY <1>0, <2>2, <3>1, <3>2, CodeStays DEF LoadInv
  <2> QED BY <2>1, <2>2
<1>3. CASE \/ \E on \in BOOLEAN : Asked(on) \/ Polled(on)
           \/ Signalled \/ UNCHANGED downloadVars
  <2>1. UNCHANGED << mcfg, known, phase, hasRam, hwVer, cut, step >> /\ CodeSame
    BY <1>3 DEF Asked, Polled, Signalled, RestSame, CodeSame, downloadVars, sw
  <2>2. Downloading' <=> Downloading
    BY <2>1, ScriptStays
  <2> QED BY <1>0, <2>1, <2>2, CodeStays DEF LoadInv
<1>4. CASE MacWritten \/ Attach \/ Rtl812xEnable \/ Rtl812xDisable
  <2>1. UNCHANGED << mcfg, known, phy, cut >> /\ phase # "phy" /\ phase' # "phy"
    BY <1>4 DEF MacWritten, Stepping, Attach, Rtl812xEnable, StartPass, Rtl812xDisable
  <2>2. ~Downloading /\ ~Downloading' /\ CodeSame
    BY <2>1 DEF Downloading, CodeSame
  <2> QED BY <1>0, <2>1, <2>2, CodeStays DEF LoadInv
<1>5. CASE Stop
  <2>1. /\ UNCHANGED << mcfg, known, phy >> /\ phase' = "off"
        /\ cut' = (cut \/ Announced)
    BY <1>5 DEF Stop
  <2>2. ~Downloading' /\ (~cut' => ~cut /\ ~Announced) /\ CodeSame
    BY <2>1 DEF Downloading, CodeSame
  <2>3. ASSUME Current, ~cut, ~Announced
        PROVE  Loaded
    <3>1. CASE Downloading
      <4>1. step > Len(Loading)
        <5>1. phase = "phy" /\ ~hasRam /\ Script = Loading
          BY <3>1, ScriptIs DEF Downloading
        <5>2. ~(step <= Len(Loading))
          BY <2>3, <5>1 DEF Announced, Current
        <5> QED BY <5>2, LoadingIs DEF Types
      <4> QED BY <3>1, <4>1, DownloadLoads
    <3>2. CASE ~Downloading
      BY <1>0, <2>3, <3>2 DEF LoadInv
    <3> QED BY <3>1, <3>2
  <2> QED BY <2>1, <2>2, <2>3, CodeStays
<1>6. CASE Ends
  <2>1. /\ UNCHANGED << mcfg, known, cut >> /\ CodeSame
        /\ step' = 1 /\ step = Len(Script) + 1
    BY <1>6 DEF Ends, Ended
  <2>2. CASE Downloading
    <3>1. step > Len(Loading)
      BY <2>1, <2>2, ScriptIs, LoadingIs
    <3> QED BY <2>1, <2>2, <3>1, DownloadLoads, CodeStays
  <2>3. CASE ~Downloading
    BY <1>0, <2>1, <2>3, CodeStays DEF LoadInv
  <2> QED BY <2>2, <2>3
<1>7. CASE LosePower
  <2>1. phy' = PhyPoweredOn /\ phase' \in {"off", "idle"} /\ UNCHANGED mcfg
    BY <1>7 DEF LosePower, sw
  <2>2. /\ \A u \in Units : phy'.code[u] \in {"rom", "other"}
        /\ phy'.data = {} /\ ~phy'.keyLock /\ ~phy'.patchMode
        /\ phy'.version = "none"
    BY <2>1, PoweredOnIs
  <2>3. ~Downloading'
    BY <2>1 DEF Downloading
  <2>4. ~Current'
    BY <2>1, <2>2, VersionNamed DEF Current, CheckHwPhyMcuCodeVer
  <2> QED BY <2>2, <2>3, <2>4 DEF CodeInv, LastInv, DataInv, LockInv, ModeInv, LoadInv
<1> QED BY <1>1, <1>2, <1>3, <1>4, <1>5, <1>6, <1>7, StepKinds

-----------------------------------------------------------------------------
(* The request and the table of parameters                                 *)

(* The table of parameters, and the rest of it. *)
Parameterised == PhyTable(mcfg)

Left == IF phase = "table" THEN step ELSE 1

(* A withdrawal of the request is still to come in the table. *)
Owed == \E k \in Left .. Len(Parameterised) : Parameterised[k] \in Withdraws

(* A request that is set is withdrawn later in the download or in the      *)
(* table that follows.                                                     *)
RequestInv ==
  known /\ ~cut /\ phy.request = TRUE =>
    /\ Downloading \/ ~Current => Pending(Withdraws)
    /\ ~Downloading /\ Current => Owed

(* The groups of the table that were passed are tuned. *)
TuneInv ==
  phase = "table" /\ hasRam =>
    \A j \in 1 .. step-1 :
      Parameterised[j].op = "parameters" => Parameterised[j].kind \in phy.tuned

(* The chip is up and trusted, or its link was kept so that the next       *)
(* enabling leaves the PHY alone.                                          *)
Kept ==
  \/ phase = "up" /\ hasRam
  \/ phase = "idle" /\ keep /\ Current
  \/ phase = "mac" /\ resume /\ Current

(* Then the request is back and all of the table is tuned. *)
KeptInv ==
  /\ Kept /\ ~cut => phy.request = FALSE /\ KindsOf(Parameterised) \subseteq phy.tuned
  /\ phase = "mac" /\ goal = "idle" => ~keep /\ ~resume

(* What the table is. *)
LEMMA TableIs ==
  ASSUME Types
  PROVE  /\ Parameterised \in Seq(Ops) /\ Len(Parameterised) \in Nat
         /\ DOMAIN Parameterised = 1 .. Len(Parameterised)
         /\ Settles(Parameterised, RequestOn, Withdraws)
<1>1. Parameterised \in Seq(Ops) /\ Settles(Parameterised, RequestOn, Withdraws)
  BY Tables DEF Types, Parameterised, Table
<1> HIDE DEF Parameterised, Ops
<1>2. Len(Parameterised) \in Nat /\ DOMAIN Parameterised = 1 .. Len(Parameterised)
  BY <1>1, LenProperties
<1> QED BY <1>1, <1>2

(* A request that stays as it is is still withdrawn later. *)
LEMMA RequestStays ==
  ASSUME Types, Types', RequestInv, UNCHANGED << mcfg, known >>,
         phy'.request = phy.request, phy'.version = phy.version,
         ~cut' => ~cut, From' <= From, Left' <= Left,
         Downloading' => Downloading \/ ~Current,
         known /\ phy.request = TRUE /\ ~Downloading' /\ Current /\ ~cut'
           => ~Downloading
  PROVE  RequestInv'
<1>1. /\ Loading' = Loading /\ Parameterised' = Parameterised
      /\ Current' <=> Current
  BY VersionSame DEF Loading, Parameterised, PhyTable
<1>2. /\ From \in Nat /\ From' \in Nat /\ Left \in Nat /\ Left' \in Nat
      /\ Len(Loading) \in Nat /\ Len(Parameterised) \in Nat
  BY FromIs, TableIs DEF Types, From, Left
<1> HIDE DEF Loading, Parameterised
<1>3. Pending(Withdraws) => Pending(Withdraws)'
  <2>1. Pending(Withdraws)
          => \E k \in From' .. Len(Loading) : Loading[k] \in Withdraws
    BY <1>2 DEF Pending
  <2> QED BY <1>1, <2>1 DEF Pending
<1>4. Owed => Owed'
  <2>1. Owed => \E k \in Left' .. Len(Parameterised) : Parameterised[k] \in Withdraws
    BY <1>2 DEF Owed
  <2> QED BY <1>1, <2>1 DEF Owed
<1> QED BY <1>1, <1>3, <1>4 DEF RequestInv

(* At the start no request is set. *)
LEMMA RequestInit ==
  ASSUME DownloadInit
  PROVE  RequestInv /\ TuneInv /\ KeptInv
<1>1. ~phy.request
  BY PoweredOnIs DEF DownloadInit
<1>2. ~Kept
  BY DEF DownloadInit, Kept
<1> QED BY <1>1, <1>2 DEF DownloadInit, RequestInv, TuneInv, KeptInv

(* The request is withdrawn in the rest of the script that runs.             *)
LEMMA RequestStep ==
  ASSUME Types, PollInv, VersionInv, RequestInv, [DownloadNext]_downloadVars
  PROVE  RequestInv'
<1>0. Types' /\ step \in Nat /\ step >= 1
  BY TypesStep DEF Types
<1>1. CASE PhyWritten
  <2>1. /\ UNCHANGED << mcfg, known, phase, hasRam, hwVer, cut >> /\ step' = step + 1
        /\ step \in 1 .. Len(Script) /\ InScripts /\ Op \in Ops
        /\ Op.op \notin {"setRequest", "clearRequest"}
        /\ phy'.request = IF Op.op = "b820" THEN Op.request ELSE phy.request
        /\ phy'.version = IF Op.op = "version" THEN Op.value ELSE phy.version
    BY <1>1 DEF PhyWritten, Stepping, InScripts
  <2>2. Loading' = Loading /\ (Downloading' <=> Downloading)
        /\ Parameterised' = Parameterised
    BY <2>1, ScriptStays DEF Parameterised, PhyTable
  <2>3. CASE Downloading
    <3>1. Advanced
      BY <1>1, <2>3, AdvancedIs
    <3>2. ASSUME known, ~cut, phy'.request = TRUE
          PROVE  \E k \in step' .. Len(Loading) : Loading[k] \in Withdraws
      <4>1. CASE Op.op = "b820"
        <5>1. Op \in RequestOn
          BY <2>1, <3>2, <4>1 DEF RequestOn
        <5> QED BY <3>1, <5>1, PendingSet, LoadingLoads
      <4>2. CASE Op.op # "b820"
        <5>1. Op \notin Withdraws
          BY <2>1, <4>2 DEF Withdraws
        <5>2. Pending(Withdraws)
          BY <2>1, <2>3, <3>2, <4>2 DEF RequestInv
        <5> QED BY <3>1, <5>1, <5>2, PendingNext
      <4> QED BY <4>1, <4>2
    <3>3. From' = step'
      BY <2>2, <2>3 DEF From
    <3> QED BY <2>1, <2>2, <2>3, <3>2, <3>3 DEF RequestInv, Pending
  <2>4. CASE ~Downloading
    <3>1. Op.op = "parameters"
      BY <2>1, <2>4, OtherScripts
    <3>2. /\ phy'.request = phy.request /\ phy'.version = phy.version
          /\ Op \notin Withdraws
      BY <2>1, <3>1 DEF Withdraws
    <3>3. Current' <=> Current
      BY <2>1, <3>2, VersionSame
    <3>4. From' = From /\ From = 1
      BY <2>2, <2>4 DEF From
    <3>5. Owed => Owed'
      <4>1. CASE phase = "table"
        <5>1. Op = Parameterised[step]
          BY <4>1, ScriptIs DEF Op, Parameterised
        <5>2. Owed => \E k \in step' .. Len(Parameterised) :
                                 Parameterised[k] \in Withdraws
          BY <1>0, <2>1, <3>2, <4>1, <5>1, TableIs DEF Owed, Left
        <5> QED BY <2>1, <2>2, <4>1, <5>2 DEF Owed, Left
      <4>2. CASE phase # "table"
        BY <2>1, <2>2, <4>2 DEF Owed, Left
      <4> QED BY <4>1, <4>2
    <3> QED BY <2>1, <2>2, <2>4, <3>2, <3>3, <3>4, <3>5 DEF RequestInv, Pending
  <2> QED BY <2>3, <2>4
<1>2. ASSUME NEW on \in BOOLEAN, Asked(on)
      PROVE  RequestInv'
  <2>1. /\ UNCHANGED << mcfg, known, phase, hasRam, hwVer, cut, step >>
        /\ step \in 1 .. Len(Script) /\ InScripts /\ Op \in Ops
        /\ Op.op = IF on THEN "setRequest" ELSE "clearRequest"
        /\ phy'.request = on /\ phy'.version = phy.version
    BY <1>2 DEF Asked, Calling, RestSame, CodeSame, InScripts
  <2>2. Loading' = Loading /\ (Downloading' <=> Downloading)
        /\ Parameterised' = Parameterised /\ (Current' <=> Current)
    BY <2>1, ScriptStays, VersionSame DEF Parameterised, PhyTable
  <2>3. CASE on = TRUE
    <3>1. Op \in RequestOn
      BY <2>1, <2>3 DEF RequestOn
    <3>2. CASE Downloading
      <4>1. step \in 1 .. Len(Loading) /\ Op = Loading[step]
        BY <2>1, <3>2, OpOfDownload
      <4>2. Settles(Loading, RequestOn, Withdraws)
        BY LoadingLoads
      <4> HIDE DEF Loading
      <4>3. PICK k \in step+1 .. Len(Loading) : Loading[k] \in Withdraws
        BY <3>1, <4>1, <4>2 DEF Settles
      <4>4. k \in step .. Len(Loading)
        BY <1>0
      <4> QED BY <2>1, <2>2, <3>2, <4>3, <4>4 DEF RequestInv, Pending, From
    <3>3. CASE ~Downloading
      <4>1. phase = "table"
        BY <2>1, <2>3, <3>3, OtherScripts DEF InScripts
      <4>2. known => Current
        BY <4>1 DEF VersionInv
      <4>3. step \in 1 .. Len(Parameterised) /\ Op = Parameterised[step]
        BY <2>1, <4>1, ScriptIs DEF Parameterised, Op
      <4>4. Settles(Parameterised, RequestOn, Withdraws)
        BY TableIs
      <4> HIDE DEF Parameterised
      <4>5. PICK k \in step+1 .. Len(Parameterised) : Parameterised[k] \in Withdraws
        BY <3>1, <4>3, <4>4 DEF Settles
      <4>6. k \in step .. Len(Parameterised)
        BY <1>0
      <4> QED BY <2>1, <2>2, <3>3, <4>1, <4>2, <4>5, <4>6 DEF RequestInv, Owed, Left
    <3> QED BY <3>2, <3>3
  <2>4. CASE on = FALSE
    BY <2>1, <2>4 DEF RequestInv
  <2> QED BY <2>3, <2>4
<1>3. CASE \/ \E on \in BOOLEAN : Polled(on)
           \/ Signalled \/ UNCHANGED downloadVars
  <2>1. /\ UNCHANGED << mcfg, known, phase, hasRam, hwVer, cut, step >>
        /\ phy'.request = phy.request /\ phy'.version = phy.version
    BY <1>3 DEF Polled, Signalled, RestSame, CodeSame, downloadVars, sw
  <2>2. Downloading' <=> Downloading
    BY <2>1, ScriptStays
  <2>3. From' <= From /\ Left' <= Left
    BY <1>0, <2>1, <2>2 DEF From, Left
  <2> QED BY <1>0, <2>1, <2>2, <2>3, RequestStays
<1>4. ASSUME NEW on \in BOOLEAN, Answered(on)
      PROVE  RequestInv'
  <2>1. /\ UNCHANGED << mcfg, known, phase, hasRam, hwVer, cut, phy >>
        /\ step' = step + 1
        /\ step \in 1 .. Len(Script) /\ InScripts /\ polls > 0
        /\ Op.op = IF on THEN "setRequest" ELSE "clearRequest"
    BY <1>4 DEF Answered, Stepping, Calling, InScripts
  <2>2. Loading' = Loading /\ (Downloading' <=> Downloading)
        /\ Parameterised' = Parameterised /\ (Current' <=> Current)
    BY <2>1, ScriptStays, VersionSame DEF Parameterised, PhyTable
  <2>3. CASE on = TRUE
    <3>1. Op \notin Withdraws
      BY <2>1, <2>3 DEF Withdraws
    <3>2. CASE Downloading
      <4>1. Advanced
        BY <1>4, <3>2, AdvancedIs
      <4>2. Pending(Withdraws) => Pending(Withdraws)'
        <5>1. From' = step'
          BY <2>2, <3>2 DEF From
        <5>2. Pending(Withdraws)
                => \E k \in step' .. Len(Loading) : Loading[k] \in Withdraws
          BY <3>1, <4>1, PendingNext
        <5> QED BY <2>2, <5>1, <5>2 DEF Pending
      <4> QED BY <2>1, <2>2, <3>2, <4>2 DEF RequestInv
    <3>3. CASE ~Downloading
      <4>1. phase = "table"
        BY <2>1, <2>3, <3>3, OtherScripts DEF InScripts
      <4>2. Op = Parameterised[step]
        BY <4>1, ScriptIs DEF Op, Parameterised
      <4>3. Owed => \E k \in step' .. Len(Parameterised) :
                               Parameterised[k] \in Withdraws
        BY <1>0, <2>1, <3>1, <4>1, <4>2, TableIs DEF Owed, Left
      <4>4. Owed => Owed'
        BY <2>1, <2>2, <4>1, <4>3 DEF Owed, Left
      <4>5. known => Current
        BY <4>1 DEF VersionInv
      <4> QED BY <2>1, <2>2, <3>3, <4>4, <4>5 DEF RequestInv
    <3> QED BY <3>2, <3>3
  <2>4. CASE on = FALSE
    <3>1. At("clearRequest")
      BY <1>4, <2>4 DEF Answered, Calling, At, Op, Busy
    <3>2. phy.request = FALSE
      BY <2>1, <3>1 DEF PollInv
    <3> QED BY <2>1, <3>2 DEF RequestInv
  <2> QED BY <2>3, <2>4
<1>5. CASE MacWritten \/ Attach \/ Rtl812xEnable \/ Rtl812xDisable
  <2>1. /\ UNCHANGED << mcfg, known, phy, cut >>
        /\ phase \notin {"phy", "table"} /\ phase' \notin {"phy", "table"}
    BY <1>5 DEF MacWritten, Stepping, Attach, Rtl812xEnable, StartPass, Rtl812xDisable
  <2>2. ~Downloading /\ ~Downloading'
    BY <2>1 DEF Downloading
  <2>3. From' <= From /\ Left' <= Left
    BY <2>1, <2>2 DEF From, Left
  <2> QED BY <1>0, <2>1, <2>2, <2>3, RequestStays
<1>6. CASE Stop
  <2>1. /\ UNCHANGED << mcfg, known, phy >> /\ phase' = "off"
        /\ cut' = (cut \/ Announced)
    BY <1>6 DEF Stop
  <2>2. ~Downloading' /\ (~cut' => ~cut /\ ~Announced)
    BY <2>1 DEF Downloading
  <2>3. From' <= From /\ Left' <= Left
    BY <1>0, <2>1, <2>2 DEF From, Left
  <2>4. ASSUME known, phy.request = TRUE, Current, ~cut'
        PROVE  ~Downloading
    <3> SUFFICES ASSUME Downloading
                 PROVE  FALSE
      OBVIOUS
    <3>1. phase = "phy" /\ ~hasRam /\ Script = Loading
      BY ScriptIs DEF Downloading
    <3>2. ~(step <= Len(Loading))
      BY <2>2, <2>4, <3>1 DEF Announced, Current
    <3>3. Pending(Withdraws)
      BY <2>2, <2>4 DEF RequestInv
    <3> QED BY <1>0, <3>2, <3>3, LoadingIs DEF Pending, From
  <2> QED BY <1>0, <2>1, <2>2, <2>3, <2>4, RequestStays
<1>7. CASE Ends
  <2>1. /\ UNCHANGED << mcfg, known, cut >> /\ step' = 1 /\ step = Len(Script) + 1
        /\ phy'.request = phy.request /\ phy'.version = phy.version
    BY <1>7 DEF Ends, Ended, CodeSame
  <2>2. From' <= From /\ Left' <= Left
    BY <1>0, <2>1 DEF From, Left
  <2>3. Downloading' => ~Current
    BY <1>7 DEF Ends, Ended, Downloading, VersionInv
  <2>4. ASSUME known, phy.request = TRUE, ~cut'
        PROVE  ~Downloading
    <3> SUFFICES ASSUME Downloading
                 PROVE  FALSE
      OBVIOUS
    <3>1. step = Len(Loading) + 1
      BY <2>1, ScriptIs
    <3>2. Pending(Withdraws)
      BY <2>1, <2>4 DEF RequestInv
    <3> QED BY <1>0, <3>1, <3>2, LoadingIs DEF Pending, From
  <2> QED BY <1>0, <2>1, <2>2, <2>3, <2>4, RequestStays
<1>8. CASE LosePower
  <2>1. phy'.request = FALSE
    BY <1>8, PoweredOnIs DEF LosePower
  <2> QED BY <2>1 DEF RequestInv
<1> QED BY <1>1, <1>2, <1>3, <1>4, <1>5, <1>6, <1>7, <1>8, StepKinds

(* The passed groups stay tuned. *)
LEMMA TuneStep ==
  ASSUME Types, TuneInv, [DownloadNext]_downloadVars
  PROVE  TuneInv'
<1>0. step \in Nat /\ step >= 1
  BY DEF Types
<1>1. CASE PhyWritten \/ \E on \in BOOLEAN : Answered(on)
  <2>1. /\ UNCHANGED << mcfg, phase, hasRam >> /\ step' = step + 1
        /\ step \in 1 .. Len(Script)
        /\ phy'.tuned = IF Op.op = "parameters" /\ MayTune(Op.kind)
                        THEN phy.tuned \cup {Op.kind} ELSE phy.tuned
    <3>1. CASE PhyWritten
      BY <3>1 DEF PhyWritten, Stepping
    <3>2. ASSUME NEW on \in BOOLEAN, Answered(on)
          PROVE  /\ UNCHANGED << mcfg, phase, hasRam, phy >> /\ step' = step + 1
                 /\ step \in 1 .. Len(Script) /\ Op.op # "parameters"
      BY <3>2 DEF Answered, Stepping, Calling
    <3> QED BY <1>1, <3>1, <3>2
  <2>2. Parameterised' = Parameterised
    BY <2>1 DEF Parameterised, PhyTable
  <2> SUFFICES ASSUME phase = "table", hasRam, NEW j \in 1 .. step,
                      Parameterised[j].op = "parameters"
               PROVE  Parameterised[j].kind \in phy'.tuned
    BY <1>0, <2>1, <2>2 DEF TuneInv
  <2>3. Op = Parameterised[step]
    BY ScriptIs DEF Op, Parameterised
  <2>4. CASE j = step
    BY <2>1, <2>3, <2>4 DEF MayTune
  <2>5. CASE j # step
    <3>1. j \in 1 .. step-1
      BY <1>0, <2>5
    <3>2. Parameterised[j].kind \in phy.tuned
      BY <3>1 DEF TuneInv
    <3> QED BY <2>1, <3>2
  <2> QED BY <2>4, <2>5
<1>2. CASE \/ \E on \in BOOLEAN : Asked(on) \/ Polled(on)
           \/ Signalled \/ UNCHANGED downloadVars
  <2>1. UNCHANGED << mcfg, phase, hasRam, step >> /\ phy'.tuned = phy.tuned
    BY <1>2 DEF Asked, Polled, Signalled, RestSame, downloadVars, sw
  <2>2. Parameterised' = Parameterised
    BY <2>1 DEF Parameterised, PhyTable
  <2> QED BY <2>1, <2>2 DEF TuneInv
<1>3. CASE \/ MacWritten \/ Attach \/ Rtl812xEnable \/ Rtl812xDisable
           \/ Stop \/ LosePower \/ Ends
  <2>1. phase' # "table" \/ step' = 1
    BY <1>3, Elsewhere DEF InScripts
  <2> QED BY <2>1 DEF TuneInv
<1> QED BY <1>1, <1>2, <1>3, StepKinds

(* At the end of the table all of its groups are tuned. *)
LEMMA TableTunes ==
  ASSUME Types, TuneInv, phase = "table", hasRam, step = Len(Script) + 1
  PROVE  KindsOf(Parameterised) \subseteq phy.tuned
<1>1. Script = Parameterised /\ Len(Parameterised) \in Nat
      /\ DOMAIN Parameterised = 1 .. Len(Parameterised)
  BY ScriptIs, TableIs DEF Parameterised
<1>2. step-1 = Len(Parameterised)
  BY <1>1
<1> HIDE DEF Parameterised
<1> QED BY <1>1, <1>2 DEF TuneInv, KindsOf

(* A kept link keeps them. *)
LEMMA KeptStep ==
  ASSUME Types, VersionInv, RequestInv, TuneInv, KeptInv, [DownloadNext]_downloadVars
  PROVE  KeptInv'
<1>1. phy.request \in BOOLEAN
  BY DEF Types, PhyStates
<1> DEFINE Good == phy.request = FALSE /\ KindsOf(Parameterised) \subseteq phy.tuned
<1>2. ASSUME mcfg' = mcfg, phy'.request = phy.request, phy'.tuned = phy.tuned
       PROVE  Good' <=> Good
  <2>1. KindsOf(Parameterised)' = KindsOf(Parameterised)
    BY <1>2 DEF Parameterised, PhyTable
  <2> QED BY <1>2, <2>1
<1>3. KeptInv <=> /\ (Kept /\ ~cut => Good)
                  /\ (phase = "mac" /\ goal = "idle" => ~keep /\ ~resume)
  BY DEF KeptInv
<1>4. KeptInv' <=> /\ (Kept' /\ ~cut' => Good')
                   /\ (phase' = "mac" /\ goal' = "idle" => ~keep' /\ ~resume')
  BY DEF KeptInv
<1> HIDE DEF Good
<1>5. CASE \/ PhyWritten
           \/ \E on \in BOOLEAN : Asked(on) \/ Polled(on) \/ Answered(on)
  <2>1. phase' \in {"phy", "table"}
    BY <1>5 DEF PhyWritten, Stepping, Asked, Polled, Answered, RestSame, Calling
  <2> QED BY <2>1, <1>4 DEF Kept
<1>6. CASE MacWritten \/ Signalled \/ UNCHANGED downloadVars
  <2>1. /\ UNCHANGED << mcfg, phase, goal, hasRam, keep, resume, cut >>
        /\ phy'.request = phy.request /\ phy'.tuned = phy.tuned
        /\ phy'.version = phy.version
    BY <1>6 DEF MacWritten, Stepping, Signalled, RestSame, CodeSame, downloadVars, sw
  <2>2. (Current' <=> Current) /\ (Good' <=> Good)
    BY <1>2, <2>1, VersionSame
  <2> QED BY <1>3, <1>4, <2>1, <2>2 DEF Kept
<1>7. CASE Attach
  <2>1. phase' = "mac" /\ keep' = FALSE /\ resume' = FALSE
    BY <1>7 DEF Attach, StartPass
  <2> QED BY <1>4, <2>1 DEF Kept
<1>8. CASE Rtl812xEnable
  <2>1. /\ phase = "idle" /\ phase' = "mac" /\ goal' = "up"
        /\ UNCHANGED << mcfg, phy, cut >>
        /\ resume' => keep /\ Current
    BY <1>8 DEF Rtl812xEnable, StartPass, Current
  <2>2. Good' <=> Good
    BY <1>2, <2>1
  <2> QED BY <1>3, <1>4, <2>1, <2>2 DEF Kept
<1>9. CASE Rtl812xDisable
  <2>1. /\ phase = "up" /\ phase' = "idle" /\ UNCHANGED << mcfg, phy, cut >>
    BY <1>9 DEF Rtl812xDisable
  <2>2. (Current' <=> Current) /\ (Good' <=> Good)
    BY <1>2, <2>1, VersionSame
  <2>3. Current => hasRam
    BY <2>1 DEF VersionInv
  <2> QED BY <1>3, <1>4, <2>1, <2>2, <2>3 DEF Kept
<1>10. CASE Stop
  <2>1. phase' = "off"
    BY <1>10 DEF Stop
  <2> QED BY <1>4, <2>1 DEF Kept
<1>11. CASE LosePower
  <2>1. phase' \in {"off", "idle"} /\ phy' = PhyPoweredOn /\ mcfg' = mcfg
    BY <1>11 DEF LosePower, sw
  <2>2. ~Current'
    BY <2>1, PoweredOnIs, VersionNamed DEF Current, CheckHwPhyMcuCodeVer
  <2> QED BY <1>4, <2>1, <2>2 DEF Kept
<1>12. CASE Ends
  <2>1. /\ UNCHANGED << mcfg, known, cut, keep, resume, goal >>
        /\ phy'.request = phy.request /\ phy'.version = phy.version
        /\ step = Len(Script) + 1
    BY <1>12 DEF Ends, Ended, CodeSame
  <2>2. CASE phase = "mac" /\ goal = "idle"
    <3>1. phase' = "idle" /\ ~keep'
      BY <1>12, <1>3, <2>1, <2>2 DEF Ends, Ended
    <3> QED BY <1>4, <3>1 DEF Kept
  <2>3. CASE phase = "mac" /\ goal = "up" /\ resume
    <3>1. phase' = "up" /\ phy' = phy /\ hasRam' = hasRam
      BY <1>12, <2>3 DEF Ends, Ended
    <3>2. hasRam => Current
      BY <2>3 DEF VersionInv
    <3>3. Good' <=> Good
      BY <1>2, <2>1, <3>1
    <3> QED BY <1>3, <1>4, <2>1, <2>3, <3>1, <3>2, <3>3 DEF Kept
  <2>4. CASE (phase = "mac" /\ goal = "up" /\ ~resume) \/ phase = "phy"
    <3>1. phase' \in {"phy", "table"}
      BY <1>12, <2>4 DEF Ends, Ended
    <3> QED BY <1>4, <3>1 DEF Kept
  <2>5. CASE phase = "table"
    <3>1. phase' = "up" /\ phy' = phy /\ hasRam' = hasRam
      BY <1>12, <2>5 DEF Ends, Ended
    <3>2. Good' <=> Good
      BY <1>2, <2>1, <3>1
    <3>3. ASSUME hasRam, ~cut
          PROVE  Good
      <4>1. known /\ Current /\ ~Downloading
        BY <2>5, <3>3 DEF VersionInv, Downloading
      <4>2. ~Owed
        BY <2>1, <2>5, ScriptIs, TableIs DEF Owed, Left, Parameterised
      <4>3. phy.request = FALSE
        BY <1>1, <3>3, <4>1, <4>2 DEF RequestInv
      <4> QED BY <2>1, <2>5, <3>3, <4>3, TableTunes DEF Good
    <3> QED BY <1>4, <2>1, <3>1, <3>2, <3>3 DEF Kept
  <2> QED BY <1>12, <2>2, <2>3, <2>4, <2>5 DEF Ends, Ended
<1> QED BY <1>5, <1>6, <1>7, <1>8, <1>9, <1>10, <1>11, <1>12, StepKinds

(* What holds of a chip that is up and trusted, *)
LEMMA Trusted ==
  ASSUME Types, VersionInv, LoadInv, KeptInv, phase = "up", hasRam, ~cut
  PROVE  /\ Loaded
         /\ phy.request = FALSE /\ KindsOf(Parameterised) \subseteq phy.tuned
<1>1. Current /\ ~Downloading
  BY DEF VersionInv, Downloading
<1> QED BY <1>1 DEF LoadInv, KeptInv, Kept

(* in the terms of the two properties. *)
LEMMA TrustedComplete ==
  ASSUME Types, VersionInv, LoadInv, KeptInv
  PROVE  TrustedIsComplete /\ OneRevision
<1>1. mcfg \in Methods
  BY DEF Types
<1>2. /\ \A u \in Units : Final[mcfg][u] = LastCode(SetPhyMcu(mcfg), u)
      /\ AllData[mcfg] = DataOf(SetPhyMcu(mcfg))
      /\ AllKinds[mcfg] = KindsOf(Parameterised)
  BY <1>1 DEF Final, AllData, AllKinds, Parameterised
<1>3. ASSUME phase = "up", hasRam, ~cut
      PROVE  /\ \A u \in Units : phy.code[u] \in Final[mcfg][u]
             /\ phy.data = AllData[mcfg]
             /\ AllKinds[mcfg] \subseteq phy.tuned
             /\ ~phy.keyLock /\ ~phy.patchMode /\ ~phy.request
             /\ \A u \in Units : OfRevision(u)
  BY <1>2, <1>3, Trusted DEF Loaded
<1>4. cut => mcfg = 31
  BY DEF VersionInv
<1> QED BY <1>3, <1>4 DEF TrustedIsComplete, OneRevision, OfRevision

(* What was downloaded stays. *)
THEOREM CodeThroughout == DownloadSpec => []CodeInv
<1>1. DownloadInit => CodeInv
  BY CodeInit
<1>2. Types /\ AimedInv /\ CodeInv /\ [DownloadNext]_downloadVars => CodeInv'
  BY CodeStep DEF AimedInv
<1> QED BY <1>1, <1>2, DownloadTypes, AimedThroughout, PTL DEF DownloadSpec

(* The parts of the invariant about the request and the table. *)
RestInv == RequestInv /\ TuneInv /\ KeptInv

(* Requests are given back and parameters kept. *)
THEOREM RestThroughout == DownloadSpec => []RestInv
<1>1. DownloadInit => RestInv
  BY RequestInit DEF RestInv
<1>2. /\ Types /\ (PollInv /\ HeldInv) /\ VersionInv /\ RestInv
      /\ [DownloadNext]_downloadVars
      => RestInv'
  BY RequestStep, TuneStep, KeptStep DEF RestInv
<1> QED BY <1>1, <1>2, DownloadTypes, HeldThroughout, VersionKnown, PTL DEF DownloadSpec

(* Both properties of a trusted PHY. *)
LEMMA BothTrusted == DownloadSpec => [](TrustedIsComplete /\ OneRevision)
<1>1. Types /\ VersionInv /\ CodeInv /\ RestInv => TrustedIsComplete /\ OneRevision
  BY TrustedComplete DEF CodeInv, RestInv
<1> QED BY <1>1, DownloadTypes, VersionKnown, CodeThroughout, RestThroughout, PTL

(* Whenever the chip is up and hw_has_wr_ram_code says so, all the code,   *)
(* data and parameters are there and lock, mode and request are given      *)
(* back, over stops, power losses and kept links, but for method 31 that   *)
(* was cut short.                                                          *)
THEOREM TrustedStaysComplete == DownloadSpec => []TrustedIsComplete
BY BothTrusted, PTL

(* The units of such a PHY have the code of one revision, though the       *)
(* switch falls through.                                                   *)
THEOREM RevisionStaysOne == DownloadSpec => []OneRevision
BY BothTrusted, PTL
=============================================================================
