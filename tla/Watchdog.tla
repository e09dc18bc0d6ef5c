------------------------------ MODULE Watchdog ------------------------------
(***************************************************************************)
(* The transmit watchdog: timerAction() runs every kTimeoutMS while the    *)
(* link is up and calls txHangCheck(), which counts the ticks at which     *)
(* descriptors are in use and none was reclaimed, looks at the ring once   *)
(* more at the kTxCheckTreshhold-th and restarts the chip at the           *)
(* kTxDeadlockTreshhold-th.  The ring is reduced to how many descriptors   *)
(* are in use and how many of them the NIC has sent (see TxRing).          *)
(***************************************************************************)
EXTENDS Integers

CONSTANTS
  kTxCheckTreshhold,
  kTxDeadlockTreshhold,
  MaxInUse,            (* bound on the descriptors in use                   *)
  DoneMod,             (* txDescDoneCount is counted modulo this            *)
  IrqLost              (* can the NIC lose a TxOK interrupt?                *)

ASSUME WatchdogAssumption ==
  /\ kTxCheckTreshhold \in Nat \ {0}
  /\ kTxDeadlockTreshhold \in Nat /\ kTxCheckTreshhold < kTxDeadlockTreshhold
  /\ MaxInUse \in Nat \ {0}
  /\ DoneMod \in Nat /\ MaxInUse < DoneMod
  /\ IrqLost \in BOOLEAN

VARIABLES
  enabled,          (* __ENABLED                                            *)
  linkUp,           (* __LINK_UP                                            *)
  timerArmed,       (* timerSource has a timeout set                        *)
  deadlockWarn,
  txDescDoneCount,
  txDescDoneLast,
  inUse,            (* kNumTxDesc - txNumFreeDesc                           *)
  sent,             (* how many of them the NIC has sent                    *)
  txOK,             (* TxOK is pending                                      *)
  hung,             (* the transmitter of the NIC has stopped               *)
  doneSince,        (* history: descriptors txInterrupt reclaimed since the *)
                    (* last tick                                            *)
  overdue,          (* history: descriptors the NIC had sent by the last    *)
                    (* tick, and that are not reclaimed yet                 *)
  quiet             (* history: ticks in a row, since the rings were last   *)
                    (* cleared, with descriptors in use and none reclaimed  *)

ringVars == <<inUse, sent, txOK, hung>>
history  == <<doneSince, overdue, quiet>>
vars     == <<enabled, linkUp, timerArmed, deadlockWarn, txDescDoneCount,
              txDescDoneLast, ringVars, history>>

Init ==
  /\ enabled = FALSE /\ linkUp = FALSE /\ timerArmed = FALSE
  /\ deadlockWarn = 0 /\ txDescDoneCount = 0 /\ txDescDoneLast = 0
  /\ inUse = 0 /\ sent = 0 /\ txOK = FALSE /\ hung = FALSE
  /\ doneSince = 0 /\ overdue = 0 /\ quiet = 0

-----------------------------------------------------------------------------
(* outputStart() queues a descriptor, the NIC (external) sends one or      *)
(* stops sending, and txInterrupt() reclaims what was sent.                *)

(* No more descriptors pass through the ring between two ticks than the    *)
(* 32-bit txDescDoneCount can tell apart.                                  *)
Queue ==
  /\ linkUp /\ inUse < MaxInUse
  /\ doneSince + inUse < DoneMod - 1
  /\ inUse' = inUse + 1
  /\ UNCHANGED <<enabled, linkUp, timerArmed, deadlockWarn, txDescDoneCount,
                 txDescDoneLast, sent, txOK, hung, history>>

NicSend ==
  /\ linkUp /\ ~hung /\ sent < inUse
  /\ sent' = sent + 1
  /\ txOK' \in IF IrqLost THEN {txOK, TRUE} ELSE {TRUE}
  /\ UNCHANGED <<enabled, linkUp, timerArmed, deadlockWarn, txDescDoneCount,
                 txDescDoneLast, inUse, hung, history>>

NicHang ==
  /\ linkUp /\ ~hung
  /\ hung' = TRUE
  /\ UNCHANGED <<enabled, linkUp, timerArmed, deadlockWarn, txDescDoneCount,
                 txDescDoneLast, inUse, sent, txOK, history>>

(* The effect of txInterrupt() on the counters. *)
ReclaimSent ==
  /\ txDescDoneCount' = (txDescDoneCount + sent) % DoneMod
  /\ inUse' = inUse - sent /\ sent' = 0

(* TxOK was raised, and its handler runs txInterrupt(). *)
TxInterrupt ==
  /\ txOK
  /\ txOK' = FALSE
  /\ ReclaimSent
  /\ doneSince' = doneSince + sent /\ overdue' = 0
  /\ UNCHANGED <<enabled, linkUp, timerArmed, deadlockWarn, txDescDoneLast,
                 hung, quiet>>

(* pollInputPackets() runs it without an interrupt. *)
TxPoll ==
  /\ linkUp
  /\ ReclaimSent
  /\ doneSince' = doneSince + sent /\ overdue' = 0
  /\ UNCHANGED <<enabled, linkUp, timerArmed, deadlockWarn, txDescDoneLast,
                 txOK, hung, quiet>>

-----------------------------------------------------------------------------
(* clearRxTxRings() and the reset of the chip that goes with it. *)
ClearRings ==
  /\ inUse' = 0 /\ sent' = 0 /\ txOK' = FALSE /\ hung' = FALSE
  /\ overdue' = 0 /\ quiet' = 0
ClearWarnLeft == deadlockWarn' = deadlockWarn
ClearWarn == deadlockWarn' = 0

(* The condition of txHangCheck(). *)
NoProgress == txDescDoneCount = txDescDoneLast /\ inUse > 0

(* The history variables over one tick. *)
QuietTick ==
  /\ quiet' = IF doneSince = 0 /\ inUse > 0 THEN quiet + 1 ELSE 0
  /\ doneSince' = 0 /\ overdue' = sent'

(* timerAction() with the link down: the timer is not set again. *)
TimerLinkDown ==
  /\ timerArmed /\ ~linkUp
  /\ timerArmed' = FALSE
  /\ txDescDoneLast' = txDescDoneCount
  /\ doneSince' = 0
  /\ UNCHANGED <<enabled, linkUp, deadlockWarn, txDescDoneCount, ringVars,
                 overdue, quiet>>

TimerProgress ==
  /\ timerArmed /\ linkUp /\ ~NoProgress
  /\ deadlockWarn' = 0
  /\ txDescDoneLast' = txDescDoneCount
  /\ UNCHANGED <<enabled, linkUp, timerArmed, txDescDoneCount, ringVars>>
  /\ QuietTick

(* The warning that neither checks the ring nor restarts the chip. *)
WarnOnly ==
  /\ deadlockWarn + 1 < kTxDeadlockTreshhold
  /\ deadlockWarn + 1 # kTxCheckTreshhold

TimerWarn ==
  /\ timerArmed /\ linkUp /\ NoProgress
  /\ WarnOnly
  /\ deadlockWarn' = deadlockWarn + 1
  /\ txDescDoneLast' = txDescDoneCount
  /\ UNCHANGED <<enabled, linkUp, timerArmed, txDescDoneCount, ringVars>>
  /\ QuietTick

WarnInstead == UNCHANGED <<txDescDoneCount, inUse, sent>>         (* faulty *)
(* The watchdog's own call of txInterrupt(). *)
CheckRing == ReclaimSent

TimerCheck ==
  /\ timerArmed /\ linkUp /\ NoProgress
  /\ deadlockWarn + 1 = kTxCheckTreshhold
  /\ deadlockWarn' = deadlockWarn + 1
  /\ CheckRing
  /\ QuietTick
  /\ txDescDoneLast' = txDescDoneCount'
  /\ UNCHANGED <<enabled, linkUp, timerArmed, txOK, hung>>

(* rtl812xRestart(): the chip is reset, the rings are emptied; the timer   *)
(* is set again when the link comes back.                                  *)
TimerRestart ==
  /\ timerArmed /\ linkUp /\ NoProgress
  /\ deadlockWarn + 1 >= kTxDeadlockTreshhold
  /\ linkUp' = FALSE /\ timerArmed' = FALSE
  /\ ClearRings /\ ClearWarn
  /\ txDescDoneLast' = txDescDoneCount /\ doneSince' = 0
  /\ UNCHANGED <<enabled, txDescDoneCount>>

TimerAction ==
  TimerLinkDown \/ TimerProgress \/ TimerWarn \/ TimerCheck \/ TimerRestart

-----------------------------------------------------------------------------
(* The rest of the driver, as far as it touches the watchdog.              *)

(* rtl812xCheckLinkStatus(): link up. *)
LinkUpNoTimer == timerArmed' = timerArmed
LinkUpTimer == timerArmed' = TRUE
LinkUp ==
  /\ enabled /\ ~linkUp
  /\ linkUp' = TRUE /\ LinkUpTimer
  /\ ClearRings
  /\ UNCHANGED <<enabled, deadlockWarn, txDescDoneCount, txDescDoneLast,
                 doneSince>>

(* rtl812xCheckLinkStatus(): link down. *)
LinkDown ==
  /\ enabled
  /\ linkUp' = FALSE /\ timerArmed' = FALSE
  /\ ClearRings /\ ClearWarn
  /\ UNCHANGED <<enabled, txDescDoneCount, txDescDoneLast, doneSince>>

(* selectMedium() and pciErrorInterrupt() take the link down and leave the *)
(* timer alone.                                                            *)
Reconfigure ==
  /\ enabled
  /\ linkUp' = FALSE
  /\ ClearRings /\ ClearWarn
  /\ UNCHANGED <<enabled, timerArmed, txDescDoneCount, txDescDoneLast,
                 doneSince>>

Enable ==
  /\ ~enabled
  /\ enabled' = TRUE /\ linkUp' = FALSE
  /\ txDescDoneCount' = 0 /\ txDescDoneLast' = 0 /\ doneSince' = 0
  /\ ClearRings /\ deadlockWarn' = 0
  /\ UNCHANGED timerArmed

Disable ==
  /\ enabled
  /\ enabled' = FALSE /\ linkUp' = FALSE /\ timerArmed' = FALSE
  /\ txDescDoneCount' = 0 /\ txDescDoneLast' = 0 /\ doneSince' = 0
  /\ ClearRings /\ ClearWarn

Next ==
  \/ Queue \/ NicSend \/ NicHang \/ TxInterrupt \/ TxPoll
  \/ TimerAction
  \/ LinkUp \/ LinkDown \/ Reconfigure \/ Enable \/ Disable

Spec == Init /\ [][Next]_vars

-----------------------------------------------------------------------------
(* The variables have their types, and no count passes its threshold.      *)
TypeOK ==
  /\ enabled \in BOOLEAN /\ linkUp \in BOOLEAN /\ timerArmed \in BOOLEAN
  /\ deadlockWarn \in 0 .. kTxDeadlockTreshhold - 1
  /\ txDescDoneCount \in 0 .. DoneMod - 1 /\ txDescDoneLast \in 0 .. DoneMod - 1
  /\ inUse \in 0 .. MaxInUse /\ sent \in 0 .. inUse
  /\ txOK \in BOOLEAN /\ hung \in BOOLEAN
  /\ doneSince \in 0 .. DoneMod - 1 /\ overdue \in 0 .. sent
  /\ quiet \in 0 .. kTxDeadlockTreshhold - 1

(* The watchdog restarts the chip only after a whole row of ticks that     *)
(* found nothing reclaimed, all of them since the rings were cleared: what *)
(* deadlockWarn counted before a link change is not held against the link. *)
RestartAfterQuietTicks ==
  [][TimerRestart => /\ quiet + 1 = kTxDeadlockTreshhold
                     /\ doneSince = 0]_vars

(* The chip is not restarted for descriptors whose interrupt was lost: by  *)
(* then all that the NIC had sent by the tick before has been reclaimed,   *)
(* as the check comes one tick before the restart and looks for itself.    *)
LostInterruptMadeUp == [][TimerRestart => overdue = 0]_vars

-----------------------------------------------------------------------------
(* Liveness: the timer fires, the handler of a pending TxOK runs.          *)
Fairness == WF_vars(TimerAction) /\ WF_vars(TxInterrupt)

FairSpec == Spec /\ Fairness

(* A transmitter that has stopped with descriptors in use is restarted.    *)
HangEnds == hung /\ inUse > 0 ~> ~hung \/ inUse = 0
=============================================================================
