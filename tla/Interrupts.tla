----------------------------- MODULE Interrupts -----------------------------
(***************************************************************************)
(* Who serves the descriptor rings, and when: interruptOccurred() on the   *)
(* work loop, or pollInputPackets() on the network interface's poller,     *)
(* which also turns poll mode on and off (setInputPacketPollingEnable).    *)
(* The __POLLING bit keeps the two from serving at the same time.  The     *)
(* interrupt mask decides what wakes the driver: RxTx events, or only a    *)
(* timer that delays the next round (interrupt mitigation), or, in poll    *)
(* mode, only a link change.                                               *)
(*                                                                         *)
(* The rings are reduced to whether there is work in them.  One step is    *)
(* one access to a register or to a variable the other thread uses.        *)
(***************************************************************************)
CONSTANT
  LinkFlaps     (* may the link be down and up again before it is checked?  *)

ASSUME InterruptsAssumption == LinkFlaps \in BOOLEAN

Events == {"RxOK", "TxOK", "LinkChg", "PCSTimeout", "SYSErr"}

intrMaskRxTx  == {"LinkChg", "RxOK", "TxOK"}
intrMaskTimer == {"LinkChg", "PCSTimeout"}
intrMaskPoll  == {"LinkChg"}

VARIABLES
  isr,          (* ISR0_8125: events that happened, until acknowledged      *)
  imr,          (* IMR0_8125: events that raise the interrupt               *)
  signalled,    (* an interrupt was raised and its handler has not run yet  *)
  timerSet,     (* TIMER_INT0_8125 is not zero and has not expired          *)
  carrier,      (* LinkStatus of PHYstatus                                  *)
  rxWork,       (* there are received packets in the ring                   *)
  txWork,       (* there are sent descriptors in the ring                   *)
  enabled,      (* __ENABLED; the interrupt source goes with it             *)
  linkUp,       (* __LINK_UP                                                *)
  pollMode,     (* __POLL_MODE                                              *)
  polling,      (* __POLLING                                                *)
  intrMask,
  timerValue,   (* timerValue is not zero                                   *)
  irqPc, irqStatus, irqMask,   (* interruptOccurred: where, status, and the *)
                               (* mask read for its last write              *)
  pollPc,       (* the poller: where                                        *)
  raced,        (* history: poll mode was changed, or the rings polled, in  *)
                (* the middle of something it should not meet (see Race)    *)
  evicted,      (* history: disable() did not wait for the poller any more  *)
  unserved      (* history: events acknowledged in poll mode, by a handler  *)
                (* that left their work to the poller, who has not done it  *)

nicVars  == <<isr, imr, timerSet, carrier>>
workVars == <<rxWork, txWork>>
flagVars == <<enabled, linkUp, pollMode, polling>>
maskVars == <<intrMask, timerValue>>
irqVars  == <<irqPc, irqStatus, irqMask>>
codeVars == <<nicVars, workVars, flagVars, maskVars, irqVars, pollPc>>
vars     == <<codeVars, signalled, raced, evicted, unserved>>

(* rtl812xEnable() has run; the link is down. *)
Init ==
  /\ isr = {} /\ imr = intrMaskRxTx /\ timerSet = FALSE /\ carrier = FALSE
  /\ rxWork = FALSE /\ txWork = FALSE
  /\ enabled = TRUE
  /\ linkUp = FALSE /\ pollMode = FALSE /\ polling = FALSE
  /\ intrMask = intrMaskRxTx /\ timerValue = FALSE
  /\ irqPc = "idle" /\ irqStatus = {} /\ irqMask = {}
  /\ pollPc = "idle" /\ signalled = FALSE
  /\ raced = FALSE /\ evicted = FALSE /\ unserved = {}

-----------------------------------------------------------------------------
(* The NIC (external).                                                     *)

NicRx ==
  /\ linkUp /\ carrier
  /\ rxWork' = TRUE /\ isr' = isr \cup {"RxOK"}
  /\ UNCHANGED <<imr, timerSet, carrier, txWork, flagVars, maskVars, irqVars, pollPc>>

NicTx ==
  /\ linkUp
  /\ txWork' = TRUE /\ isr' = isr \cup {"TxOK"}
  /\ UNCHANGED <<imr, timerSet, carrier, rxWork, flagVars, maskVars, irqVars, pollPc>>

NicTimer ==
  /\ timerSet
  /\ timerSet' = FALSE /\ isr' = isr \cup {"PCSTimeout"}
  /\ UNCHANGED <<imr, carrier, workVars, flagVars, maskVars, irqVars, pollPc>>

NicLink ==
  /\ enabled
  /\ carrier # linkUp \/ "LinkChg" \in irqStatus => LinkFlaps
  /\ carrier' = ~carrier /\ isr' = isr \cup {"LinkChg"}
  /\ UNCHANGED <<imr, timerSet, workVars, flagVars, maskVars, irqVars, pollPc>>

-----------------------------------------------------------------------------
(* interruptOccurred(), on the work loop.                                  *)

(* The handler runs some time after the interrupt was raised: the mask may *)
(* be another by then, and it does not ask.  With nothing in the status it *)
(* only writes the mask.  A bus error of the NIC raises no interrupt: it   *)
(* shows when the status is read for another reason.                       *)
IrqEnter ==
  /\ irqPc = "idle" /\ enabled /\ signalled
  /\ irqStatus' \in {isr, isr \cup {"SYSErr"}}
  /\ irqPc' = IF irqStatus' = {} THEN "load" ELSE "mask"
  /\ UNCHANGED <<nicVars, workVars, flagVars, maskVars, irqMask, pollPc>>

IrqMask ==
  /\ irqPc = "mask"
  /\ imr' = {} /\ irqPc' = "ack"
  /\ UNCHANGED <<isr, timerSet, carrier, workVars, flagVars, maskVars,
                 irqStatus, irqMask, pollPc>>

AckAll == {}
(* Acknowledge what was read, and nothing that happened since. *)
Acked == isr \ irqStatus

IrqAck ==
  /\ irqPc = "ack"
  /\ isr' = Acked
  /\ irqPc' = IF "SYSErr" \in irqStatus THEN "error" ELSE "test"
  /\ UNCHANGED <<imr, timerSet, carrier, workVars, flagVars, maskVars,
                 irqStatus, irqMask, pollPc>>

(* rtl812xHwConfig() and rtl812xDown() reset the chip: the interrupt is    *)
(* masked, the timer cleared, the rings are empty; ISR0 is left alone.     *)
ResetNic ==
  /\ timerSet' = FALSE
  /\ rxWork' = FALSE /\ txWork' = FALSE

(* rtl812xRestart() and setLinkDown(): the PHY negotiates the link anew.    *)
Restarted ==
  /\ ResetNic
  /\ carrier' = FALSE /\ isr' = isr \cup {"LinkChg"}
  /\ linkUp' = FALSE /\ pollMode' = FALSE
  /\ intrMask' = intrMaskRxTx /\ timerValue' = FALSE /\ imr' = intrMaskRxTx

(* pciErrorInterrupt(). *)
IrqError ==
  /\ irqPc = "error"
  /\ Restarted
  /\ irqPc' = "load" /\ irqStatus' = {}
  /\ UNCHANGED <<enabled, polling, irqMask, pollPc>>

(* What is left of the status once the rings have been dealt with. *)
StillAsked == irqStatus \cap {"LinkChg"}

ServeUnguarded == ~pollMode
(* Not in poll mode, and nobody is serving the rings: test_and_set_bit.    *)
MayServe == ~pollMode /\ ~polling

IrqServe ==
  /\ irqPc = "test" /\ MayServe
  /\ polling' = TRUE /\ irqPc' = "rx"
  /\ UNCHANGED <<nicVars, workVars, enabled, linkUp, pollMode, maskVars, irqStatus,
                 irqMask, pollPc>>

IrqSkip ==
  /\ irqPc = "test" /\ ~MayServe
  /\ irqPc' = "link" /\ irqStatus' = StillAsked
  /\ UNCHANGED <<nicVars, workVars, flagVars, maskVars, irqMask, pollPc>>

IrqRx ==
  /\ irqPc = "rx"
  /\ rxWork' = (rxWork /\ "RxOK" \notin irqStatus)
  /\ irqPc' = "tx"
  /\ UNCHANGED <<nicVars, txWork, flagVars, maskVars, irqStatus, irqMask, pollPc>>

IrqTx ==
  /\ irqPc = "tx"
  /\ txWork' = (txWork /\ "TxOK" \notin irqStatus)
  /\ irqPc' = "timer"
  /\ UNCHANGED <<nicVars, rxWork, flagVars, maskVars, irqStatus, irqMask, pollPc>>

(* updateTimerValue(): a delay when there was traffic, none after a round  *)
(* the timer started for nothing; unchanged in any other interrupt.        *)
NewTimer ==
  IF irqStatus \cap {"TxOK", "RxOK", "PCSTimeout"} # {}
  THEN irqStatus \cap {"TxOK", "RxOK"} # {}
  ELSE timerValue

MaskAlwaysTimer == intrMaskTimer
(* The mask that goes with it. *)
NewMask == IF NewTimer THEN intrMaskTimer ELSE intrMaskRxTx

IrqTimer ==
  /\ irqPc = "timer"
  /\ timerValue' = NewTimer /\ timerSet' = NewTimer
  /\ intrMask' = NewMask
  /\ irqPc' = "clear" /\ irqStatus' = StillAsked
  /\ UNCHANGED <<isr, imr, carrier, workVars, flagVars, irqMask, pollPc>>

IrqClear ==
  /\ irqPc = "clear"
  /\ polling' = FALSE /\ irqPc' = "link"
  /\ UNCHANGED <<nicVars, workVars, enabled, linkUp, pollMode, maskVars, irqStatus,
                 irqMask, pollPc>>

IrqNoLink ==
  /\ irqPc = "link" /\ "LinkChg" \notin irqStatus
  /\ irqPc' = "load" /\ irqStatus' = {}
  /\ UNCHANGED <<nicVars, workVars, flagVars, maskVars, irqMask, pollPc>>

(* rtl812xCheckLinkStatus(); setLinkDown() also leaves poll mode.          *)
IrqLink ==
  /\ irqPc = "link" /\ "LinkChg" \in irqStatus
  /\ ResetNic
  /\ linkUp' = carrier
  /\ pollMode' = (pollMode /\ carrier)
  /\ imr' = IF carrier THEN {} ELSE intrMaskRxTx
  /\ timerValue' = FALSE /\ intrMask' = intrMaskRxTx
  /\ irqPc' = "load" /\ irqStatus' = {}
  /\ UNCHANGED <<isr, carrier, enabled, polling, irqMask, pollPc>>

(* done: RTL_W32(tp, IMR0_8125, intrMask), a read and a write. *)
IrqLoad ==
  /\ irqPc = "load"
  /\ irqMask' = intrMask /\ irqPc' = "unmask"
  /\ UNCHANGED <<nicVars, workVars, flagVars, maskVars, irqStatus, pollPc>>

IrqUnmask ==
  /\ irqPc = "unmask"
  /\ imr' = irqMask
  /\ irqPc' = "idle" /\ irqMask' = {}
  /\ UNCHANGED <<isr, timerSet, carrier, workVars, flagVars, maskVars, irqStatus,
                 pollPc>>

Irq ==
  \/ IrqEnter \/ IrqMask \/ IrqAck \/ IrqError \/ IrqServe \/ IrqSkip
  \/ IrqRx \/ IrqTx \/ IrqTimer \/ IrqClear \/ IrqNoLink \/ IrqLink
  \/ IrqLoad \/ IrqUnmask

-----------------------------------------------------------------------------
(* What else runs on the work loop, between two interrupts.                *)

(* timerAction(): txHangCheck() reclaims without __POLLING, ... *)
HangCheck ==
  /\ irqPc = "idle" /\ enabled /\ linkUp
  /\ irqPc' = "hang"
  /\ UNCHANGED <<nicVars, workVars, flagVars, maskVars, irqStatus, irqMask,
                 pollPc>>

HangReclaim ==
  /\ irqPc = "hang"
  /\ txWork' = FALSE /\ irqPc' = "idle"
  /\ UNCHANGED <<nicVars, rxWork, flagVars, maskVars, irqStatus, irqMask, pollPc>>

(* ... or restarts the chip; selectMedium() takes the link down.            *)
Reconfigure ==
  /\ irqPc = "idle" /\ enabled
  /\ Restarted
  /\ UNCHANGED <<enabled, polling, irqVars, pollPc>>

(* disable() waits for __POLLING, but not for long, and the poller may     *)
(* have set it again: the bit is cleared in any case.                      *)
Disable ==
  /\ irqPc = "idle" /\ enabled
  /\ enabled' = FALSE
  /\ linkUp' = FALSE /\ pollMode' = FALSE /\ polling' = FALSE
  /\ imr' = {} /\ carrier' = FALSE /\ ResetNic
  /\ UNCHANGED <<isr, maskVars, irqVars, pollPc>>

Enable ==
  /\ irqPc = "idle" /\ ~enabled
  /\ enabled' = TRUE
  /\ Restarted
  /\ UNCHANGED <<polling, irqVars, pollPc>>

WorkLoop == HangCheck \/ HangReclaim \/ Reconfigure \/ Disable \/ Enable

-----------------------------------------------------------------------------
(* The poller.                                                             *)

(* setInputPacketPollingEnable(): the bit, then intrMask, then IMR0. *)
PollModeOn ==
  /\ pollPc = "idle" /\ enabled /\ ~pollMode /\ linkUp
  /\ pollMode' = TRUE /\ pollPc' = "on"
  /\ UNCHANGED <<nicVars, workVars, enabled, linkUp, polling, maskVars, irqVars>>

PollModeOff ==
  /\ pollPc = "idle" /\ enabled /\ pollMode
  /\ pollMode' = FALSE /\ pollPc' = "off"
  /\ UNCHANGED <<nicVars, workVars, enabled, linkUp, polling, maskVars, irqVars>>

PollMask ==
  /\ pollPc \in {"on", "off"}
  /\ intrMask' = IF pollPc = "on" THEN intrMaskPoll ELSE intrMaskRxTx
  /\ timerValue' = FALSE
  /\ pollPc' = "write"
  /\ UNCHANGED <<nicVars, workVars, flagVars, irqVars>>

PollWrite ==
  /\ pollPc = "write"
  /\ imr' = intrMask
  /\ pollPc' = "idle"
  /\ UNCHANGED <<isr, timerSet, carrier, workVars, flagVars, maskVars, irqVars>>

(* test_bit(__POLL_MODE) and test_and_set_bit(__POLLING). *)
MayPoll == pollMode /\ ~polling

(* pollInputPackets(). *)
PollStart ==
  /\ pollPc = "idle" /\ MayPoll
  /\ polling' = TRUE /\ pollPc' = "rx"
  /\ UNCHANGED <<nicVars, workVars, enabled, linkUp, pollMode, maskVars, irqVars>>

(* rxInterrupt(), up to maxCount packets. *)
PollRx ==
  /\ pollPc = "rx"
  /\ rxWork' \in {FALSE, rxWork}
  /\ pollPc' = "tx"
  /\ UNCHANGED <<nicVars, txWork, flagVars, maskVars, irqVars>>

PollTx ==
  /\ pollPc = "tx"
  /\ txWork' = FALSE /\ pollPc' = "clear"
  /\ UNCHANGED <<nicVars, rxWork, flagVars, maskVars, irqVars>>

PollClear ==
  /\ pollPc = "clear"
  /\ polling' = FALSE /\ pollPc' = "idle"
  /\ UNCHANGED <<nicVars, workVars, enabled, linkUp, pollMode, maskVars, irqVars>>

Poller ==
  \/ PollModeOn \/ PollModeOff \/ PollMask \/ PollWrite
  \/ PollStart \/ PollRx \/ PollTx \/ PollClear

(* Steps that meet the other thread in the middle of its own: an interrupt *)
(* taken while poll mode is being changed, poll mode changed while an      *)
(* interrupt is handled, the chip reset while the poller is at work.       *)
Race ==
  \/ irqPc = "idle" /\ irqPc' # "idle" /\ pollPc \in {"on", "off", "write"}
  \/ pollPc = "idle" /\ pollPc' \in {"on", "off"} /\ irqPc # "idle"
  \/ (IrqError \/ IrqLink \/ Reconfigure \/ Disable) /\ pollPc # "idle"

(* The mask and the rings are set up anew, while nobody is at them.        *)
Fresh == (Reconfigure \/ Enable) /\ pollPc = "idle"

BothIdle == irqPc = "idle" /\ pollPc = "idle"

(* The NIC (external) raises the interrupt when an event and its mask bit  *)
(* come together.                                                          *)
Raised == (isr' \cap imr') \ (isr \cap imr) # {}

(* What the handler has acknowledged and leaves to the poller. *)
LeftToPoller == IF IrqSkip /\ pollMode THEN irqStatus ELSE {}
WorkOf(rx, tx) == (IF rx THEN {"RxOK"} ELSE {}) \cup (IF tx THEN {"TxOK"} ELSE {})

Next ==
  /\ NicRx \/ NicTx \/ NicTimer \/ NicLink
     \/ Irq \/ WorkLoop \/ Poller
  /\ signalled' = (Raised \/ (signalled /\ ~IrqEnter))
  /\ raced' = ((raced \/ Race) /\ ~Fresh)
  /\ unserved' = IF raced' THEN {}
                 ELSE (unserved \cup LeftToPoller) \cap WorkOf(rxWork', txWork')
  /\ evicted' = ((evicted \/ (Disable /\ polling)) /\ ~BothIdle')

Spec == Init /\ [][Next]_vars

-----------------------------------------------------------------------------
(* Safety.                                                                 *)

(* The variables have their types.                                         *)
TypeOK ==
  /\ isr \subseteq Events \ {"SYSErr"} /\ imr \subseteq Events
  /\ timerSet \in BOOLEAN /\ carrier \in BOOLEAN
  /\ rxWork \in BOOLEAN /\ txWork \in BOOLEAN
  /\ enabled \in BOOLEAN
  /\ linkUp \in BOOLEAN /\ pollMode \in BOOLEAN /\ polling \in BOOLEAN
  /\ intrMask \in {intrMaskRxTx, intrMaskTimer, intrMaskPoll}
  /\ timerValue \in BOOLEAN
  /\ irqPc \in {"idle", "mask", "ack", "error", "test", "rx", "tx", "timer",
                "clear", "link", "load", "unmask", "hang"}
  /\ irqStatus \subseteq Events
  /\ irqMask \in {{}, intrMaskRxTx, intrMaskTimer, intrMaskPoll}
  /\ pollPc \in {"idle", "on", "off", "write", "rx", "tx", "clear"}
  /\ signalled \in BOOLEAN
  /\ raced \in BOOLEAN /\ evicted \in BOOLEAN
  /\ unserved \subseteq {"RxOK", "TxOK"}

IrqServing  == irqPc \in {"rx", "tx", "timer", "clear"}
PollServing == pollPc \in {"rx", "tx", "clear"}

(* The rings are served by one thread at a time, and the __POLLING bit is  *)
(* set exactly while one does, until disable() has taken the bit from a    *)
(* poller that was at work: then the next one may come in beside it.       *)
OneServer ==
  ~evicted =>
    /\ ~(IrqServing /\ PollServing)
    /\ polling <=> IrqServing \/ PollServing

(* When both threads are done, traffic raises no interrupt only if         *)
(* something else will have it served: poll mode, or the timer.  A race of *)
(* the two can leave the wrong mask, by the read and the later write of    *)
(* IMR0 at the end of the handler; nothing else can.                       *)
MaskedWithReason ==
  ~raced /\ BothIdle /\ enabled /\ ~({"RxOK", "TxOK"} \subseteq imr) =>
    pollMode \/ ("PCSTimeout" \in imr /\ (timerSet \/ "PCSTimeout" \in isr))

(* And work that waits out of poll mode has an event that announces it,    *)
(* unless the two raced, or an interrupt raised before poll mode was on    *)
(* was handled in it: its events are gone, the poller may not have got to  *)
(* the work, and leaving poll mode does not look for it.                   *)
WorkAnnounced ==
  ~raced /\ BothIdle /\ ~pollMode =>
    /\ rxWork => "RxOK" \in isr \cup unserved
    /\ txWork => "TxOK" \in isr \cup unserved

-----------------------------------------------------------------------------
(* Liveness: the interrupt is delivered and its handler runs, however      *)
(* often the timer of the same work loop comes first; the NIC's timer      *)
(* expires; in poll mode the interface polls, and drains what it is fed    *)
(* before it leaves poll mode for good.                                    *)
Fairness ==
  /\ WF_codeVars(Irq \/ HangReclaim) /\ SF_codeVars(IrqEnter)
  /\ WF_codeVars(NicTimer)
  /\ WF_codeVars(PollMask \/ PollWrite \/ PollRx \/ PollTx \/ PollClear)
  /\ SF_codeVars(PollStart) /\ SF_codeVars(PollRx /\ ~rxWork')

FairSpec == Spec /\ Fairness

(* Work that poll mode has left behind, with no event pending for it. *)
LeftBehind(event) == ~pollMode /\ event \in unserved \ isr

(* Received packets reach the stack, and sent ones are reclaimed, whatever *)
(* mask is in force, as long as the two threads do not race.  What poll    *)
(* mode has left behind waits for the next packet of its kind, and no      *)
(* longer: the event of that one has both served.                          *)
WorkServed ==
  /\ rxWork ~> ~rxWork \/ raced \/ LeftBehind("RxOK")
  /\ txWork ~> ~txWork \/ raced \/ LeftBehind("TxOK")
=============================================================================
