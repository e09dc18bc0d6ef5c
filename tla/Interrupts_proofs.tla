-------------------------- MODULE Interrupts_proofs --------------------------
(***************************************************************************)
(* Safety of interrupts and polling: one server of the rings, and, as long *)
(* as the two threads do not race, a mask with a reason and work that is   *)
(* announced.  All three hold for every number of steps; the last two when *)
(* LinkChg never reports "up" while the link is up (LinkFlaps = FALSE).    *)
(***************************************************************************)
EXTENDS Interrupts, TLAPS

-----------------------------------------------------------------------------
(* One server.                                                             *)

(* The last to leave the rings clears the bit, whoever set it. *)
ClearedByLast == ~IrqServing /\ ~PollServing => ~polling

ServerInv ==
  /\ TypeOK
  /\ ClearedByLast
  /\ OneServer

-----------------------------------------------------------------------------
(* The mask and the work.  Everything about the link holds in any state;   *)
(* the rest as long as the threads have not raced.                         *)

(* An up link whose carrier is there has no change pending. *)
Handling == irqPc \notin {"idle", "hang"}
BeforeAck == irqPc \in {"mask", "ack"}
BeforeLink == irqPc \in {"mask", "ack", "error", "test", "rx", "tx", "timer", "clear", "link"}
AfterAck == BeforeLink /\ ~BeforeAck

LinkInv ==
  /\ linkUp /\ carrier =>
       "LinkChg" \notin isr /\ (BeforeLink => "LinkChg" \notin irqStatus)
  /\ BeforeAck => irqStatus \subseteq isr \cup {"SYSErr"}
  /\ AfterAck /\ "LinkChg" \in irqStatus => "LinkChg" \notin isr

(* What is enabled, and what follows from it. *)
EnabledInv ==
  /\ irqPc # "idle" => enabled
  /\ pollMode => enabled /\ linkUp
  /\ evicted => raced

(* The poller, while it has not raced. *)
PollInv ==
  /\ pollPc \in {"on", "off", "write"} => irqPc = "idle"
  /\ pollPc # "idle" => enabled
  /\ pollPc = "on" => pollMode
  /\ pollPc = "off" => ~pollMode
  /\ PollServing => pollMode
  /\ pollPc = "write" => intrMask = IF pollMode THEN intrMaskPoll ELSE intrMaskRxTx

(* In poll mode an interrupt that was raised before may be handled, but it *)
(* serves nothing and leaves the mask as poll mode wants it.               *)
PollModeInv ==
  pollMode =>
    /\ pollPc # "on" => intrMask = intrMaskPoll
    /\ irqPc \in {"idle", "hang"} /\ pollPc \notin {"on", "write"} => imr = intrMaskPoll
    /\ Handling => irqPc \in {"mask", "ack", "error", "test", "link", "load", "unmask"}
    /\ irqPc = "unmask" => irqMask = intrMaskPoll

(* Out of poll mode, a mask of the timer has a timer that will expire. *)
TimerRuns == timerSet \/ "PCSTimeout" \in isr
MaskInv ==
  ~pollMode /\ enabled =>
    /\ Handling => intrMask \in {intrMaskRxTx, intrMaskTimer}
    /\ irqPc \in {"clear", "link", "load", "unmask"} /\ intrMask = intrMaskTimer => TimerRuns
    /\ irqPc = "unmask" => irqMask = intrMask
    /\ ~Handling /\ pollPc \notin {"off", "write"} =>
         /\ imr \in {intrMaskRxTx, intrMaskTimer} /\ imr = intrMask
         /\ imr = intrMaskTimer => TimerRuns

(* Work is announced in ISR0, or in the status the handler has read, or    *)
(* known to have been left to the poller.                                  *)
WorkInv ==
  /\ irqPc # "error" /\ rxWork =>
       \/ "RxOK" \in isr \cup unserved
       \/ irqPc \in {"mask", "ack", "test", "rx"} /\ "RxOK" \in irqStatus
  /\ irqPc # "error" /\ txWork =>
       \/ "TxOK" \in isr \cup unserved
       \/ irqPc \in {"mask", "ack", "test", "rx", "tx"} /\ "TxOK" \in irqStatus
  /\ irqPc = "error" => "SYSErr" \in irqStatus

NoRaceInv == PollInv /\ PollModeInv /\ MaskInv /\ WorkInv

IInv ==
  /\ ServerInv
  /\ LinkInv
  /\ EnabledInv
  /\ ~raced => NoRaceInv

-----------------------------------------------------------------------------
(* The handler, the work loop and the poller, action by action.            *)

(* A step is one of these actions. *)
LEMMA NextIs ==
  ASSUME Next
  PROVE  \/ NicRx \/ NicTx \/ NicTimer \/ NicLink \/ IrqEnter \/ IrqMask
         \/ IrqAck \/ IrqError \/ IrqServe \/ IrqSkip \/ IrqRx \/ IrqTx
         \/ IrqTimer \/ IrqClear \/ IrqNoLink \/ IrqLink \/ IrqLoad \/ IrqUnmask
         \/ HangCheck \/ HangReclaim \/ Reconfigure \/ Disable \/ Enable \/ PollModeOn
         \/ PollModeOff \/ PollMask \/ PollWrite \/ PollStart \/ PollRx \/ PollTx
         \/ PollClear
  BY DEF Next, Irq, WorkLoop, Poller

(* The types are preserved. *)
LEMMA TypeStep ==
  ASSUME TypeOK, Next
  PROVE  TypeOK'
<1>. USE DEF TypeOK, Events, intrMaskRxTx, intrMaskTimer, intrMaskPoll,
           nicVars, workVars, flagVars, maskVars, irqVars
<1>h. /\ signalled' \in BOOLEAN /\ raced' \in BOOLEAN /\ evicted' \in BOOLEAN
      /\ unserved' \subseteq {"RxOK", "TxOK"}
  <2>1. signalled' \in BOOLEAN /\ raced' \in BOOLEAN /\ evicted' \in BOOLEAN
    BY DEF Next
  <2>2. unserved' \subseteq {"RxOK", "TxOK"}
    BY DEF Next, WorkOf
  <2>. QED
    BY <2>1, <2>2
<1>1. CASE NicRx
  BY <1>1, <1>h DEF NicRx
<1>2. CASE NicTx
  BY <1>2, <1>h DEF NicTx
<1>3. CASE NicTimer
  <2>1. /\ isr' \subseteq Events \ {"SYSErr"}
        /\ imr' \subseteq Events
        /\ irqStatus' \subseteq Events
    BY <1>3 DEF NicTimer
  <2>2. /\ timerSet' \in BOOLEAN
        /\ carrier' \in BOOLEAN
        /\ rxWork' \in BOOLEAN
        /\ txWork' \in BOOLEAN
        /\ enabled' \in BOOLEAN
    BY <1>3 DEF NicTimer
  <2>3. /\ linkUp' \in BOOLEAN
        /\ pollMode' \in BOOLEAN
        /\ polling' \in BOOLEAN
        /\ timerValue' \in BOOLEAN
    BY <1>3 DEF NicTimer
  <2>4. /\ intrMask' \in {intrMaskRxTx, intrMaskTimer, intrMaskPoll}
        /\ irqMask' \in {{}, intrMaskRxTx, intrMaskTimer, intrMaskPoll}
    BY <1>3 DEF NicTimer
  <2>5. irqPc' \in {"idle", "mask", "ack", "error", "test", "rx", "tx", "timer",
                  "clear", "link", "load", "unmask", "hang"}
       /\ pollPc' \in {"idle", "on", "off", "write", "rx", "tx", "clear"}
    BY <1>3 DEF NicTimer
  <2>. QED
    BY <2>1, <2>2, <2>3, <2>4, <2>5, <1>h
<1>4. CASE NicLink
  BY <1>4, <1>h DEF NicLink
<1>5. CASE IrqEnter
  BY <1>5, <1>h DEF IrqEnter
<1>6. CASE IrqMask
  BY <1>6, <1>h DEF IrqMask
<1>7. CASE IrqAck
  BY <1>7, <1>h DEF IrqAck, Acked
<1>8. CASE IrqError
  BY <1>8, <1>h DEF IrqError, Restarted, ResetNic
<1>9. CASE IrqServe
  BY <1>9, <1>h DEF IrqServe, MayServe
<1>10. CASE IrqSkip
  BY <1>10, <1>h DEF IrqSkip, MayServe, StillAsked
<1>11. CASE IrqRx
  BY <1>11, <1>h DEF IrqRx
<1>12. CASE IrqTx
  BY <1>12, <1>h DEF IrqTx
<1>13. CASE IrqTimer
  <2>1. /\ isr' \subseteq Events \ {"SYSErr"}
        /\ imr' \subseteq Events
        /\ irqStatus' \subseteq Events
    BY <1>13 DEF IrqTimer, NewTimer, NewMask, StillAsked
  <2>2. /\ timerSet' \in BOOLEAN
        /\ carrier' \in BOOLEAN
        /\ rxWork' \in BOOLEAN
        /\ txWork' \in BOOLEAN
        /\ enabled' \in BOOLEAN
    BY <1>13 DEF IrqTimer, NewTimer, NewMask, StillAsked
  <2>3. /\ linkUp' \in BOOLEAN
        /\ pollMode' \in BOOLEAN
        /\ polling' \in BOOLEAN
        /\ timerValue' \in BOOLEAN
    BY <1>13 DEF IrqTimer, NewTimer, NewMask, StillAsked
  <2>4. /\ intrMask' \in {intrMaskRxTx, intrMaskTimer, intrMaskPoll}
        /\ irqMask' \in {{}, intrMaskRxTx, intrMaskTimer, intrMaskPoll}
    BY <1>13 DEF IrqTimer, NewTimer, NewMask, StillAsked
  <2>5. irqPc' \in {"idle", "mask", "ack", "error", "test", "rx", "tx", "timer",
                  "clear", "link", "load", "unmask", "hang"}
       /\ pollPc' \in {"idle", "on", "off", "write", "rx", "tx", "clear"}
    BY <1>13 DEF IrqTimer, NewTimer, NewMask, StillAsked
  <2>. QED
    BY <2>1, <2>2, <2>3, <2>4, <2>5, <1>h
<1>14. CASE IrqClear
  <2>1. /\ isr' \subseteq Events \ {"SYSErr"}
        /\ imr' \subseteq Events
        /\ irqStatus' \subseteq Events
    BY <1>14 DEF IrqClear
  <2>2. /\ timerSet' \in BOOLEAN
        /\ carrier' \in BOOLEAN
        /\ rxWork' \in BOOLEAN
        /\ txWork' \in BOOLEAN
        /\ enabled' \in BOOLEAN
    BY <1>14 DEF IrqClear
  <2>3. /\ linkUp' \in BOOLEAN
        /\ pollMode' \in BOOLEAN
        /\ polling' \in BOOLEAN
        /\ timerValue' \in BOOLEAN
    BY <1>14 DEF IrqClear
  <2>4. /\ intrMask' \in {intrMaskRxTx, intrMaskTimer, intrMaskPoll}
        /\ irqMask' \in {{}, intrMaskRxTx, intrMaskTimer, intrMaskPoll}
    BY <1>14 DEF IrqClear
  <2>5. irqPc' \in {"idle", "mask", "ack", "error", "test", "rx", "tx", "timer",
                  "clear", "link", "load", "unmask", "hang"}
       /\ pollPc' \in {"idle", "on", "off", "write", "rx", "tx", "clear"}
    BY <1>14 DEF IrqClear
  <2>. QED
    BY <2>1, <2>2, <2>3, <2>4, <2>5, <1>h
<1>15. CASE IrqNoLink
  BY <1>15, <1>h DEF IrqNoLink
<1>16. CASE IrqLink
  BY <1>16, <1>h DEF IrqLink, ResetNic
<1>17. CASE IrqLoad
  BY <1>17, <1>h DEF IrqLoad
<1>18. CASE IrqUnmask
  BY <1>18, <1>h DEF IrqUnmask
<1>19. CASE HangCheck
  BY <1>19, <1>h DEF HangCheck
<1>20. CASE HangReclaim
  <2>1. /\ isr' \subseteq Events \ {"SYSErr"}
        /\ imr' \subseteq Events
        /\ irqStatus' \subseteq Events
    BY <1>20 DEF HangReclaim
  <2>2. /\ timerSet' \in BOOLEAN
        /\ carrier' \in BOOLEAN
        /\ rxWork' \in BOOLEAN
        /\ txWork' \in BOOLEAN
        /\ enabled' \in BOOLEAN
    BY <1>20 DEF HangReclaim
  <2>3. /\ linkUp' \in BOOLEAN
        /\ pollMode' \in BOOLEAN
        /\ polling' \in BOOLEAN
        /\ timerValue' \in BOOLEAN
    BY <1>20 DEF HangReclaim
  <2>4. /\ intrMask' \in {intrMaskRxTx, intrMaskTimer, intrMaskPoll}
        /\ irqMask' \in {{}, intrMaskRxTx, intrMaskTimer, intrMaskPoll}
    BY <1>20 DEF HangReclaim
  <2>5. irqPc' \in {"idle", "mask", "ack", "error", "test", "rx", "tx", "timer",
                  "clear", "link", "load", "unmask", "hang"}
       /\ pollPc' \in {"idle", "on", "off", "write", "rx", "tx", "clear"}
    BY <1>20 DEF HangReclaim
  <2>. QED
    BY <2>1, <2>2, <2>3, <2>4, <2>5, <1>h
<1>21. CASE Reconfigure
  BY <1>21, <1>h DEF Reconfigure, Restarted, ResetNic
<1>22. CASE Disable
  BY <1>22, <1>h DEF Disable, ResetNic
<1>23. CASE Enable
  BY <1>23, <1>h DEF Enable, Restarted, ResetNic
<1>24. CASE PollModeOn
  BY <1>24, <1>h DEF PollModeOn
<1>25. CASE PollModeOff
  <2>1. /\ isr' \subseteq Events \ {"SYSErr"}
        /\ imr' \subseteq Events
        /\ irqStatus' \subseteq Events
    BY <1>25 DEF PollModeOff
  <2>2. /\ timerSet' \in BOOLEAN
        /\ carrier' \in BOOLEAN
        /\ rxWork' \in BOOLEAN
        /\ txWork' \in BOOLEAN
        /\ enabled' \in BOOLEAN
    BY <1>25 DEF PollModeOff
  <2>3. /\ linkUp' \in BOOLEAN
        /\ pollMode' \in BOOLEAN
        /\ polling' \in BOOLEAN
        /\ timerValue' \in BOOLEAN
    BY <1>25 DEF PollModeOff
  <2>4. /\ intrMask' \in {intrMaskRxTx, intrMaskTimer, intrMaskPoll}
        /\ irqMask' \in {{}, intrMaskRxTx, intrMaskTimer, intrMaskPoll}
    BY <1>25 DEF PollModeOff
  <2>5. irqPc' \in {"idle", "mask", "ack", "error", "test", "rx", "tx", "timer",
                  "clear", "link", "load", "unmask", "hang"}
       /\ pollPc' \in {"idle", "on", "off", "write", "rx", "tx", "clear"}
    BY <1>25 DEF PollModeOff
  <2>. QED
    BY <2>1, <2>2, <2>3, <2>4, <2>5, <1>h
<1>26. CASE PollMask
  <2>1. /\ isr' \subseteq Events \ {"SYSErr"}
        /\ imr' \subseteq Events
        /\ irqStatus' \subseteq Events
    BY <1>26 DEF PollMask
  <2>2. /\ timerSet' \in BOOLEAN
        /\ carrier' \in BOOLEAN
        /\ rxWork' \in BOOLEAN
        /\ txWork' \in BOOLEAN
        /\ enabled' \in BOOLEAN
    BY <1>26 DEF PollMask
  <2>3. /\ linkUp' \in BOOLEAN
        /\ pollMode' \in BOOLEAN
        /\ polling' \in BOOLEAN
        /\ timerValue' \in BOOLEAN
    BY <1>26 DEF PollMask
  <2>4. /\ intrMask' \in {intrMaskRxTx, intrMaskTimer, intrMaskPoll}
        /\ irqMask' \in {{}, intrMaskRxTx, intrMaskTimer, intrMaskPoll}
    BY <1>26 DEF PollMask
  <2>5. irqPc' \in {"idle", "mask", "ack", "error", "test", "rx", "tx", "timer",
                  "clear", "link", "load", "unmask", "hang"}
       /\ pollPc' \in {"idle", "on", "off", "write", "rx", "tx", "clear"}
    BY <1>26 DEF PollMask
  <2>. QED
    BY <2>1, <2>2, <2>3, <2>4, <2>5, <1>h
<1>27. CASE PollWrite
  BY <1>27, <1>h DEF PollWrite
<1>28. CASE PollStart
  BY <1>28, <1>h DEF PollStart, MayPoll
<1>29. CASE PollRx
  <2>1. /\ isr' \subseteq Events \ {"SYSErr"}
        /\ imr' \subseteq Events
        /\ irqStatus' \subseteq Events
    BY <1>29 DEF PollRx
  <2>2. /\ timerSet' \in BOOLEAN
        /\ carrier' \in BOOLEAN
        /\ rxWork' \in BOOLEAN
        /\ txWork' \in BOOLEAN
        /\ enabled' \in BOOLEAN
    BY <1>29 DEF PollRx
  <2>3. /\ linkUp' \in BOOLEAN
        /\ pollMode' \in BOOLEAN
        /\ polling' \in BOOLEAN
        /\ timerValue' \in BOOLEAN
    BY <1>29 DEF PollRx
  <2>4. /\ intrMask' \in {intrMaskRxTx, intrMaskTimer, intrMaskPoll}
        /\ irqMask' \in {{}, intrMaskRxTx, intrMaskTimer, intrMaskPoll}
    BY <1>29 DEF PollRx
  <2>5. irqPc' \in {"idle", "mask", "ack", "error", "test", "rx", "tx", "timer",
                  "clear", "link", "load", "unmask", "hang"}
       /\ pollPc' \in {"idle", "on", "off", "write", "rx", "tx", "clear"}
    BY <1>29 DEF PollRx
  <2>. QED
    BY <2>1, <2>2, <2>3, <2>4, <2>5, <1>h
<1>30. CASE PollTx
  <2>1. /\ isr' \subseteq Events \ {"SYSErr"}
        /\ imr' \subseteq Events
        /\ irqStatus' \subseteq Events
    BY <1>30 DEF PollTx
  <2>2. /\ timerSet' \in BOOLEAN
        /\ carrier' \in BOOLEAN
        /\ rxWork' \in BOOLEAN
        /\ txWork' \in BOOLEAN
        /\ enabled' \in BOOLEAN
    BY <1>30 DEF PollTx
  <2>3. /\ linkUp' \in BOOLEAN
        /\ pollMode' \in BOOLEAN
        /\ polling' \in BOOLEAN
        /\ timerValue' \in BOOLEAN
    BY <1>30 DEF PollTx
  <2>4. /\ intrMask' \in {intrMaskRxTx, intrMaskTimer, intrMaskPoll}
        /\ irqMask' \in {{}, intrMaskRxTx, intrMaskTimer, intrMaskPoll}
    BY <1>30 DEF PollTx
  <2>5. irqPc' \in {"idle", "mask", "ack", "error", "test", "rx", "tx", "timer",
                  "clear", "link", "load", "unmask", "hang"}
       /\ pollPc' \in {"idle", "on", "off", "write", "rx", "tx", "clear"}
    BY <1>30 DEF PollTx
  <2>. QED
    BY <2>1, <2>2, <2>3, <2>4, <2>5, <1>h
<1>31. CASE PollClear
  <2>1. /\ isr' \subseteq Events \ {"SYSErr"}
        /\ imr' \subseteq Events
        /\ irqStatus' \subseteq Events
    BY <1>31 DEF PollClear
  <2>2. /\ timerSet' \in BOOLEAN
        /\ carrier' \in BOOLEAN
        /\ rxWork' \in BOOLEAN
        /\ txWork' \in BOOLEAN
        /\ enabled' \in BOOLEAN
    BY <1>31 DEF PollClear
  <2>3. /\ linkUp' \in BOOLEAN
        /\ pollMode' \in BOOLEAN
        /\ polling' \in BOOLEAN
        /\ timerValue' \in BOOLEAN
    BY <1>31 DEF PollClear
  <2>4. /\ intrMask' \in {intrMaskRxTx, intrMaskTimer, intrMaskPoll}
        /\ irqMask' \in {{}, intrMaskRxTx, intrMaskTimer, intrMaskPoll}
    BY <1>31 DEF PollClear
  <2>5. irqPc' \in {"idle", "mask", "ack", "error", "test", "rx", "tx", "timer",
                  "clear", "link", "load", "unmask", "hang"}
       /\ pollPc' \in {"idle", "on", "off", "write", "rx", "tx", "clear"}
    BY <1>31 DEF PollClear
  <2>. QED
    BY <2>1, <2>2, <2>3, <2>4, <2>5, <1>h
<1>. QED
  BY <1>1, <1>2, <1>3, <1>4, <1>5, <1>6, <1>7, <1>8, <1>9, <1>10, <1>11, <1>12, <1>13,
     <1>14, <1>15, <1>16, <1>17, <1>18, <1>19, <1>20, <1>21, <1>22, <1>23, <1>24, <1>25,
     <1>26, <1>27, <1>28, <1>29, <1>30, <1>31, NextIs

(* __POLLING is handed over correctly. *)
LEMMA ServerStep ==
  ASSUME ServerInv, Next
  PROVE  (ClearedByLast /\ OneServer)'
<1>. USE DEF Next, ServerInv, ClearedByLast, OneServer, TypeOK, IrqServing, PollServing,
            BothIdle,
           nicVars, workVars, flagVars, maskVars, irqVars
<1>1. CASE NicRx
  BY <1>1 DEF NicRx
<1>2. CASE NicTx
  BY <1>2 DEF NicTx
<1>3. CASE NicTimer
  BY <1>3 DEF NicTimer
<1>4. CASE NicLink
  BY <1>4 DEF NicLink
<1>5. CASE IrqEnter
  BY <1>5 DEF IrqEnter
<1>6. CASE IrqMask
  BY <1>6 DEF IrqMask
<1>7. CASE IrqAck
  BY <1>7 DEF IrqAck, Acked
<1>8. CASE IrqError
  BY <1>8 DEF IrqError, Restarted, ResetNic
<1>9. CASE IrqServe
  BY <1>9 DEF IrqServe, MayServe
<1>10. CASE IrqSkip
  BY <1>10 DEF IrqSkip, MayServe, StillAsked
<1>11. CASE IrqRx
  BY <1>11 DEF IrqRx
<1>12. CASE IrqTx
  BY <1>12 DEF IrqTx
<1>13. CASE IrqTimer
  BY <1>13 DEF IrqTimer, NewTimer, NewMask, StillAsked
<1>14. CASE IrqClear
  BY <1>14 DEF IrqClear
<1>15. CASE IrqNoLink
  BY <1>15 DEF IrqNoLink
<1>16. CASE IrqLink
  BY <1>16 DEF IrqLink, ResetNic
<1>17. CASE IrqLoad
  BY <1>17 DEF IrqLoad
<1>18. CASE IrqUnmask
  BY <1>18 DEF IrqUnmask
<1>19. CASE HangCheck
  BY <1>19 DEF HangCheck
<1>20. CASE HangReclaim
  BY <1>20 DEF HangReclaim
<1>21. CASE Reconfigure
  BY <1>21 DEF Reconfigure, Restarted, ResetNic
<1>22. CASE Disable
  BY <1>22 DEF Disable, ResetNic
<1>23. CASE Enable
  BY <1>23 DEF Enable, Restarted, ResetNic
<1>24. CASE PollModeOn
  BY <1>24 DEF PollModeOn
<1>25. CASE PollModeOff
  BY <1>25 DEF PollModeOff
<1>26. CASE PollMask
  BY <1>26 DEF PollMask
<1>27. CASE PollWrite
  BY <1>27 DEF PollWrite
<1>28. CASE PollStart
  BY <1>28 DEF PollStart, MayPoll
<1>29. CASE PollRx
  BY <1>29 DEF PollRx
<1>30. CASE PollTx
  BY <1>30 DEF PollTx
<1>31. CASE PollClear
  BY <1>31 DEF PollClear
<1>. QED
  BY <1>1, <1>2, <1>3, <1>4, <1>5, <1>6, <1>7, <1>8, <1>9, <1>10, <1>11, <1>12, <1>13,
     <1>14, <1>15, <1>16, <1>17, <1>18, <1>19, <1>20, <1>21, <1>22, <1>23, <1>24, <1>25,
     <1>26, <1>27, <1>28, <1>29, <1>30, <1>31, NextIs

(* What is known of a pending link change is preserved. *)
LEMMA LinkStep ==
  ASSUME LinkFlaps = FALSE, TypeOK, LinkInv, Next
  PROVE  LinkInv'
<1>. USE DEF TypeOK, LinkInv, BeforeAck, BeforeLink, AfterAck, Events,
           nicVars, workVars, flagVars, maskVars, irqVars
<1>1. CASE NicRx
  BY <1>1 DEF NicRx
<1>2. CASE NicTx
  BY <1>2 DEF NicTx
<1>3. CASE NicTimer
  BY <1>3 DEF NicTimer
<1>4. CASE NicLink
  <2>1. ~(linkUp /\ carrier')
    BY <1>4 DEF NicLink
  <2>2. "LinkChg" \in irqStatus => carrier' = carrier
    BY <1>4 DEF NicLink
  <2>. QED
    BY <1>4, <2>1, <2>2 DEF NicLink
<1>5. CASE IrqEnter
  BY <1>5 DEF IrqEnter
<1>6. CASE IrqMask
  BY <1>6 DEF IrqMask
<1>7. CASE IrqAck
  BY <1>7 DEF IrqAck, Acked
<1>8. CASE IrqError
  BY <1>8 DEF IrqError, Restarted, ResetNic
<1>9. CASE IrqServe
  BY <1>9 DEF IrqServe, MayServe
<1>10. CASE IrqSkip
  BY <1>10 DEF IrqSkip, MayServe, StillAsked
<1>11. CASE IrqRx
  BY <1>11 DEF IrqRx
<1>12. CASE IrqTx
  BY <1>12 DEF IrqTx
<1>13. CASE IrqTimer
  BY <1>13 DEF IrqTimer, NewTimer, NewMask, StillAsked
<1>14. CASE IrqClear
  BY <1>14 DEF IrqClear
<1>15. CASE IrqNoLink
  BY <1>15 DEF IrqNoLink
<1>16. CASE IrqLink
  BY <1>16 DEF IrqLink, ResetNic
<1>17. CASE IrqLoad
  BY <1>17 DEF IrqLoad
<1>18. CASE IrqUnmask
  BY <1>18 DEF IrqUnmask
<1>19. CASE HangCheck
  BY <1>19 DEF HangCheck
<1>20. CASE HangReclaim
  BY <1>20 DEF HangReclaim
<1>21. CASE Reconfigure
  BY <1>21 DEF Reconfigure, Restarted, ResetNic
<1>22. CASE Disable
  BY <1>22 DEF Disable, ResetNic
<1>23. CASE Enable
  BY <1>23 DEF Enable, Restarted, ResetNic
<1>24. CASE PollModeOn
  BY <1>24 DEF PollModeOn
<1>25. CASE PollModeOff
  BY <1>25 DEF PollModeOff
<1>26. CASE PollMask
  BY <1>26 DEF PollMask
<1>27. CASE PollWrite
  BY <1>27 DEF PollWrite
<1>28. CASE PollStart
  BY <1>28 DEF PollStart, MayPoll
<1>29. CASE PollRx
  BY <1>29 DEF PollRx
<1>30. CASE PollTx
  BY <1>30 DEF PollTx
<1>31. CASE PollClear
  BY <1>31 DEF PollClear
<1>. QED
  BY <1>1, <1>2, <1>3, <1>4, <1>5, <1>6, <1>7, <1>8, <1>9, <1>10, <1>11, <1>12, <1>13,
     <1>14, <1>15, <1>16, <1>17, <1>18, <1>19, <1>20, <1>21, <1>22, <1>23, <1>24, <1>25,
     <1>26, <1>27, <1>28, <1>29, <1>30, <1>31, NextIs

(* Poll mode and a running handler imply an enabled interface. *)
LEMMA EnabledStep ==
  ASSUME TypeOK, LinkInv, EnabledInv, Next
  PROVE  (irqPc # "idle" => enabled)' /\ (pollMode => enabled /\ linkUp)'
<1>. USE DEF TypeOK, EnabledInv, LinkInv, BeforeLink, 
           nicVars, workVars, flagVars, maskVars, irqVars
<1>1. CASE NicRx
  BY <1>1 DEF NicRx
<1>2. CASE NicTx
  BY <1>2 DEF NicTx
<1>3. CASE NicTimer
  BY <1>3 DEF NicTimer
<1>4. CASE NicLink
  BY <1>4 DEF NicLink
<1>5. CASE IrqEnter
  BY <1>5 DEF IrqEnter
<1>6. CASE IrqMask
  BY <1>6 DEF IrqMask
<1>7. CASE IrqAck
  BY <1>7 DEF IrqAck, Acked
<1>8. CASE IrqError
  BY <1>8 DEF IrqError, Restarted, ResetNic
<1>9. CASE IrqServe
  BY <1>9 DEF IrqServe, MayServe
<1>10. CASE IrqSkip
  BY <1>10 DEF IrqSkip, MayServe, StillAsked
<1>11. CASE IrqRx
  BY <1>11 DEF IrqRx
<1>12. CASE IrqTx
  BY <1>12 DEF IrqTx
<1>13. CASE IrqTimer
  BY <1>13 DEF IrqTimer, NewTimer, NewMask, StillAsked
<1>14. CASE IrqClear
  BY <1>14 DEF IrqClear
<1>15. CASE IrqNoLink
  BY <1>15 DEF IrqNoLink
<1>16. CASE IrqLink
  BY <1>16 DEF IrqLink, ResetNic
<1>17. CASE IrqLoad
  BY <1>17 DEF IrqLoad
<1>18. CASE IrqUnmask
  BY <1>18 DEF IrqUnmask
<1>19. CASE HangCheck
  BY <1>19 DEF HangCheck
<1>20. CASE HangReclaim
  BY <1>20 DEF HangReclaim
<1>21. CASE Reconfigure
  BY <1>21 DEF Reconfigure, Restarted, ResetNic
<1>22. CASE Disable
  BY <1>22 DEF Disable, ResetNic
<1>23. CASE Enable
  BY <1>23 DEF Enable, Restarted, ResetNic
<1>24. CASE PollModeOn
  BY <1>24 DEF PollModeOn
<1>25. CASE PollModeOff
  BY <1>25 DEF PollModeOff
<1>26. CASE PollMask
  BY <1>26 DEF PollMask
<1>27. CASE PollWrite
  BY <1>27 DEF PollWrite
<1>28. CASE PollStart
  BY <1>28 DEF PollStart, MayPoll
<1>29. CASE PollRx
  BY <1>29 DEF PollRx
<1>30. CASE PollTx
  BY <1>30 DEF PollTx
<1>31. CASE PollClear
  BY <1>31 DEF PollClear
<1>. QED
  BY <1>1, <1>2, <1>3, <1>4, <1>5, <1>6, <1>7, <1>8, <1>9, <1>10, <1>11, <1>12, <1>13,
     <1>14, <1>15, <1>16, <1>17, <1>18, <1>19, <1>20, <1>21, <1>22, <1>23, <1>24, <1>25,
     <1>26, <1>27, <1>28, <1>29, <1>30, <1>31, NextIs

(* Evicting the poller is a race, and both threads must be idle to end it. *)
LEMMA EvictedStep ==
  ASSUME TypeOK, ServerInv, EnabledInv, Next
  PROVE  (evicted => raced)'
  BY DEF Next, ServerInv, ClearedByLast, EnabledInv, TypeOK, IrqServing, PollServing,
     BothIdle, Race, Fresh, Disable, Reconfigure, Enable, Restarted, ResetNic, irqVars

(* What both threads may have to do with each other in a step that neither *)
(* races nor starts afresh.                                                *)
NoMeeting ==
  /\ ~(irqPc = "idle" /\ irqPc' # "idle" /\ pollPc \in {"on", "off", "write"})
  /\ ~(pollPc = "idle" /\ pollPc' \in {"on", "off"} /\ irqPc # "idle")
  /\ ~((IrqError \/ IrqLink \/ Reconfigure \/ Disable) /\ pollPc # "idle")
  /\ ~(Reconfigure \/ Enable)

(* The poller, action by action. *)
LEMMA PollStep ==
  ASSUME LinkFlaps = FALSE, TypeOK, ServerInv, LinkInv, EnabledInv, NoRaceInv,
         ~evicted, NoMeeting, Next
  PROVE  PollInv'
<1>. USE DEF PollInv, PollModeInv, NoMeeting, NoRaceInv, TypeOK, EnabledInv,
            PollServing, Handling,
           intrMaskRxTx, intrMaskTimer, intrMaskPoll, nicVars, workVars, flagVars,
           maskVars, irqVars
<1>1. CASE NicRx
  BY <1>1 DEF NicRx
<1>2. CASE NicTx
  BY <1>2 DEF NicTx
<1>3. CASE NicTimer
  BY <1>3 DEF NicTimer
<1>4. CASE NicLink
  BY <1>4 DEF NicLink
<1>5. CASE IrqEnter
  BY <1>5 DEF IrqEnter
<1>6. CASE IrqMask
  BY <1>6 DEF IrqMask
<1>7. CASE IrqAck
  BY <1>7 DEF IrqAck, Acked
<1>8. CASE IrqError
  BY <1>8 DEF IrqError, Restarted, ResetNic
<1>9. CASE IrqServe
  BY <1>9 DEF IrqServe, MayServe
<1>10. CASE IrqSkip
  BY <1>10 DEF IrqSkip, MayServe, StillAsked
<1>11. CASE IrqRx
  BY <1>11 DEF IrqRx
<1>12. CASE IrqTx
  BY <1>12 DEF IrqTx
<1>13. CASE IrqTimer
  BY <1>13 DEF IrqTimer, NewTimer, NewMask, StillAsked
<1>14. CASE IrqClear
  BY <1>14 DEF IrqClear
<1>15. CASE IrqNoLink
  BY <1>15 DEF IrqNoLink
<1>16. CASE IrqLink
  BY <1>16 DEF IrqLink, ResetNic
<1>17. CASE IrqLoad
  BY <1>17 DEF IrqLoad
<1>18. CASE IrqUnmask
  BY <1>18 DEF IrqUnmask
<1>19. CASE HangCheck
  BY <1>19 DEF HangCheck
<1>20. CASE HangReclaim
  BY <1>20 DEF HangReclaim
<1>21. CASE Reconfigure
  BY <1>21 DEF Reconfigure, Restarted, ResetNic
<1>22. CASE Disable
  BY <1>22 DEF Disable, ResetNic
<1>23. CASE Enable
  BY <1>23 DEF Enable, Restarted, ResetNic
<1>24. CASE PollModeOn
  BY <1>24 DEF PollModeOn
<1>25. CASE PollModeOff
  BY <1>25 DEF PollModeOff
<1>26. CASE PollMask
  BY <1>26 DEF PollMask
<1>27. CASE PollWrite
  BY <1>27 DEF PollWrite
<1>28. CASE PollStart
  BY <1>28 DEF PollStart, MayPoll
<1>29. CASE PollRx
  BY <1>29 DEF PollRx
<1>30. CASE PollTx
  BY <1>30 DEF PollTx
<1>31. CASE PollClear
  BY <1>31 DEF PollClear
<1>. QED
  BY <1>1, <1>2, <1>3, <1>4, <1>5, <1>6, <1>7, <1>8, <1>9, <1>10, <1>11, <1>12, <1>13,
     <1>14, <1>15, <1>16, <1>17, <1>18, <1>19, <1>20, <1>21, <1>22, <1>23, <1>24, <1>25,
     <1>26, <1>27, <1>28, <1>29, <1>30, <1>31, NextIs

(* Poll mode, action by action. *)
LEMMA PollModeStep ==
  ASSUME LinkFlaps = FALSE, TypeOK, ServerInv, LinkInv, EnabledInv, NoRaceInv,
         ~evicted, NoMeeting, Next
  PROVE  PollModeInv'
<1>. USE DEF PollInv, PollModeInv, BeforeLink, LinkInv, BeforeAck, AfterAck, ServerInv,
            OneServer, IrqServing, NoMeeting, NoRaceInv, TypeOK, EnabledInv,
            PollServing, Handling,
           intrMaskRxTx, intrMaskTimer, intrMaskPoll, nicVars, workVars, flagVars,
           maskVars, irqVars
<1>1. CASE NicRx
  BY <1>1 DEF NicRx
<1>2. CASE NicTx
  BY <1>2 DEF NicTx
<1>3. CASE NicTimer
  BY <1>3 DEF NicTimer
<1>4. CASE NicLink
  BY <1>4 DEF NicLink
<1>5. CASE IrqEnter
  BY <1>5 DEF IrqEnter
<1>6. CASE IrqMask
  BY <1>6 DEF IrqMask
<1>7. CASE IrqAck
  BY <1>7 DEF IrqAck, Acked
<1>8. CASE IrqError
  BY <1>8 DEF IrqError, Restarted, ResetNic
<1>9. CASE IrqServe
  BY <1>9 DEF IrqServe, MayServe
<1>10. CASE IrqSkip
  BY <1>10 DEF IrqSkip, MayServe, StillAsked
<1>11. CASE IrqRx
  BY <1>11 DEF IrqRx
<1>12. CASE IrqTx
  BY <1>12 DEF IrqTx
<1>13. CASE IrqTimer
  BY <1>13 DEF IrqTimer, NewTimer, NewMask, StillAsked
<1>14. CASE IrqClear
  BY <1>14 DEF IrqClear
<1>15. CASE IrqNoLink
  BY <1>15 DEF IrqNoLink
<1>16. CASE IrqLink
  BY <1>16 DEF IrqLink, ResetNic
<1>17. CASE IrqLoad
  BY <1>17 DEF IrqLoad
<1>18. CASE IrqUnmask
  BY <1>18 DEF IrqUnmask
<1>19. CASE HangCheck
  BY <1>19 DEF HangCheck
<1>20. CASE HangReclaim
  BY <1>20 DEF HangReclaim
<1>21. CASE Reconfigure
  BY <1>21 DEF Reconfigure, Restarted, ResetNic
<1>22. CASE Disable
  BY <1>22 DEF Disable, ResetNic
<1>23. CASE Enable
  BY <1>23 DEF Enable, Restarted, ResetNic
<1>24. CASE PollModeOn
  BY <1>24 DEF PollModeOn
<1>25. CASE PollModeOff
  BY <1>25 DEF PollModeOff
<1>26. CASE PollMask
  BY <1>26 DEF PollMask
<1>27. CASE PollWrite
  BY <1>27 DEF PollWrite
<1>28. CASE PollStart
  BY <1>28 DEF PollStart, MayPoll
<1>29. CASE PollRx
  BY <1>29 DEF PollRx
<1>30. CASE PollTx
  BY <1>30 DEF PollTx
<1>31. CASE PollClear
  BY <1>31 DEF PollClear
<1>. QED
  BY <1>1, <1>2, <1>3, <1>4, <1>5, <1>6, <1>7, <1>8, <1>9, <1>10, <1>11, <1>12, <1>13,
     <1>14, <1>15, <1>16, <1>17, <1>18, <1>19, <1>20, <1>21, <1>22, <1>23, <1>24, <1>25,
     <1>26, <1>27, <1>28, <1>29, <1>30, <1>31, NextIs

(* The mask, action by action. *)
LEMMA MaskStep ==
  ASSUME LinkFlaps = FALSE, TypeOK, ServerInv, LinkInv, EnabledInv, NoRaceInv,
         ~evicted, NoMeeting, Next
  PROVE  MaskInv'
<1>. USE DEF PollInv, PollModeInv, MaskInv, TimerRuns, ServerInv, OneServer, IrqServing,
            NoMeeting, NoRaceInv, TypeOK, EnabledInv, PollServing, Handling,
           intrMaskRxTx, intrMaskTimer, intrMaskPoll, nicVars, workVars, flagVars,
           maskVars, irqVars
<1>1. CASE NicRx
  BY <1>1 DEF NicRx
<1>2. CASE NicTx
  BY <1>2 DEF NicTx
<1>3. CASE NicTimer
  BY <1>3 DEF NicTimer
<1>4. CASE NicLink
  BY <1>4 DEF NicLink
<1>5. CASE IrqEnter
  BY <1>5 DEF IrqEnter
<1>6. CASE IrqMask
  BY <1>6 DEF IrqMask
<1>7. CASE IrqAck
  BY <1>7 DEF IrqAck, Acked
<1>8. CASE IrqError
  BY <1>8 DEF IrqError, Restarted, ResetNic
<1>9. CASE IrqServe
  BY <1>9 DEF IrqServe, MayServe
<1>10. CASE IrqSkip
  BY <1>10 DEF IrqSkip, MayServe, StillAsked
<1>11. CASE IrqRx
  BY <1>11 DEF IrqRx
<1>12. CASE IrqTx
  BY <1>12 DEF IrqTx
<1>13. CASE IrqTimer
  <2>1. NewTimer => timerSet'
    BY <1>13 DEF IrqTimer
  <2>2. intrMask' = NewMask /\ NewMask \in {intrMaskRxTx, intrMaskTimer}
    BY <1>13 DEF IrqTimer, NewMask
  <2>3. NewMask = intrMaskTimer => NewTimer
    BY DEF NewMask
  <2>4. irqPc' = "clear"
    BY <1>13 DEF IrqTimer
  <2>. QED
    BY <2>1, <2>2, <2>3, <2>4
<1>14. CASE IrqClear
  BY <1>14 DEF IrqClear
<1>15. CASE IrqNoLink
  BY <1>15 DEF IrqNoLink
<1>16. CASE IrqLink
  BY <1>16 DEF IrqLink, ResetNic
<1>17. CASE IrqLoad
  BY <1>17 DEF IrqLoad
<1>18. CASE IrqUnmask
  BY <1>18 DEF IrqUnmask
<1>19. CASE HangCheck
  BY <1>19 DEF HangCheck
<1>20. CASE HangReclaim
  BY <1>20 DEF HangReclaim
<1>21. CASE Reconfigure
  BY <1>21 DEF Reconfigure, Restarted, ResetNic
<1>22. CASE Disable
  BY <1>22 DEF Disable, ResetNic
<1>23. CASE Enable
  BY <1>23 DEF Enable, Restarted, ResetNic
<1>24. CASE PollModeOn
  BY <1>24 DEF PollModeOn
<1>25. CASE PollModeOff
  BY <1>25 DEF PollModeOff
<1>26. CASE PollMask
  BY <1>26 DEF PollMask
<1>27. CASE PollWrite
  BY <1>27 DEF PollWrite
<1>28. CASE PollStart
  BY <1>28 DEF PollStart, MayPoll
<1>29. CASE PollRx
  BY <1>29 DEF PollRx
<1>30. CASE PollTx
  BY <1>30 DEF PollTx
<1>31. CASE PollClear
  BY <1>31 DEF PollClear
<1>. QED
  BY <1>1, <1>2, <1>3, <1>4, <1>5, <1>6, <1>7, <1>8, <1>9, <1>10, <1>11, <1>12, <1>13,
     <1>14, <1>15, <1>16, <1>17, <1>18, <1>19, <1>20, <1>21, <1>22, <1>23, <1>24, <1>25,
     <1>26, <1>27, <1>28, <1>29, <1>30, <1>31, NextIs

(* The work, action by action. *)
LEMMA WorkStep ==
  ASSUME LinkFlaps = FALSE, TypeOK, ServerInv, LinkInv, EnabledInv, NoRaceInv,
         ~evicted, NoMeeting, ~raced', Next
  PROVE  WorkInv'
<1>. USE DEF PollInv, PollModeInv, WorkInv, LinkInv, BeforeLink, BeforeAck, ServerInv,
            OneServer, IrqServing, NoMeeting, NoRaceInv, TypeOK, EnabledInv,
            PollServing, Handling,
           intrMaskRxTx, intrMaskTimer, intrMaskPoll, nicVars, workVars, flagVars,
           maskVars, irqVars
<1>u. /\ "RxOK" \in unserved /\ rxWork' => "RxOK" \in unserved'
      /\ "TxOK" \in unserved /\ txWork' => "TxOK" \in unserved'
      /\ IrqSkip /\ pollMode /\ "RxOK" \in irqStatus /\ rxWork' => "RxOK" \in unserved'
      /\ IrqSkip /\ pollMode /\ "TxOK" \in irqStatus /\ txWork' => "TxOK" \in unserved'
  BY DEF Next, LeftToPoller, WorkOf
<1>1. CASE NicRx
  BY <1>1, <1>u DEF NicRx
<1>2. CASE NicTx
  BY <1>2, <1>u DEF NicTx
<1>3. CASE NicTimer
  BY <1>3, <1>u DEF NicTimer
<1>4. CASE NicLink
  BY <1>4, <1>u DEF NicLink
<1>5. CASE IrqEnter
  BY <1>5, <1>u DEF IrqEnter
<1>6. CASE IrqMask
  BY <1>6, <1>u DEF IrqMask
<1>7. CASE IrqAck
  BY <1>7, <1>u DEF IrqAck, Acked
<1>8. CASE IrqError
  BY <1>8, <1>u DEF IrqError, Restarted, ResetNic
<1>9. CASE IrqServe
  BY <1>9, <1>u DEF IrqServe, MayServe
<1>10. CASE IrqSkip
  BY <1>10, <1>u DEF IrqSkip, MayServe, StillAsked
<1>11. CASE IrqRx
  BY <1>11, <1>u DEF IrqRx
<1>12. CASE IrqTx
  BY <1>12, <1>u DEF IrqTx
<1>13. CASE IrqTimer
  BY <1>13, <1>u DEF IrqTimer, NewTimer, NewMask, StillAsked
<1>14. CASE IrqClear
  BY <1>14, <1>u DEF IrqClear
<1>15. CASE IrqNoLink
  BY <1>15, <1>u DEF IrqNoLink
<1>16. CASE IrqLink
  BY <1>16, <1>u DEF IrqLink, ResetNic
<1>17. CASE IrqLoad
  BY <1>17, <1>u DEF IrqLoad
<1>18. CASE IrqUnmask
  BY <1>18, <1>u DEF IrqUnmask
<1>19. CASE HangCheck
  BY <1>19, <1>u DEF HangCheck
<1>20. CASE HangReclaim
  BY <1>20, <1>u DEF HangReclaim
<1>21. CASE Reconfigure
  BY <1>21, <1>u DEF Reconfigure, Restarted, ResetNic
<1>22. CASE Disable
  BY <1>22, <1>u DEF Disable, ResetNic
<1>23. CASE Enable
  BY <1>23, <1>u DEF Enable, Restarted, ResetNic
<1>24. CASE PollModeOn
  BY <1>24, <1>u DEF PollModeOn
<1>25. CASE PollModeOff
  BY <1>25, <1>u DEF PollModeOff
<1>26. CASE PollMask
  BY <1>26, <1>u DEF PollMask
<1>27. CASE PollWrite
  BY <1>27, <1>u DEF PollWrite
<1>28. CASE PollStart
  BY <1>28, <1>u DEF PollStart, MayPoll
<1>29. CASE PollRx
  <2>1. rxWork' => rxWork
    BY <1>29, <1>u DEF PollRx
  <2>. QED
    BY <1>29, <1>u, <2>1 DEF PollRx
<1>30. CASE PollTx
  BY <1>30, <1>u DEF PollTx
<1>31. CASE PollClear
  BY <1>31, <1>u DEF PollClear
<1>. QED
  BY <1>1, <1>2, <1>3, <1>4, <1>5, <1>6, <1>7, <1>8, <1>9, <1>10, <1>11, <1>12, <1>13,
     <1>14, <1>15, <1>16, <1>17, <1>18, <1>19, <1>20, <1>21, <1>22, <1>23, <1>24, <1>25,
     <1>26, <1>27, <1>28, <1>29, <1>30, <1>31, NextIs

(* A step that neither races nor starts afresh. *)
LEMMA QuietStep ==
  ASSUME LinkFlaps = FALSE, TypeOK, ServerInv, LinkInv, EnabledInv, NoRaceInv,
         ~raced, ~raced', NoMeeting, Next
  PROVE  NoRaceInv'
<1>1. ~evicted
  BY DEF EnabledInv
<1>. QED
  BY <1>1, PollStep, PollModeStep, MaskStep, WorkStep DEF NoRaceInv

(* Everything is set up anew, while nobody is at it. *)
LEMMA FreshStep ==
  ASSUME TypeOK, ServerInv, LinkInv, EnabledInv, Fresh
  PROVE  NoRaceInv'
BY DEF Fresh, Reconfigure, Enable, Restarted, ResetNic, NoRaceInv, PollInv, PollModeInv,
       MaskInv, WorkInv, PollServing, Handling, TimerRuns, EnabledInv, intrMaskRxTx,
       intrMaskTimer, intrMaskPoll, flagVars, irqVars

(* The state does not change. *)
LEMMA Stutter ==
  ASSUME IInv, UNCHANGED vars
  PROVE  IInv'
BY DEF IInv, ServerInv, TypeOK, ClearedByLast, OneServer, IrqServing, PollServing,
       LinkInv, BeforeAck, BeforeLink, AfterAck, EnabledInv, NoRaceInv, PollInv,
       PollModeInv, Handling, MaskInv, TimerRuns, WorkInv, vars, codeVars, nicVars,
       workVars, flagVars, maskVars, irqVars

(* IInv is inductive. *)
LEMMA Inductive ==
  ASSUME LinkFlaps = FALSE, IInv, [Next]_vars
  PROVE  IInv'
<1>1. CASE UNCHANGED vars
  BY <1>1, Stutter
<1>2. CASE Next
  <2>1. ServerInv'
    BY <1>2, TypeStep, ServerStep DEF IInv, ServerInv
  <2>2. LinkInv' /\ EnabledInv'
    BY <1>2, LinkStep, EnabledStep, EvictedStep DEF IInv, ServerInv, EnabledInv
  <2>3. CASE Fresh
    BY <2>1, <2>2, <2>3, FreshStep DEF IInv, ServerInv
  <2>4. CASE ~Fresh /\ ~raced'
    <3>1. ~raced /\ ~Race
      BY <1>2, <2>4 DEF Next
    <3>2. NoRaceInv
      BY <3>1 DEF IInv
    <3>3. ~(Reconfigure \/ Enable)
      BY <2>4, <3>1, <3>2 DEF Fresh, Race, NoRaceInv, PollInv, Enable, Reconfigure
    <3>4. NoMeeting
      BY <3>1, <3>3 DEF NoMeeting, Race
    <3>. QED
      BY <1>2, <2>1, <2>2, <3>1, <3>2, <3>4, QuietStep DEF IInv, ServerInv
  <2>5. CASE raced'
    BY <2>1, <2>2, <2>5 DEF IInv
  <2>. QED
    BY <2>3, <2>4, <2>5
<1>. QED
  BY <1>1, <1>2

(* IInv holds at first. *)
LEMMA Initially ==
  ASSUME Init
  PROVE  IInv
<1>. USE DEF Init, Events, intrMaskRxTx, intrMaskTimer, intrMaskPoll
<1>1. imr \subseteq Events /\ intrMask \in {intrMaskRxTx, intrMaskTimer, intrMaskPoll}
  OBVIOUS
<1>2. TypeOK
  BY <1>1 DEF TypeOK
<1>3. ServerInv /\ LinkInv /\ EnabledInv
  BY <1>2 DEF ServerInv, ClearedByLast, OneServer, IrqServing, PollServing, LinkInv,
              BeforeAck, BeforeLink, AfterAck, EnabledInv
<1>4. PollInv /\ PollModeInv /\ WorkInv
  BY DEF PollInv, PollModeInv, WorkInv, PollServing, Handling
<1>5. MaskInv
  <2>1. imr = intrMask /\ imr = {"LinkChg", "RxOK", "TxOK"} /\ irqPc = "idle"
    OBVIOUS
  <2>2. intrMaskRxTx # intrMaskTimer
    OBVIOUS
  <2>. QED
    BY <2>1, <2>2 DEF MaskInv, Handling, TimerRuns
<1>. QED
  BY <1>3, <1>4, <1>5 DEF IInv, NoRaceInv

-----------------------------------------------------------------------------
(* The theorems.                                                           *)

(* One thread at a time serves the rings, and __POLLING says so, however   *)
(* the link behaves.                                                       *)
THEOREM RingsHaveOneServer == Spec => []OneServer
<1>1. Init => ServerInv
  BY Initially DEF IInv
<1>2. ServerInv /\ [Next]_vars => ServerInv'
  <2>1. ASSUME ServerInv, Next PROVE ServerInv'
    BY <2>1, TypeStep, ServerStep DEF ServerInv
  <2>2. ASSUME ServerInv, UNCHANGED vars PROVE ServerInv'
    BY <2>2 DEF ServerInv, TypeOK, ClearedByLast, OneServer, IrqServing, PollServing,
       vars, codeVars, nicVars, workVars, flagVars, maskVars, irqVars
  <2>. QED
    BY <2>1, <2>2
<1>3. ServerInv => OneServer
  BY DEF ServerInv
<1>. QED
  BY <1>1, <1>2, <1>3, PTL DEF Spec

(* The inductive invariant holds. *)
THEOREM Invariant == LinkFlaps = FALSE /\ Spec => []IInv
<1>1. Init => IInv
  BY Initially
<1>2. (LinkFlaps = FALSE) /\ IInv /\ [Next]_vars => IInv'
  BY Inductive
<1>3. CASE LinkFlaps = FALSE
  BY <1>1, <1>2, <1>3, PTL DEF Spec
<1>. QED
  BY <1>3

(* When both threads are idle, a mask without RxOK and TxOK has a reason:  *)
(* poll mode, or a timer that has expired or will.                         *)
THEOREM MaskHasReason == LinkFlaps = FALSE /\ Spec => []MaskedWithReason
<1>1. IInv => MaskedWithReason
  BY DEF IInv, NoRaceInv, MaskInv, TimerRuns, MaskedWithReason, BothIdle, Handling,
         intrMaskRxTx, intrMaskTimer
<1>. QED
  BY <1>1, Invariant, PTL

(* When both threads are idle and poll mode is off, work in the rings has  *)
(* its event in ISR0, so that it is not forgotten there, unless a handler  *)
(* that was late has acknowledged it in poll mode.                         *)
THEOREM WorkHasEvent == LinkFlaps = FALSE /\ Spec => []WorkAnnounced
<1>1. IInv => WorkAnnounced
  BY DEF IInv, NoRaceInv, WorkInv, WorkAnnounced, BothIdle
<1>. QED
  BY <1>1, Invariant, PTL
=============================================================================
