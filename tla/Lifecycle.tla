------------------------------ MODULE Lifecycle ------------------------------
(* The life of one SimpleRTK5 object: init, start with its setup functions   *)
(* and their unwinding, the calls of the network stack and of power          *)
(* management, link changes, the timer and the statistics thread, stop and   *)
(* free. The calls run on the work loop one after the other and are one step *)
(* each; statUpdateThread() runs beside them, and stop() is two steps so     *)
(* that the thread may come between.                                         *)
(*                                                                           *)
(* External: IOKit disables an interface before the controller sleeps or     *)
(* stops, and does not enable one of a controller that is powered off.       *)
EXTENDS Chip, Sequences

CONSTANT Models     \* the chips considered: records of what the probe finds

ModelsAssumption ==
    \A mod \in Models : /\ <<mod.mcfg, mod.known>> \in Identified
                        /\ mod.managed => mod.mcfg \in ManagedMethods
                        /\ mod.DASH => mod.managed /\ mod.mcfg \in DashMethods
ASSUME ModelsAssumption

VARIABLES
    phase,      \* "new", "off", "up", "stopping", "stopped", "freed", "shut"
    res,        \* what each pointer holds: "null", "held", or "dangling"
    attached,   \* the network interface exists
    pciOpen,    \* the provider is open
    stateFlags, \* of the bits: __ENABLED and __M_CAST
    link,       \* __LINK_UP and whether the speed is 10 MBit
    irqOn,      \* the interrupt source is enabled
    timer,      \* the timer source has a timeout
    stat,       \* the statistics call: "idle", "pending" or "running"
    powered,    \* powerState
    pme,        \* PME# enabled in the PM control register
    c,          \* the chip
    aspm,       \* enableASPM
    vtd,        \* useAppleVTD
    rested,     \* history: nothing was called since disable()
    faults      \* history: the bad accesses made so far

swVars == <<attached, pciOpen, stateFlags, link, irqOn, timer, stat>>
vars == <<phase, res, swVars, powered, pme, c, aspm, vtd, rested, faults>>

-----------------------------------------------------------------------------
(* Resources: each setup function acquires its own one after the other.      *)

TxSteps == <<"txBufArrayMem", "txBufDesc", "txPrepared", "txDescDmaCmd",
             "txMapped", "txMbufCursor">>
RxSteps == <<"rxBufArrayMem", "rxBufDesc", "rxPrepared", "rxDescDmaCmd",
             "rxMapped", "rxPool", "rxMbufs", "rxMap">>
StatSteps == <<"statCall", "statBufDesc", "statPrepared", "statDescDmaCmd",
               "statMapped", "statAddr">>
EventSteps == <<"txQueue", "interruptSource", "timerSource">>

Of(steps) == {steps[i] : i \in DOMAIN steps}
TxRes == Of(TxSteps)
RxRes == Of(RxSteps)
StatRes == Of(StatSteps)
EventRes == Of(EventSteps)
Resources == TxRes \cup RxRes \cup StatRes \cup EventRes
               \cup {"workLoop", "pciDevice", "mapper", "baseMap",
                     "mediumDict", "commandGate"}

Hold(r, S) == [x \in Resources |-> IF x \in S THEN "held" ELSE r[x]]
Release(r, S) == [x \in Resources |-> IF x \in S THEN "null" ELSE r[x]]
Dangle(r, x) == [r EXCEPT ![x] = "dangling"]
TwiceFreed(S) == {<<"free", x>> : x \in {y \in S : res[y] = "dangling"}}

Acquired(steps, k) == {steps[i] : i \in 1 .. k - 1}

UnwindPrepared(r, steps, k) ==
    Release(Hold(r, Acquired(steps, k)),
            Acquired(steps, k) \ {"txPrepared", "rxPrepared", "statPrepared"})

(* A setup function that fails at step k has undone the k - 1 before.        *)
Unwind(r, steps, k) == Release(Hold(r, Acquired(steps, k)), Acquired(steps, k))

(* setupStatResources() frees the thread call but keeps its address.         *)
StatUnwind(r, k) ==
    IF k = 1 THEN r ELSE Dangle(Unwind(r, StatSteps, k), "statCall")

(* setupRxMap() fails after everything else, which nobody undoes.            *)
RxUnwind(r, k) ==
    IF RxSteps[k] = "rxMap" THEN Hold(r, Acquired(RxSteps, k))
    ELSE Unwind(r, RxSteps, k)

(* useAppleVTD decides which steps there are: a map or a cursor to fail for. *)
FailingSteps(steps) ==
    {k \in DOMAIN steps : steps[k] = "rxMap" => vtd}

(* Of the steps of the setup functions, some are undone only together with   *)
(* what they were done to: complete() with the buffer, clearMemoryDescriptor *)
(* with the DMA command, the event sources with their work loop.             *)
Within(r, owner, S) == IF r[owner] = "null" THEN {} ELSE S \cup {owner}

FreedTx(r) == Within(r, "txBufDesc", {"txPrepared"})
                \cup Within(r, "txDescDmaCmd", {"txMapped"})
                \cup {"txMbufCursor", "txBufArrayMem"}
FreedRx(r) == Within(r, "rxDescDmaCmd", {"rxMapped"})
                \cup Within(r, "rxBufDesc", {"rxPrepared"})
                \cup Within(r, "rxBufArrayMem", {"rxMbufs"})
                \cup {"rxPool"} \cup (IF vtd THEN {"rxMap"} ELSE {})
FreedStat(r) == Within(r, "statBufDesc", {"statPrepared"})
                  \cup Within(r, "statDescDmaCmd", {"statMapped", "statAddr"})
                  \cup {"statCall"}
Freed(r) ==
    FreedTx(r) \cup FreedRx(r) \cup FreedStat(r)
      \cup Within(r, "workLoop", {"interruptSource", "timerSource"})
      \cup {"commandGate", "txQueue", "mediumDict", "baseMap", "pciDevice"}

-----------------------------------------------------------------------------
Init ==
    /\ phase = "new"
    /\ res = [x \in Resources |-> "null"]
    /\ attached = FALSE
    /\ pciOpen = FALSE
    /\ stateFlags = {}
    /\ link = "down"
    /\ irqOn = FALSE
    /\ timer = FALSE
    /\ stat = "idle"
    /\ powered = FALSE
    /\ pme = FALSE
    /\ \E mod \in Models, ram \in BOOLEAN : c = Found(mod, ram)
    /\ aspm \in BOOLEAN
    /\ vtd \in BOOLEAN
    /\ rested = FALSE
    /\ faults = {}

Enabled == "__ENABLED" \in stateFlags
Mcast == "__M_CAST" \in stateFlags

-----------------------------------------------------------------------------
(* start(). A setup function that fails leads to the label that releases     *)
(* what the earlier ones have set up; result still is TRUE then, so that     *)
(* IOKit takes the driver for started.                                       *)

Opened == Hold(res, {"workLoop", "mapper"})
Mapped == Hold(Opened, {"baseMap"})
Gated  == Hold(Mapped, {"pciDevice", "mediumDict", "commandGate"})
TxUp   == Hold(Gated, TxRes)
RxUp   == Hold(TxUp, IF vtd THEN RxRes ELSE RxRes \ {"rxMap"})
StatUp == Hold(RxUp, StatRes)

ErrorGate(r) == Release(r, {"mediumDict", "pciDevice"})
ErrorDma1(r) == ErrorGate(Release(r, {"commandGate"}))
ErrorDma2(r) == ErrorDma1(Release(r, FreedTx(r)))
ErrorDma3(r) == ErrorDma2(Release(r, FreedRx(r)))
ErrorSrc(r)  == ErrorDma3(Release(r, FreedStat(r)))

EndStart(started, r, chip, bad) ==
    /\ phase' = IF started THEN "up" ELSE "off"
    /\ res' = r
    /\ c' = chip
    /\ faults' = faults \cup bad
    /\ powered' = TRUE
    /\ UNCHANGED <<swVars, pme, aspm, vtd, rested>>

(* super::start() fails, before or after it has created the work loop.       *)
StartSuperFails ==
    /\ phase = "new"
    /\ \E S \in SUBSET {"workLoop"} : EndStart(FALSE, Hold(res, S), c, {})

(* No provider or it cannot be opened; no BAR 2; a chip that is not known:   *)
(* rtl812xIdentifyChip() has read rtlChipInfos[0xffffffff] by then.          *)
StartProbeFails ==
    /\ phase = "new"
    /\ \/ EndStart(TRUE, Hold(res, {"workLoop"}), c, {})
       \/ EndStart(TRUE, Opened, c, {})
       \/ EndStart(TRUE, Mapped, c, {<<"read", "rtlChipInfos">>})

(* setupMediumDict() releases the dictionary, which may be NULL, and keeps   *)
(* the pointer to it.                                                        *)
StartMediumFails ==
    /\ phase = "new"
    /\ \/ EndStart(TRUE, Mapped, InitChip(c), {<<"null", "mediumDict">>})
       \/ EndStart(TRUE, Dangle(Mapped, "mediumDict"), InitChip(c), {})

StartGateFails ==
    /\ phase = "new"
    /\ EndStart(TRUE, ErrorGate(Release(Gated, {"commandGate"})),
                InitChip(c), {})

StartTxFails ==
    /\ phase = "new"
    /\ \E k \in FailingSteps(TxSteps) :
         EndStart(TRUE, ErrorDma1(Unwind(Gated, TxSteps, k)), InitChip(c), {})

StartRxFails ==
    /\ phase = "new"
    /\ \E k \in FailingSteps(RxSteps) :
         EndStart(TRUE, ErrorDma2(RxUnwind(TxUp, k)), InitChip(c), {})

StartStatFails ==
    /\ phase = "new"
    /\ \E k \in FailingSteps(StatSteps) :
         EndStart(TRUE, ErrorDma3(StatUnwind(RxUp, k)), InitChip(c), {})

StartEventsFail ==
    /\ phase = "new"
    /\ \E k \in FailingSteps(EventSteps) :
         EndStart(TRUE, ErrorSrc(Unwind(StatUp, EventSteps, k)),
                  InitChip(c), {})

(* The only failure that start() reports; the event sources are left to      *)
(* free().                                                                   *)
StartAttachFails ==
    /\ phase = "new"
    /\ EndStart(FALSE, ErrorSrc(Hold(StatUp, EventRes)), InitChip(c), {})

StartSucceeds ==
    /\ phase = "new"
    /\ phase' = "up"
    /\ res' = Hold(StatUp, EventRes)
    /\ c' = InitChip(c)
    /\ attached' = TRUE
    /\ powered' = TRUE
    /\ UNCHANGED <<pciOpen, stateFlags, link, irqOn, timer, stat, pme, aspm,
                   vtd, rested, faults>>

Start == \/ StartSuperFails \/ StartProbeFails \/ StartMediumFails
         \/ StartGateFails \/ StartTxFails \/ StartRxFails \/ StartStatFails
         \/ StartEventsFail \/ StartAttachFails \/ StartSucceeds

-----------------------------------------------------------------------------
(* Calls by the network stack                                                *)

Ready == phase = "up" /\ attached /\ powered

fixed == <<phase, res, attached, powered, pme, aspm, vtd, faults>>

(* enable(): selectMedium() with its setLinkDown(), then rtl812xEnable().    *)
EnableInterface ==
    /\ Ready /\ ~Enabled /\ ~pciOpen
    /\ \E nway \in BOOLEAN : c' = Enable(SetLinkDown(c), nway, Mcast, aspm)
    /\ pciOpen' = TRUE
    /\ irqOn' = TRUE
    /\ stateFlags' = stateFlags \cup {"__ENABLED"}
    /\ link' = "down"
    /\ rested' = FALSE
    /\ UNCHANGED <<fixed, timer, stat>>

(* disable(), once the poller is done.                                       *)
Disabled ==
    /\ \E linkOk, d0 \in BOOLEAN, wol \in {"none", "ten", "other"} :
         c' = Disable(c, linkOk, d0, wol)
    /\ stateFlags' = stateFlags \ {"__ENABLED"}
    /\ link' = "down"
    /\ timer' = FALSE
    /\ irqOn' = FALSE
    /\ pciOpen' = FALSE

DisableInterface ==
    /\ Ready /\ Enabled
    /\ Disabled
    /\ rested' = TRUE
    /\ UNCHANGED <<fixed, stat>>

(* selectMedium() does not ask whether the interface is enabled.             *)
SelectMedium ==
    /\ Ready
    /\ c' = SetLinkDown(c)
    /\ link' = "down"
    /\ rested' = FALSE
    /\ UNCHANGED <<fixed, pciOpen, stateFlags, irqOn, timer, stat>>

(* Nor does setMaxPacketSize(): rtl812xRestart() after setLinkDown().        *)
SetMaxPacketSize ==
    /\ Ready
    /\ \E nway \in BOOLEAN :
         c' = Enable(HwReset(SetLinkDown(c)), nway, Mcast, aspm)
    /\ link' = "down"
    /\ timer' = FALSE
    /\ rested' = FALSE
    /\ UNCHANGED <<fixed, pciOpen, stateFlags, irqOn, stat>>

FilterCall(chip, flags) ==
    /\ Ready
    /\ c' = chip
    /\ stateFlags' = flags
    /\ rested' = FALSE
    /\ UNCHANGED <<fixed, pciOpen, link, irqOn, timer, stat>>

SetFilter ==
    \/ \E on \in BOOLEAN : FilterCall(SetPromiscuousMode(c, on), stateFlags)
    \/ FilterCall(SetMulticastMode(c, TRUE), stateFlags \cup {"__M_CAST"})
    \/ FilterCall(SetMulticastMode(c, FALSE), stateFlags \ {"__M_CAST"})
    \/ FilterCall(SetMulticastList(c), stateFlags)

SetWakeOnMagicPacket ==
    /\ c.wol_opts # {}
    /\ \E active \in BOOLEAN :
         FilterCall([c EXCEPT !.wol_enabled = active], stateFlags)

-----------------------------------------------------------------------------
(* Interrupt, timer and statistics thread                                    *)

(* rtl812xRestart(), after a PCI error or from txHangCheck().                *)
Restart ==
    /\ Ready /\ Enabled
    /\ \E nway \in BOOLEAN : c' = Enable(HwReset(c), nway, Mcast, aspm)
    /\ link' = "down"
    /\ UNCHANGED <<fixed, pciOpen, stateFlags, irqOn, rested>>

PciError ==
    /\ irqOn
    /\ Restart
    /\ UNCHANGED <<timer, stat>>

(* interruptOccurred() with LinkChg: rtl812xCheckLinkStatus(), and IMR0 is   *)
(* written again at the end of the handler.                                  *)
LinkChange ==
    /\ Ready /\ irqOn /\ c.imr
    /\ \/ \E now \in {"ten", "fast"} :
            /\ link' = now
            /\ c' = [SetLinkUp(LinkOnPatch(c, Mcast, aspm, now = "ten"))
                       EXCEPT !.imr = TRUE]
            /\ timer' = TRUE
       \/ /\ link' = "down"
          /\ c' = SetLinkDown(LinkDownPatch(c))
          /\ timer' = FALSE
    /\ UNCHANGED <<fixed, pciOpen, stateFlags, irqOn, stat, rested>>

(* timerAction(): a tally dump and the thread call that reads it in 1 ms.    *)
TimerDown ==
    /\ timer /\ link = "down"
    /\ timer' = FALSE
    /\ UNCHANGED <<fixed, pciOpen, stateFlags, link, irqOn, stat, c, rested>>

TimerTick ==
    /\ timer /\ link # "down" /\ stat # "running"
    /\ stat' = "pending"
    /\ UNCHANGED <<fixed, pciOpen, stateFlags, link, irqOn, timer, c, rested>>

TimerHang ==
    /\ timer /\ link # "down" /\ stat # "running"
    /\ stat' = "pending"
    /\ timer' = FALSE
    /\ Restart

StatRun ==
    /\ stat = "pending"
    /\ stat' = "running"
    /\ UNCHANGED <<phase, res, attached, pciOpen, stateFlags, link, irqOn,
                   timer, powered, pme, c, aspm, vtd, rested, faults>>

StatEnd ==
    /\ stat = "running"
    /\ stat' = "idle"
    /\ faults' = faults
         \cup (IF attached THEN {} ELSE {<<"use", "netStats">>})
         \cup (IF res["statBufDesc"] = "held" THEN {}
               ELSE {<<"use", "statData">>})
    /\ UNCHANGED <<phase, res, attached, pciOpen, stateFlags, link, irqOn,
                   timer, powered, pme, c, aspm, vtd, rested>>

-----------------------------------------------------------------------------
(* Power management                                                          *)

GateFault ==
    IF res["commandGate"] = "held" THEN {} ELSE {<<"null", "commandGate">>}

PowerOff ==
    /\ phase = "up" /\ powered /\ ~Enabled
    /\ powered' = FALSE
    /\ pme' = (GateFault = {} /\ c.wol_enabled)
    /\ faults' = faults \cup GateFault
    /\ UNCHANGED <<phase, res, swVars, c, aspm, vtd, rested>>

PowerOn ==
    /\ phase = "up" /\ ~powered
    /\ powered' = TRUE
    /\ pme' = FALSE
    /\ faults' = faults \cup GateFault
    /\ UNCHANGED <<phase, res, swVars, c, aspm, vtd, rested>>

(* The platform may cut the power while the controller sleeps.               *)
PowerLoss ==
    /\ ~powered
    /\ c' = PowerLost(c)
    /\ rested' = FALSE
    /\ UNCHANGED <<fixed, pciOpen, stateFlags, link, irqOn, timer, stat>>

(* systemWillShutdown(): disable(), then the original MAC address.           *)
Shutdown ==
    /\ phase = "up" /\ powered
    /\ phase' = "shut"
    /\ faults' = faults \cup (IF res["baseMap"] = "held" THEN {}
                              ELSE {<<"null", "mmio">>})
    /\ \/ Enabled /\ Disabled
       \/ ~Enabled /\ UNCHANGED <<c, stateFlags, link, timer, irqOn, pciOpen>>
    /\ UNCHANGED <<res, attached, stat, powered, pme, aspm, vtd, rested>>

-----------------------------------------------------------------------------
(* stop() and free()                                                         *)

StopDetach ==
    /\ phase = "up" /\ ~Enabled
    /\ phase' = "stopping"
    /\ attached' = FALSE
    /\ UNCHANGED <<res, pciOpen, stateFlags, link, irqOn, timer, stat,
                   powered, pme, c, aspm, vtd, rested, faults>>

StatLeftPending == stat' = stat
(* thread_call_cancel() and IOSleep(2): the statistics call is gone.         *)
StatCancelled == stat # "running" /\ stat' = "idle"

ReleaseAll ==
    /\ StatCancelled
    /\ res' = Release(res, Freed(res))
    /\ faults' = faults \cup TwiceFreed(Freed(res))
    /\ UNCHANGED <<attached, pciOpen, stateFlags, link, irqOn, timer, powered,
                   pme, c, aspm, vtd, rested>>

StopFree ==
    /\ phase = "stopping"
    /\ phase' = "stopped"
    /\ ReleaseAll

Free ==
    /\ phase \in {"off", "stopped"}
    /\ phase' = "freed"
    /\ ReleaseAll

Next ==
    \/ Start
    \/ EnableInterface \/ DisableInterface \/ SelectMedium \/ SetMaxPacketSize
    \/ SetFilter \/ SetWakeOnMagicPacket
    \/ PciError \/ LinkChange \/ TimerDown \/ TimerTick \/ TimerHang
    \/ StatRun \/ StatEnd
    \/ PowerOff \/ PowerOn \/ PowerLoss \/ Shutdown
    \/ StopDetach \/ StopFree \/ Free

Spec == Init /\ [][Next]_vars

-----------------------------------------------------------------------------
(* Every variable has its type, and wake on LAN is on only where the chip    *)
(* supports it.                                                              *)
TypeOK ==
    /\ phase \in {"new", "off", "up", "stopping", "stopped", "freed", "shut"}
    /\ res \in [Resources -> {"null", "held", "dangling"}]
    /\ <<attached, pciOpen, irqOn, timer, powered, pme, aspm, vtd, rested>>
         \in BOOLEAN \X BOOLEAN \X BOOLEAN \X BOOLEAN \X BOOLEAN \X BOOLEAN
               \X BOOLEAN \X BOOLEAN \X BOOLEAN
    /\ stateFlags \subseteq {"__ENABLED", "__M_CAST"}
    /\ link \in {"down", "ten", "fast"}
    /\ stat \in {"idle", "pending", "running"}
    /\ c \in Chips
    /\ c.wol_enabled => c.wol_opts # {}

(* The bad accesses the code makes are these: all follow a failure in        *)
(* start() that was reported as success, but for the statistics thread that  *)
(* is overtaken by the detaching of its interface in stop(). In particular   *)
(* the thread never reads freed memory, and nothing else is freed twice.     *)
KnownFaults ==
    faults \subseteq {<<"read", "rtlChipInfos">>,
                      <<"null", "mediumDict">>, <<"free", "mediumDict">>,
                      <<"free", "statCall">>, <<"null", "commandGate">>,
                      <<"null", "mmio">>, <<"use", "netStats">>}

(* Whatever failed in start() and whatever was called later, free() leaves   *)
(* nothing behind but the mapper, which start() takes and nobody releases:   *)
(* no label of a setup function lets go of an owner before what it owns.     *)
NothingLeaked ==
    phase = "freed" => {x \in Resources : res[x] = "held"} \subseteq {"mapper"}

(* The Cfg9346 lock is closed again after every call, however the procedures *)
(* that open it are nested, Config registers were only written while it was  *)
(* open, and the mutex of the management firmware is given back.             *)
HandshakesClosed == ~c.unlocked /\ ~c.badWrite /\ ~c.mutex

(* While the transmitter and the receiver run, every ring, buffer and map    *)
(* they read and write through is there.                                     *)
DmaIntoHeldMemory ==
    c.running =>
        \A x \in TxRes \cup StatRes \cup RxRes :
            res[x] = "held" \/ (x = "rxMap" /\ ~vtd)

(* The parts of ConfiguredWhenEnabled.                                       *)
ChipConfigured ==
    /\ pciOpen /\ irqOn
    /\ c.imr /\ ~c.oob /\ c.phyOn /\ c.pll /\ c.ephy
    /\ c.phyTable # "none"
    /\ c.known => /\ c.ramCode /\ c.phyTable = "full"
                  /\ c.bps <=> c.mcfg \in MacMcuMethods
    /\ c.aldps <=> aspm /\ c.hasRamCode
    /\ c.managed => c.driverHere

ReadyForFrames ==
    /\ c.running /\ c.rings /\ ~c.rxdvGate
    /\ {"bcast", "phys"} \subseteq c.accept
    /\ Mcast => "mcast" \in c.accept /\ c.mar # "none"
    /\ c.eeePlus <=> link = "ten" /\ c.mcfg \notin NoEeePlus
    /\ c.pfm <=> link = "ten" /\ c.mcfg \in PfmMethods

(* An enabled interface has a chip that was brought up completely: also when *)
(* the PHY was left alone on the way (resume_keep), because it was kept      *)
(* alive for wake on LAN, it has its tables and its code, even after the     *)
(* platform took the power away. With a link it runs with its rings set up,  *)
(* its receive gate open, frames for this host accepted and those of its     *)
(* multicast groups if the stack asked for them, and has the EEE+ and buffer *)
(* settings of the speed, in whichever order links and calls came.           *)
ConfiguredWhenEnabled ==
    /\ Enabled => ChipConfigured
    /\ link # "down" => Enabled /\ ReadyForFrames

(* The parts of QuietWhenDisabled.                                           *)
Quiet ==
    /\ ~c.imr /\ ~c.running /\ ~irqOn /\ ~timer /\ ~pciOpen
    /\ ~c.driverHere /\ ~c.aspm /\ ~c.l1Mask /\ ~c.oobsSel

Wakeable ==
    /\ c.phyOn /\ ~c.rxdvGate
    /\ {"bcast", "mcast", "phys"} \subseteq c.accept
    /\ c.magic <=> "magic" \in c.wol_opts /\ c.mcfg \in MagicPktV3
    /\ c.linkWake <=> "phy" \in c.wol_opts

(* A disabled interface that nothing was called on since is quiet: no        *)
(* interrupt, DMA or timer, the provider closed, and the PCI Express link    *)
(* states that the D3 state does not bear turned off. If it then goes to     *)
(* sleep with PME# enabled, it can be woken by what the chip was found to    *)
(* support: its PHY has power, its gate and its filter let the frames in,    *)
(* and the events are armed.                                                 *)
QuietWhenDisabled == rested => Quiet /\ (pme => Wakeable)
=============================================================================
