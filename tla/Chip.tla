-------------------------------- MODULE Chip --------------------------------
(* The RTL8125/8126 as the driver's bring-up and power-down procedures see   *)
(* it: a record c of the register state those procedures set up and of the   *)
(* fields of srtk5_private that they decide by. Every procedure of           *)
(* rtl812x.c and SimpleRTK5Hardware.cpp is an operator from the record       *)
(* before to the record after, made of the procedures it calls in their      *)
(* order. Register numbers, delays and the tables of PHY and MCU code are    *)
(* left out; the PHY disable mode (a GPIO strap) is taken to be off.         *)
EXTENDS Integers, FiniteSets

-----------------------------------------------------------------------------
(* What srtk5_init_software_variable() derives from the chip's method.       *)

(* The pairs <<mcfg, revision known>> that rtl812xIdentifyChip() finds.      *)
Identified ==
    ({2, 3, 4, 5, 6, 7, 8, 9, 10, 11, 12, 13, 31, 32, 33} \X {TRUE})
      \cup ({3, 5, 6, 7, 9, 11, 12, 13, 31} \X {FALSE})

ManagedMethods == {2, 3, 8, 9}              \* HwSuppDashVer > 0
DashMethods    == {8, 9}                    \* DASH answers over IPC2 only
MagicPktV3     == {2, 3, 4, 5, 6, 7, 10, 11, 13, 31, 32, 33}
D0SpeedUp      == (3..13) \cup {31, 32, 33} \* HwSuppD0SpeedUpVer
PfmMethods     == {10, 11, 13}              \* RequiredPfmPatch
NoEeePlus      == {10, 11, 13}
OobsSelMethods == {10, 11, 12, 13}
MacMcuMethods  == {3, 5, 6, 7, 8, 9, 10, 11, 12, 13}
MutexMethods   == {2, 3, 6, 8, 9, 12}
GuardedTables  == {4, 10}

Frames    == {"bcast", "mcast", "phys", "all"}
WakeKinds == {"phy", "magic"}

(* mar: what the two multicast hash registers hold: nothing, ones, the hash  *)
(* multicastFilter, or its first word twice.                                 *)
Chips ==
    [mcfg : {id[1] : id \in Identified}, known : BOOLEAN, managed : BOOLEAN,
     DASH : BOOLEAN, wol_opts : SUBSET WakeKinds, wol_enabled : BOOLEAN,
     hasRamCode : BOOLEAN, check_keep : BOOLEAN, resume_keep : BOOLEAN,
     imr : BOOLEAN, running : BOOLEAN, rxdvGate : BOOLEAN,
     accept : SUBSET Frames, mar : {"none", "ones", "filter", "halves"},
     rings : BOOLEAN, unlocked : BOOLEAN, badWrite : BOOLEAN,
     mutex : BOOLEAN, oob : BOOLEAN, driverHere : BOOLEAN, pll : BOOLEAN,
     phyOn : BOOLEAN, ramCode : BOOLEAN, phyTable : {"none", "partly", "full"},
     aldps : BOOLEAN, ephy : BOOLEAN, bps : BOOLEAN,
     magic : BOOLEAN, linkWake : BOOLEAN, oobsSel : BOOLEAN,
     l1Mask : BOOLEAN, eeePlus : BOOLEAN, pfm : BOOLEAN, aspm : BOOLEAN]

(* A chip as the driver finds it: out of band, perhaps with the PHY code     *)
(* that the firmware or another driver has loaded.                           *)
Found(model, ram) ==
    [mcfg |-> model.mcfg, known |-> model.known, managed |-> model.managed,
     DASH |-> model.DASH, wol_opts |-> model.wol_opts, wol_enabled |-> FALSE,
     hasRamCode |-> FALSE, check_keep |-> FALSE, resume_keep |-> FALSE,
     imr |-> FALSE, running |-> FALSE, rxdvGate |-> FALSE, accept |-> {},
     mar |-> "none", rings |-> FALSE, unlocked |-> FALSE, badWrite |-> FALSE,
     mutex |-> FALSE, oob |-> TRUE, driverHere |-> FALSE, pll |-> TRUE,
     phyOn |-> TRUE, ramCode |-> ram, phyTable |-> "none", aldps |-> FALSE,
     ephy |-> FALSE, bps |-> FALSE,
     magic |-> FALSE, linkWake |-> FALSE, oobsSel |-> FALSE, l1Mask |-> FALSE,
     eeePlus |-> FALSE, pfm |-> FALSE, aspm |-> FALSE]

(* What no register survives: the chip without power. The fields of          *)
(* srtk5_private stay.                                                       *)
PowerLost(c) ==
    [Found(c, FALSE) EXCEPT
        !.wol_enabled = c.wol_enabled, !.hasRamCode = c.hasRamCode,
        !.check_keep = c.check_keep, !.resume_keep = c.resume_keep,
        !.badWrite = c.badWrite]

-----------------------------------------------------------------------------
(* Config1 to Config5 may only be written while Cfg9346 is unlocked.         *)

Unlock(c)      == [c EXCEPT !.unlocked = TRUE]
Lock(c)        == [c EXCEPT !.unlocked = FALSE]
WriteConfig(c) == [c EXCEPT !.badWrite = @ \/ ~c.unlocked]

EnableAspmClkreqAndLock(c, on) ==
    Lock(WriteConfig(Unlock([c EXCEPT !.aspm = on])))

EnableAspmClkreqLock(c, on) ==
    LET written == WriteConfig(Unlock([c EXCEPT !.aspm = on]))
    IN  IF c.unlocked THEN written ELSE Lock(written)

RarSet(c) == Lock(Unlock(c))

DisableLinkchgWakeup(c) == [WriteConfig(c) EXCEPT !.linkWake = FALSE]
EnableLinkchgWakeup(c)  == [WriteConfig(c) EXCEPT !.linkWake = TRUE]

SetMagicPacket(c, on) ==
    IF c.mcfg \in MagicPktV3 THEN [c EXCEPT !.magic = on] ELSE c

SetRegOobsEnSel(c, on) ==
    IF c.mcfg \in OobsSelMethods THEN [c EXCEPT !.oobsSel = on] ELSE c

SetPfmPatch(c, on) ==
    IF c.mcfg \in PfmMethods THEN [c EXCEPT !.pfm = on] ELSE c

SetEeePlus(c, on) ==
    IF c.mcfg \in NoEeePlus THEN c ELSE [c EXCEPT !.eeePlus = on]

(* The mutex with the management firmware; a lock that times out goes on as  *)
(* if it had been granted.                                                   *)
OobMutexLock(c)   == IF c.DASH THEN [c EXCEPT !.mutex = TRUE] ELSE c
OobMutexUnlock(c) == IF c.DASH THEN [c EXCEPT !.mutex = FALSE] ELSE c

-----------------------------------------------------------------------------
(* Resets                                                                    *)

IrqMaskAndAck(c) == [c EXCEPT !.imr = FALSE]

DisableRxPacketFilter(c) == [c EXCEPT !.accept = {}]

(* After the soft reset nothing is relied on that the driver programs.       *)
NicReset(c) ==
    [DisableRxPacketFilter(c) EXCEPT !.rxdvGate = TRUE, !.running = FALSE,
                                     !.rings = FALSE]

HwReset(c) == NicReset(IrqMaskAndAck(c))

DriverStart(c) == IF c.managed THEN [c EXCEPT !.driverHere = TRUE] ELSE c
DriverStop(c)  == IF c.managed THEN [c EXCEPT !.driverHere = FALSE] ELSE c

ExitOob(c) ==
    [NicReset(DriverStart(DisableRxPacketFilter(c))) EXCEPT !.oob = FALSE]

(* An unknown revision gets no MCU code; the break points are set anew.      *)
HwMacMcuConfig(c) ==
    IF ~c.known THEN c
    ELSE [EnableAspmClkreqLock(c, FALSE)
            EXCEPT !.bps = c.mcfg \in MacMcuMethods]

HwInit(c) ==
    LET quiet   == SetRegOobsEnSel(EnableAspmClkreqLock(c, FALSE), TRUE)
        mcu     == HwMacMcuConfig(quiet)
        noWake  == Lock(DisableLinkchgWakeup(Unlock(mcu)))
    IN  SetMagicPacket(SetMagicPacket(noWake, FALSE), TRUE)

-----------------------------------------------------------------------------
(* The PHY                                                                   *)

PhyPowerUp(c)   == [c EXCEPT !.phyOn = TRUE]
PhyPowerDown(c) == [c EXCEPT !.phyOn = FALSE]

(* Restarting the negotiation writes BMCR without BMCR_PDOWN.                *)
PhyRestartNway(c) == PhyPowerUp(c)

CheckHwPhyMcuCodeVer(c) == [c EXCEPT !.hasRamCode = c.ramCode]

PhyResetEnable(c) ==
    [c EXCEPT !.phyTable = "none", !.aldps = FALSE, !.phyOn = TRUE]

InitHwPhyMcu(c) ==
    IF c.known /\ ~c.hasRamCode
    THEN [c EXCEPT !.ramCode = TRUE, !.hasRamCode = TRUE]
    ELSE c

(* srtk5_enable_eee() and srtk5_disable_eee() differ in what Medium models;  *)
(* both end with srtk5_disable_adv_eee().                                    *)
SetEee(c) == OobMutexUnlock(OobMutexLock(c))

(* The tables of PHY parameters: of some of them the driver writes a part    *)
(* only to a PHY that has its code; all turn the PHY's own power saving on   *)
(* under that condition.                                                     *)
GuardedPhyTable(c) ==
    [c EXCEPT !.phyTable = IF c.hasRamCode THEN "full" ELSE "partly"]
PlainPhyTable(c) == [c EXCEPT !.phyTable = "full"]

EnablePhyAldps(c, aspm) == [c EXCEPT !.aldps = @ \/ (aspm /\ c.hasRamCode)]

PhyTable(c, aspm) ==
    EnablePhyAldps(IF c.mcfg \in GuardedTables THEN GuardedPhyTable(c)
                   ELSE PlainPhyTable(c), aspm)

HwPhyConfig(c, aspm) ==
    IF c.resume_keep THEN c
    ELSE LET table == PhyTable(InitHwPhyMcu(PhyResetEnable(c)), aspm)
         IN  IF table.hasRamCode THEN SetEee(table) ELSE table

(* The tables of the PCI Express PHY are written at every enabling.          *)
HwEphyConfig(c) == [c EXCEPT !.ephy = TRUE]

SetPhyMedium(c) == PhyRestartNway(SetEee(c))

PowerupPll(c) ==
    LET up == [c EXCEPT !.pll = TRUE]
    IN  IF c.resume_keep THEN up ELSE PhyPowerUp(up)

SetHwWol(c) ==
    LET packet == SetMagicPacket(c, "magic" \in c.wol_opts)
        phy    == IF "phy" \in c.wol_opts
                  THEN EnableLinkchgWakeup(Unlock(packet))
                  ELSE DisableLinkchgWakeup(Unlock(packet))
    IN  Lock(phy)

KeepWolLinkSpeed(c, linkOk) ==
    \/ c.wol_enabled /\ linkOk /\ "phy" \in c.wol_opts
    \/ ~c.wol_enabled /\ c.resume_keep

(* d0: the last speed was one that the D0 speed-up is made for. wol: what    *)
(* srtk5_set_wol_link_speed() settled on: no mode, one of 10 MBit, another.  *)
SetWolLinkSpeed(c, wol) ==
    SetPfmPatch(IF wol = "none" THEN c ELSE PhyRestartNway(c), wol = "ten")

PowerdownPll(c, linkOk, d0, wol) ==
    LET keep    == KeepWolLinkSpeed(c, linkOk)
        speedUp == d0 /\ c.mcfg \in D0SpeedUp
        pm      == Lock(WriteConfig(Unlock(SetHwWol(c))))
    IN  IF c.wol_enabled \/ c.DASH
        THEN [(IF keep THEN pm ELSE SetWolLinkSpeed(pm, wol))
                EXCEPT !.check_keep = keep \/ speedUp,
                       !.accept = @ \cup {"bcast", "mcast", "phys"}]
        ELSE [PhyPowerDown(c) EXCEPT !.check_keep = FALSE,
                                     !.pll = c.pll /\ ~c.known]

HwD3ParaKeepAspm(c) ==
    SetRegOobsEnSel([c EXCEPT !.l1Mask = FALSE, !.rxdvGate = FALSE], FALSE)

HwD3Para(c) ==
    LET quiet == EnableAspmClkreqLock(c, FALSE)
    IN  SetRegOobsEnSel([quiet EXCEPT !.l1Mask = FALSE, !.rxdvGate = FALSE],
                        FALSE)

-----------------------------------------------------------------------------
(* Receive filter                                                            *)

SetPromiscuousMode(c, active) ==
    [c EXCEPT !.accept = {"bcast", "mcast", "phys"}
                           \cup (IF active THEN {"all"} ELSE {}),
              !.mar = IF active THEN "ones" ELSE "filter"]

SetMulticastMode(c, active) ==
    [c EXCEPT !.accept = {"bcast", "phys"}
                           \cup (IF active THEN {"mcast"} ELSE {}),
              !.mar = IF active THEN "filter" ELSE "none"]

(* Both registers are written from the first word of multicastFilter.        *)
SetMulticastList(c) == [c EXCEPT !.mar = "halves"]

-----------------------------------------------------------------------------
(* Bringing the chip up and down                                             *)

HwConfig(c, mcast, aspm) ==
    LET open  == EnableAspmClkreqLock(Unlock(HwReset(DisableRxPacketFilter(c))),
                                      FALSE)
        rings == WriteConfig([open EXCEPT !.rings = TRUE])
        oob   == IF c.mcfg \in MutexMethods
                 THEN OobMutexUnlock(OobMutexLock(rings)) ELSE rings
        flags == SetPfmPatch(SetEeePlus([oob EXCEPT !.l1Mask = TRUE], FALSE),
                             FALSE)
        gate  == [flags EXCEPT !.rxdvGate = FALSE]
    IN  Lock(EnableAspmClkreqLock(SetMulticastMode(gate, mcast), aspm))

Up(c, mcast, aspm) ==
    HwConfig(HwPhyConfig(HwEphyConfig(PowerupPll(HwReset(HwInit(c)))), aspm),
             mcast, aspm)

ResumeUnchecked(c, nway) == [c EXCEPT !.resume_keep = c.check_keep /\ nway]

(* nway: the negotiation completes within srtk5_wait_phy_nway_complete_sleep *)
ResumeKeep(c, nway) ==
    [c EXCEPT !.resume_keep = c.check_keep /\ c.hasRamCode /\ nway]

Enable(c, nway, mcast, aspm) ==
    LET woken == ResumeKeep(CheckHwPhyMcuCodeVer(RarSet(c)), nway)
    IN  [SetPhyMedium(Up(ExitOob(woken), mcast, aspm)) EXCEPT !.imr = TRUE]

DownMasked(c) == IrqMaskAndAck(c)

Down(c) == HwReset(IrqMaskAndAck(c))

Disable(c, linkOk, d0, wol) ==
    DriverStop(PowerdownPll(HwD3Para(Down(c)), linkOk, d0, wol))

LinkOnPatch(c, mcast, aspm, ten) ==
    LET config == HwConfig(c, mcast, aspm)
    IN  SetPfmPatch(IF ten THEN SetEeePlus(config, TRUE) ELSE config, ten)

LinkDownPatch(c) == HwReset(SetPfmPatch(SetEeePlus(c, FALSE), TRUE))

SetLinkUp(c)   == [c EXCEPT !.running = TRUE]
SetLinkDown(c) == SetPhyMedium([LinkDownPatch(c) EXCEPT !.imr = TRUE])

(* rtl812xInit(): DASH and the wake events are read from the chip.           *)
InitChip(c) ==
    LET found == [CheckHwPhyMcuCodeVer(c)
                    EXCEPT !.wol_enabled = c.wol_opts # {}]
    IN  RarSet(HwReset(HwInit(PowerupPll(ExitOob(found)))))
=============================================================================
