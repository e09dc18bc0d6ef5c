-------------------------- MODULE Lifecycle_proofs --------------------------
(***************************************************************************)
(* The life of the driver for every chip, with AppleVTD and without it:    *)
(* its locks are closed, it is configured while the interface is enabled   *)
(* and quiet while it is not, it runs only with its memory there, and      *)
(* free() leaves nothing behind, whatever failed and whatever was called.  *)
(*                                                                         *)
(* First what every procedure of the chip does, as the fields it writes    *)
(* and what holds after it; then CoreInv, the inductive invariant of the   *)
(* chip and the interface; then ResInv, that of the resources, which       *)
(* rests on it.                                                            *)
(***************************************************************************)
EXTENDS Lifecycle, TLAPS

-----------------------------------------------------------------------------
(* Procedures of the chip and what they write.                             *)

Fields ==
  {"mcfg", "known", "managed", "DASH", "wol_opts", "wol_enabled", "hasRamCode",
   "check_keep", "resume_keep", "imr", "running", "rxdvGate", "accept", "mar",
   "rings", "unlocked", "badWrite", "mutex", "oob", "driverHere", "pll", "phyOn",
   "ramCode", "phyTable", "aldps", "ephy", "bps", "magic", "linkWake", "oobsSel",
   "l1Mask", "eeePlus", "pfm", "aspm"}

IsChip(a) == a = [f \in Fields |-> a[f]]

(* What only some chips have is off on the others.                         *)
Consistent(a) ==
  /\ a.driverHere => a.managed
  /\ a.oobsSel => a.mcfg \in OobsSelMethods
  /\ a.magic => a.mcfg \in MagicPktV3
  /\ a.eeePlus => a.mcfg \notin NoEeePlus
  /\ a.pfm => a.mcfg \in PfmMethods

(* b is a but for fields of F.                                             *)
Writes(a, b, F) ==
  /\ IsChip(a) => IsChip(b) /\ \A f \in Fields \ F : b[f] = a[f]
  /\ IsChip(a) /\ Consistent(a) => Consistent(b)

(* The Cfg9346 lock, and what a write of a Config register does without    *)
(* it.                                                                     *)
LEMMA Locking ==
  ASSUME NEW a, IsChip(a)
  PROVE  /\ Writes(a, Unlock(a), {"unlocked"}) /\ Unlock(a).unlocked
         /\ Writes(a, Lock(a), {"unlocked"}) /\ ~Lock(a).unlocked
         /\ Writes(a, WriteConfig(a), {"badWrite"})
         /\ WriteConfig(a).badWrite <=> a.badWrite \/ ~a.unlocked
<1>1. Writes(a, Unlock(a), {"unlocked"}) /\ Unlock(a).unlocked
  BY DEF Writes, IsChip, Consistent, Fields, Unlock
<1>2. Writes(a, Lock(a), {"unlocked"}) /\ ~Lock(a).unlocked
  BY DEF Writes, IsChip, Consistent, Fields, Lock
<1>3. /\ Writes(a, WriteConfig(a), {"badWrite"})
      /\ WriteConfig(a).badWrite <=> a.badWrite \/ ~a.unlocked
  BY DEF Writes, IsChip, Consistent, Fields, WriteConfig
<1> QED BY <1>1, <1>2, <1>3

(* EnableAspmClkreqLock() leaves the lock as it was.                       *)
LEMMA AspmLock ==
  ASSUME NEW a, IsChip(a), NEW on
  PROVE  LET b == EnableAspmClkreqLock(a, on)
         IN  /\ Writes(a, b, {"aspm", "unlocked", "badWrite"})
             /\ b.aspm = on
             /\ b.unlocked <=> a.unlocked
             /\ b.badWrite <=> a.badWrite
<1> DEFINE d == [a EXCEPT !.aspm = on]
           e == Unlock(d)
           w == WriteConfig(e)
<1>1. IsChip(d) /\ Writes(a, d, {"aspm"}) /\ d.aspm = on
  BY DEF Writes, IsChip, Consistent, Fields
<1> HIDE DEF d
<1>2. IsChip(e) /\ Writes(d, e, {"unlocked"}) /\ e.unlocked
  BY <1>1, Locking DEF Writes
<1> HIDE DEF e
<1>3. IsChip(w) /\ Writes(e, w, {"badWrite"}) /\ (w.badWrite <=> e.badWrite)
  BY <1>2, Locking DEF Writes
<1> HIDE DEF w
<1>4. IsChip(Lock(w)) /\ Writes(w, Lock(w), {"unlocked"}) /\ ~Lock(w).unlocked
  BY <1>3, Locking DEF Writes
<1>5. EnableAspmClkreqLock(a, on) = IF a.unlocked THEN w ELSE Lock(w)
  BY DEF EnableAspmClkreqLock, d, e, w
<1>6. Writes(a, w, {"aspm", "unlocked", "badWrite"})
  BY <1>1, <1>2, <1>3 DEF Writes
<1>7. Writes(a, Lock(w), {"aspm", "unlocked", "badWrite"})
  BY <1>4, <1>6 DEF Writes
<1>8. /\ w.aspm = on /\ w.unlocked /\ (w.badWrite <=> a.badWrite)
      /\ Lock(w).aspm = on /\ (Lock(w).badWrite <=> a.badWrite)
  BY <1>1, <1>2, <1>3, <1>4 DEF Writes, Fields
<1> QED BY <1>4, <1>5, <1>6, <1>7, <1>8

(* Turning ASPM and CLKREQ off, in whichever state the lock is found.      *)
LEMMA AspmOff ==
  ASSUME NEW a, IsChip(a)
  PROVE  LET b == EnableAspmClkreqLock(a, FALSE)
         IN  /\ Writes(a, b, {"aspm", "unlocked", "badWrite"})
             /\ ~b.aspm
             /\ b.unlocked <=> a.unlocked
             /\ b.badWrite <=> a.badWrite
BY AspmLock

(* Procedures of one step, and what they leave.                            *)
LEMMA RarSetDoes ==
  ASSUME NEW a, IsChip(a)
  PROVE  Writes(a, RarSet(a), {"unlocked"}) /\ ~RarSet(a).unlocked
<1>1. IsChip(Unlock(a)) /\ Writes(a, Unlock(a), {"unlocked"})
  BY Locking DEF Writes
<1>2. Writes(Unlock(a), RarSet(a), {"unlocked"}) /\ ~RarSet(a).unlocked
  BY <1>1, Locking DEF RarSet
<1> QED BY <1>1, <1>2 DEF Writes

(* Arming the wake-up on link changes writes Config registers: the lock    *)
(* must be open.                                                           *)
LEMMA LinkchgWakeup ==
  ASSUME NEW a, IsChip(a), a.unlocked
  PROVE  /\ Writes(a, EnableLinkchgWakeup(a), {"badWrite", "linkWake"})
         /\ EnableLinkchgWakeup(a).linkWake
         /\ EnableLinkchgWakeup(a).badWrite <=> a.badWrite
         /\ Writes(a, DisableLinkchgWakeup(a), {"badWrite", "linkWake"})
         /\ ~DisableLinkchgWakeup(a).linkWake
         /\ DisableLinkchgWakeup(a).badWrite <=> a.badWrite
<1> DEFINE w == WriteConfig(a)
<1>1. IsChip(w) /\ Writes(a, w, {"badWrite"}) /\ (w.badWrite <=> a.badWrite)
  BY Locking DEF Writes
<1>2. /\ EnableLinkchgWakeup(a) = [w EXCEPT !.linkWake = TRUE]
      /\ DisableLinkchgWakeup(a) = [w EXCEPT !.linkWake = FALSE]
  BY DEF EnableLinkchgWakeup, DisableLinkchgWakeup
<1> HIDE DEF w
<1>3. /\ Writes(w, EnableLinkchgWakeup(a), {"linkWake"})
      /\ EnableLinkchgWakeup(a).linkWake
  BY <1>1, <1>2 DEF Writes, IsChip, Consistent, Fields
<1>4. /\ Writes(w, DisableLinkchgWakeup(a), {"linkWake"})
      /\ ~DisableLinkchgWakeup(a).linkWake
  BY <1>1, <1>2 DEF Writes, IsChip, Consistent, Fields
<1> QED BY <1>1, <1>3, <1>4 DEF Writes, Fields

(* What only some chips have: on these the bit becomes what it is set to,  *)
(* on the others nothing changes.                                          *)
LEMMA Guarded ==
  ASSUME NEW a, IsChip(a), NEW on
  PROVE  /\ Writes(a, SetMagicPacket(a, on), {"magic"})
         /\ a.mcfg \in MagicPktV3 => SetMagicPacket(a, on).magic = on
         /\ Writes(a, SetRegOobsEnSel(a, on), {"oobsSel"})
         /\ a.mcfg \in OobsSelMethods => SetRegOobsEnSel(a, on).oobsSel = on
         /\ Writes(a, SetPfmPatch(a, on), {"pfm"})
         /\ a.mcfg \in PfmMethods => SetPfmPatch(a, on).pfm = on
         /\ Writes(a, SetEeePlus(a, on), {"eeePlus"})
         /\ a.mcfg \notin NoEeePlus => SetEeePlus(a, on).eeePlus = on
<1>1. /\ Writes(a, SetMagicPacket(a, on), {"magic"})
      /\ a.mcfg \in MagicPktV3 => SetMagicPacket(a, on).magic = on
  BY DEF Writes, IsChip, Consistent, Fields, SetMagicPacket
<1>2. /\ Writes(a, SetRegOobsEnSel(a, on), {"oobsSel"})
      /\ a.mcfg \in OobsSelMethods => SetRegOobsEnSel(a, on).oobsSel = on
  BY DEF Writes, IsChip, Consistent, Fields, SetRegOobsEnSel
<1>3. /\ Writes(a, SetPfmPatch(a, on), {"pfm"})
      /\ a.mcfg \in PfmMethods => SetPfmPatch(a, on).pfm = on
  BY DEF Writes, IsChip, Consistent, Fields, SetPfmPatch
<1>4. /\ Writes(a, SetEeePlus(a, on), {"eeePlus"})
      /\ a.mcfg \notin NoEeePlus => SetEeePlus(a, on).eeePlus = on
  BY DEF Writes, IsChip, Consistent, Fields, SetEeePlus
<1> QED BY <1>1, <1>2, <1>3, <1>4

(* The mutex is given back to the firmware.                                *)
LEMMA MutexPair ==
  ASSUME NEW a, IsChip(a)
  PROVE  LET b == OobMutexUnlock(OobMutexLock(a))
         IN  Writes(a, b, {"mutex"}) /\ (~a.mutex => ~b.mutex)
BY DEF Writes, IsChip, Consistent, Fields, OobMutexLock, OobMutexUnlock

(* A reset stops both engines.                                             *)
LEMMA ResetDoes ==
  ASSUME NEW a, IsChip(a)
  PROVE  /\ Writes(a, NicReset(a), {"accept", "rxdvGate", "running", "rings"})
         /\ ~NicReset(a).running
         /\ Writes(a, HwReset(a), {"imr", "accept", "rxdvGate", "running", "rings"})
         /\ ~HwReset(a).running /\ ~HwReset(a).imr
<1>1. ASSUME NEW e, IsChip(e)
      PROVE  /\ Writes(e, NicReset(e), {"accept", "rxdvGate", "running", "rings"})
             /\ ~NicReset(e).running
  BY <1>1 DEF Writes, IsChip, Consistent, Fields, NicReset, DisableRxPacketFilter
<1>2. Writes(a, IrqMaskAndAck(a), {"imr"}) /\ ~IrqMaskAndAck(a).imr
  BY DEF Writes, IsChip, Consistent, Fields, IrqMaskAndAck
<1> DEFINE e == IrqMaskAndAck(a)
<1> HIDE DEF e
<1>3. /\ Writes(e, NicReset(e), {"accept", "rxdvGate", "running", "rings"})
      /\ ~NicReset(e).running /\ HwReset(a) = NicReset(e)
  BY <1>1, <1>2 DEF e, HwReset, Writes
<1>4. /\ Writes(a, HwReset(a), {"imr", "accept", "rxdvGate", "running", "rings"})
      /\ ~HwReset(a).running /\ ~HwReset(a).imr
  BY <1>2, <1>3 DEF e, Writes, Fields
<1> QED BY <1>1, <1>4

(* The management firmware is told that the driver comes and goes, where   *)
(* there is one.                                                           *)
LEMMA DriverNotices ==
  ASSUME NEW a, IsChip(a)
  PROVE  /\ Writes(a, DriverStart(a), {"driverHere"})
         /\ DriverStart(a).managed => DriverStart(a).driverHere
         /\ Writes(a, DriverStop(a), {"driverHere"})
         /\ Consistent(a) => ~DriverStop(a).driverHere
<1>1. /\ Writes(a, DriverStart(a), {"driverHere"})
      /\ DriverStart(a).managed => DriverStart(a).driverHere
  BY DEF Writes, IsChip, Consistent, Fields, DriverStart
<1>2. /\ Writes(a, DriverStop(a), {"driverHere"})
      /\ Consistent(a) => ~DriverStop(a).driverHere
  BY DEF Writes, IsChip, Consistent, Fields, DriverStop
<1> QED BY <1>1, <1>2

(* The chip is taken over from the management firmware.                    *)
LEMMA ExitOobDoes ==
  ASSUME NEW a, IsChip(a)
  PROVE  LET b == ExitOob(a)
         IN  /\ Writes(a, b, {"accept", "rxdvGate", "running", "rings",
                              "driverHere", "oob"})
             /\ ~b.oob /\ (b.managed => b.driverHere) /\ ~b.running
<1> DEFINE d == DisableRxPacketFilter(a)
           e == DriverStart(d)
           g == NicReset(e)
<1>1. Writes(a, d, {"accept"}) /\ IsChip(d)
  BY DEF Writes, IsChip, Consistent, Fields, DisableRxPacketFilter
<1> HIDE DEF d
<1>2. Writes(d, e, {"driverHere"}) /\ IsChip(e) /\ (e.managed => e.driverHere)
  BY <1>1, DriverNotices DEF Writes
<1> HIDE DEF e
<1>3. Writes(e, g, {"accept", "rxdvGate", "running", "rings"}) /\ IsChip(g) /\ ~g.running
  BY <1>2, ResetDoes DEF Writes
<1> HIDE DEF g
<1>4. Writes(g, ExitOob(a), {"oob"}) /\ ~ExitOob(a).oob
  BY <1>3 DEF Writes, IsChip, Consistent, Fields, ExitOob, d, e, g
<1>5. g.managed => g.driverHere
  BY <1>2, <1>3 DEF Writes, Fields
<1> QED BY <1>1, <1>2, <1>3, <1>4, <1>5 DEF Writes, Fields

(* The MAC MCU has its break points afterwards, if its code is known.      *)
LEMMA MacMcuDoes ==
  ASSUME NEW a, IsChip(a)
  PROVE  LET b == HwMacMcuConfig(a)
         IN  /\ Writes(a, b, {"aspm", "unlocked", "badWrite", "bps"})
             /\ (b.unlocked <=> a.unlocked) /\ (b.badWrite <=> a.badWrite)
             /\ b.known => (b.bps <=> b.mcfg \in MacMcuMethods)
<1> DEFINE d == EnableAspmClkreqLock(a, FALSE)
<1>1. /\ Writes(a, d, {"aspm", "unlocked", "badWrite"}) /\ IsChip(d)
      /\ (d.unlocked <=> a.unlocked) /\ (d.badWrite <=> a.badWrite)
  BY AspmOff DEF Writes
<1>2. HwMacMcuConfig(a) = IF ~a.known THEN a
                          ELSE [d EXCEPT !.bps = a.mcfg \in MacMcuMethods]
  BY DEF HwMacMcuConfig
<1> HIDE DEF d
<1>3. /\ Writes(d, [d EXCEPT !.bps = a.mcfg \in MacMcuMethods], {"bps"})
      /\ [d EXCEPT !.bps = a.mcfg \in MacMcuMethods].bps <=> a.mcfg \in MacMcuMethods
  BY <1>1 DEF Writes, IsChip, Consistent, Fields
<1> QED BY <1>1, <1>2, <1>3 DEF Writes, Fields

(* rtl812xHwInit() leaves the lock closed and a known MAC MCU with its     *)
(* code.                                                                   *)
LEMMA HwInitDoes ==
  ASSUME NEW a, IsChip(a)
  PROVE  LET b == HwInit(a)
         IN  /\ Writes(a, b, {"aspm", "unlocked", "badWrite", "oobsSel", "bps",
                              "linkWake", "magic"})
             /\ ~b.unlocked /\ (b.badWrite <=> a.badWrite)
             /\ b.known => (b.bps <=> b.mcfg \in MacMcuMethods)
<1> DEFINE d == EnableAspmClkreqLock(a, FALSE)
           e == SetRegOobsEnSel(d, TRUE)
           g == HwMacMcuConfig(e)
           h == Unlock(g)
           j == DisableLinkchgWakeup(h)
           k == Lock(j)
           l == SetMagicPacket(k, FALSE)
           m == SetMagicPacket(l, TRUE)
<1>1. /\ Writes(a, d, {"aspm", "unlocked", "badWrite"}) /\ IsChip(d)
      /\ d.badWrite <=> a.badWrite
  BY AspmOff DEF Writes
<1> HIDE DEF d
<1>2. Writes(d, e, {"oobsSel"}) /\ IsChip(e)
  BY <1>1, Guarded DEF Writes
<1> HIDE DEF e
<1>3. /\ Writes(e, g, {"aspm", "unlocked", "badWrite", "bps"}) /\ IsChip(g)
      /\ (g.badWrite <=> e.badWrite) /\ (g.known => (g.bps <=> g.mcfg \in MacMcuMethods))
  BY <1>2, MacMcuDoes DEF Writes
<1> HIDE DEF g
<1>4. Writes(g, h, {"unlocked"}) /\ IsChip(h) /\ h.unlocked
  BY <1>3, Locking DEF Writes
<1> HIDE DEF h
<1>5. Writes(h, j, {"badWrite", "linkWake"}) /\ IsChip(j) /\ (j.badWrite <=> h.badWrite)
  BY <1>4, LinkchgWakeup DEF Writes
<1> HIDE DEF j
<1>6. Writes(j, k, {"unlocked"}) /\ IsChip(k) /\ ~k.unlocked
  BY <1>5, Locking DEF Writes
<1> HIDE DEF k
<1>7. Writes(k, l, {"magic"}) /\ IsChip(l)
  BY <1>6, Guarded DEF Writes
<1> HIDE DEF l
<1>8. Writes(l, m, {"magic"}) /\ IsChip(m)
  BY <1>7, Guarded DEF Writes
<1>9. HwInit(a) = m
  BY DEF HwInit, d, e, g, h, j, k, l, m
<1> HIDE DEF m
<1>10. /\ Writes(a, g, {"aspm", "unlocked", "badWrite", "oobsSel", "bps"})
       /\ g.badWrite <=> a.badWrite
  BY <1>1, <1>2, <1>3 DEF Writes, Fields
<1>11. /\ Writes(g, m, {"unlocked", "badWrite", "linkWake", "magic"})
       /\ ~m.unlocked /\ (m.badWrite <=> g.badWrite)
  <2>1. /\ Writes(g, j, {"unlocked", "badWrite", "linkWake"})
        /\ j.badWrite <=> g.badWrite
    BY <1>3, <1>4, <1>5 DEF Writes, Fields
  <2>2. /\ Writes(j, l, {"unlocked", "magic"})
        /\ ~l.unlocked /\ (l.badWrite <=> j.badWrite)
    BY <1>5, <1>6, <1>7 DEF Writes, Fields
  <2>3. /\ Writes(j, m, {"unlocked", "magic"})
        /\ ~m.unlocked /\ (m.badWrite <=> j.badWrite)
    BY <1>5, <1>7, <1>8, <2>2 DEF Writes, Fields
  <2>4. Writes(g, m, {"unlocked", "badWrite", "linkWake", "magic"})
    BY <2>1, <2>3 DEF Writes
  <2> QED BY <2>1, <2>3, <2>4
<1>12. m.known => (m.bps <=> m.mcfg \in MacMcuMethods)
  BY <1>3, <1>11 DEF Writes, Fields
<1> QED BY <1>9, <1>10, <1>11, <1>12 DEF Writes, Fields

(* The PHY's power.                                                        *)
LEMMA PhyPower ==
  ASSUME NEW a, IsChip(a)
  PROVE  /\ Writes(a, PhyPowerUp(a), {"phyOn"}) /\ PhyPowerUp(a).phyOn
         /\ Writes(a, PhyPowerDown(a), {"phyOn"})
         /\ Writes(a, PhyRestartNway(a), {"phyOn"}) /\ PhyRestartNway(a).phyOn
<1>1. Writes(a, PhyPowerUp(a), {"phyOn"}) /\ PhyPowerUp(a).phyOn
  BY DEF Writes, IsChip, Consistent, Fields, PhyPowerUp
<1>2. Writes(a, PhyPowerDown(a), {"phyOn"})
  BY DEF Writes, IsChip, Consistent, Fields, PhyPowerDown
<1> QED BY <1>1, <1>2 DEF PhyRestartNway

(* What is checked, and whether it is to be kept.                          *)
LEMMA CodeVersionDoes ==
  ASSUME NEW a, IsChip(a), NEW nway
  PROVE  /\ Writes(a, CheckHwPhyMcuCodeVer(a), {"hasRamCode"})
         /\ CheckHwPhyMcuCodeVer(a).hasRamCode = CheckHwPhyMcuCodeVer(a).ramCode
         /\ Writes(a, ResumeKeep(a, nway), {"resume_keep"})
         /\ ResumeKeep(a, nway).resume_keep => a.check_keep /\ a.hasRamCode
<1>1. /\ Writes(a, CheckHwPhyMcuCodeVer(a), {"hasRamCode"})
      /\ CheckHwPhyMcuCodeVer(a).hasRamCode = CheckHwPhyMcuCodeVer(a).ramCode
  BY DEF Writes, IsChip, Consistent, Fields, CheckHwPhyMcuCodeVer
<1>2. /\ Writes(a, ResumeKeep(a, nway), {"resume_keep"})
      /\ ResumeKeep(a, nway).resume_keep => a.check_keep /\ a.hasRamCode
  BY DEF Writes, IsChip, Consistent, Fields, ResumeKeep
<1> QED BY <1>1, <1>2

(* The PLL, the PCI Express PHY and the advertised modes.                  *)
LEMMA PllEphyMedium ==
  ASSUME NEW a, IsChip(a)
  PROVE  /\ Writes(a, PowerupPll(a), {"pll", "phyOn"}) /\ PowerupPll(a).pll
         /\ Writes(a, HwEphyConfig(a), {"ephy"}) /\ HwEphyConfig(a).ephy
         /\ Writes(a, SetEee(a), {"mutex"}) /\ (~a.mutex => ~SetEee(a).mutex)
         /\ Writes(a, SetPhyMedium(a), {"phyOn", "mutex"}) /\ SetPhyMedium(a).phyOn
         /\ ~a.mutex => ~SetPhyMedium(a).mutex
<1>1. Writes(a, PowerupPll(a), {"pll", "phyOn"}) /\ PowerupPll(a).pll
  BY DEF Writes, IsChip, Consistent, Fields, PowerupPll, PhyPowerUp
<1>2. Writes(a, HwEphyConfig(a), {"ephy"}) /\ HwEphyConfig(a).ephy
  BY DEF Writes, IsChip, Consistent, Fields, HwEphyConfig
<1>3. Writes(a, SetEee(a), {"mutex"}) /\ (~a.mutex => ~SetEee(a).mutex)
  BY MutexPair DEF SetEee
<1> DEFINE e == SetEee(a)
<1>4. IsChip(e) /\ SetPhyMedium(a) = PhyRestartNway(e)
  BY <1>3 DEF Writes, SetPhyMedium
<1> HIDE DEF e
<1>5. /\ Writes(e, SetPhyMedium(a), {"phyOn"}) /\ SetPhyMedium(a).phyOn
  BY <1>4, PhyPower
<1> QED BY <1>1, <1>2, <1>3, <1>5 DEF e, Writes, Fields

(* The tables and the code of a PHY that has been configured: the part of  *)
(* ChipConfigured that a PHY which is left alone must still have.          *)
PhyComplete(a, on) ==
  /\ a.phyTable # "none"
  /\ a.known => a.ramCode /\ a.phyTable = "full"
  /\ a.aldps <=> on /\ a.hasRamCode

(* The table of a known revision is written in full, that of another only  *)
(* in part.                                                                *)
LEMMA PhyTableDoes ==
  ASSUME NEW a, IsChip(a), NEW on \in BOOLEAN, ~a.aldps
  PROVE  LET b == PhyTable(a, on)
         IN  /\ Writes(a, b, {"phyTable", "aldps"})
             /\ b.phyTable # "none"
             /\ b.hasRamCode => b.phyTable = "full"
             /\ b.aldps <=> on /\ b.hasRamCode
<1> DEFINE d == IF a.mcfg \in GuardedTables THEN GuardedPhyTable(a) ELSE PlainPhyTable(a)
<1>1. /\ Writes(a, d, {"phyTable"}) /\ IsChip(d)
      /\ d.phyTable # "none" /\ (d.hasRamCode => d.phyTable = "full")
  BY DEF Writes, IsChip, Consistent, Fields, GuardedPhyTable, PlainPhyTable
<1>2. PhyTable(a, on) = [d EXCEPT !.aldps = @ \/ (on /\ d.hasRamCode)]
  BY DEF PhyTable, EnablePhyAldps
<1> HIDE DEF d
<1>3. ~d.aldps
  BY <1>1 DEF Writes, Fields
<1>4. /\ Writes(d, PhyTable(a, on), {"aldps"})
      /\ PhyTable(a, on).aldps <=> on /\ PhyTable(a, on).hasRamCode
  BY <1>1, <1>2, <1>3 DEF Writes, IsChip, Consistent, Fields
<1> QED BY <1>1, <1>4 DEF Writes, Fields

(* rtl812xHwPhyConfig() completes the PHY, or leaves it alone when it was  *)
(* kept alive: then it must be complete already.                           *)
LEMMA PhyConfigDoes ==
  ASSUME NEW a, IsChip(a), NEW on \in BOOLEAN
  PROVE  LET b == HwPhyConfig(a, on)
         IN  /\ Writes(a, b, {"phyTable", "aldps", "phyOn", "ramCode", "hasRamCode",
                              "mutex"})
             /\ ~a.mutex => ~b.mutex
             /\ a.resume_keep => b = a
             /\ ~a.resume_keep /\ (a.hasRamCode = a.ramCode) =>
                  PhyComplete(b, on) /\ b.hasRamCode = b.ramCode
<1> DEFINE d == PhyResetEnable(a)
           e == InitHwPhyMcu(d)
           g == PhyTable(e, on)
           h == IF g.hasRamCode THEN SetEee(g) ELSE g
<1>1. Writes(a, d, {"phyTable", "aldps", "phyOn"}) /\ IsChip(d) /\ ~d.aldps
  BY DEF Writes, IsChip, Consistent, Fields, PhyResetEnable
<1> HIDE DEF d
<1>2. /\ Writes(d, e, {"ramCode", "hasRamCode"}) /\ IsChip(e)
      /\ e.known => e.hasRamCode
      /\ d.hasRamCode = d.ramCode => e.hasRamCode = e.ramCode
  BY <1>1 DEF Writes, IsChip, Consistent, Fields, InitHwPhyMcu
<1>3. ~e.aldps
  BY <1>1, <1>2 DEF Writes, Fields
<1> HIDE DEF e
<1>4. /\ Writes(e, g, {"phyTable", "aldps"}) /\ IsChip(g)
      /\ g.phyTable # "none"
      /\ g.hasRamCode => g.phyTable = "full"
      /\ g.aldps <=> on /\ g.hasRamCode
  BY <1>2, <1>3, PhyTableDoes DEF Writes
<1> HIDE DEF g
<1>5. Writes(g, h, {"mutex"}) /\ (~g.mutex => ~h.mutex)
  BY <1>4, PllEphyMedium DEF Writes
<1> HIDE DEF h
<1>6. HwPhyConfig(a, on) = IF a.resume_keep THEN a ELSE h
  BY DEF HwPhyConfig, d, e, g, h
<1>7. Writes(a, h, {"phyTable", "aldps", "phyOn", "ramCode", "hasRamCode", "mutex"})
  BY <1>1, <1>2, <1>4, <1>5 DEF Writes
<1>8. ~a.mutex => ~h.mutex
  BY <1>1, <1>2, <1>4, <1>5 DEF Writes, Fields
<1>9. a.hasRamCode = a.ramCode => PhyComplete(h, on) /\ h.hasRamCode = h.ramCode
  <2>1. a.hasRamCode = a.ramCode => e.hasRamCode = e.ramCode
    BY <1>1, <1>2 DEF Writes, Fields
  <2>2. /\ h.phyTable # "none" /\ (h.hasRamCode => h.phyTable = "full")
        /\ h.aldps <=> on /\ h.hasRamCode
    BY <1>4, <1>5 DEF Writes, Fields
  <2>3. h.known = e.known /\ h.hasRamCode = e.hasRamCode /\ h.ramCode = e.ramCode
    BY <1>2, <1>4, <1>5 DEF Writes, Fields
  <2> QED BY <1>2, <2>1, <2>2, <2>3 DEF PhyComplete
<1>10. Writes(a, a, {"phyTable", "aldps", "phyOn", "ramCode", "hasRamCode", "mutex"})
  BY DEF Writes
<1> QED BY <1>6, <1>7, <1>8, <1>9, <1>10

-----------------------------------------------------------------------------
(* Going down.                                                             *)

(* What wakes the chip is what it was found to support.                    *)
LEMMA HwWolDoes ==
  ASSUME NEW a, IsChip(a)
  PROVE  LET b == SetHwWol(a)
         IN  /\ Writes(a, b, {"magic", "unlocked", "badWrite", "linkWake"})
             /\ ~b.unlocked /\ (b.badWrite <=> a.badWrite)
             /\ b.linkWake <=> "phy" \in b.wol_opts
             /\ Consistent(a) =>
                  (b.magic <=> "magic" \in b.wol_opts /\ b.mcfg \in MagicPktV3)
<1> DEFINE d == SetMagicPacket(a, "magic" \in a.wol_opts)
           e == Unlock(d)
           g == IF "phy" \in a.wol_opts THEN EnableLinkchgWakeup(e)
                ELSE DisableLinkchgWakeup(e)
           h == Lock(g)
<1>1. /\ Writes(a, d, {"magic"}) /\ IsChip(d)
      /\ a.mcfg \in MagicPktV3 => d.magic = ("magic" \in a.wol_opts)
  BY Guarded DEF Writes
<1> HIDE DEF d
<1>2. Writes(d, e, {"unlocked"}) /\ IsChip(e) /\ e.unlocked
  BY <1>1, Locking DEF Writes
<1> HIDE DEF e
<1>3. /\ Writes(e, g, {"badWrite", "linkWake"}) /\ IsChip(g)
      /\ (g.badWrite <=> e.badWrite) /\ (g.linkWake <=> "phy" \in a.wol_opts)
  BY <1>2, LinkchgWakeup DEF Writes
<1>4. SetHwWol(a) = h
  <2>1. d.wol_opts = a.wol_opts
    BY <1>1 DEF Writes, Fields
  <2> QED BY DEF SetHwWol, d, e, g
<1> HIDE DEF g
<1>5. Writes(g, h, {"unlocked"}) /\ IsChip(h) /\ ~h.unlocked
  BY <1>3, Locking DEF Writes
<1> HIDE DEF h
<1>6. /\ Writes(a, e, {"magic", "unlocked"}) /\ (e.badWrite <=> a.badWrite)
      /\ e.magic = d.magic
  BY <1>1, <1>2 DEF Writes, Fields
<1>7. /\ Writes(e, h, {"unlocked", "badWrite", "linkWake"})
      /\ (h.badWrite <=> e.badWrite) /\ (h.linkWake <=> "phy" \in a.wol_opts)
      /\ h.magic = e.magic
  BY <1>2, <1>3, <1>5 DEF Writes, Fields
<1>8. /\ Writes(a, h, {"magic", "unlocked", "badWrite", "linkWake"})
      /\ (h.badWrite <=> a.badWrite)
      /\ h.wol_opts = a.wol_opts /\ h.mcfg = a.mcfg
  BY <1>6, <1>7 DEF Writes, Fields
<1>9. h.magic = d.magic
  BY <1>6, <1>7
<1>10. Consistent(a) =>
         (h.magic <=> "magic" \in h.wol_opts /\ h.mcfg \in MagicPktV3)
  BY <1>1, <1>8, <1>9 DEF Consistent, Writes
<1> QED BY <1>4, <1>5, <1>7, <1>8, <1>10

(* Choosing a low speed for sleep does not turn the PHY off.               *)
LEMMA WolLinkSpeedDoes ==
  ASSUME NEW a, IsChip(a), NEW wol
  PROVE  LET b == SetWolLinkSpeed(a, wol)
         IN  Writes(a, b, {"phyOn", "pfm"}) /\ (a.phyOn => b.phyOn)
<1> DEFINE d == IF wol = "none" THEN a ELSE PhyRestartNway(a)
<1>1. Writes(a, d, {"phyOn"}) /\ IsChip(d) /\ (a.phyOn => d.phyOn)
  BY PhyPower DEF Writes
<1>2. SetWolLinkSpeed(a, wol) = SetPfmPatch(d, wol = "ten")
  BY DEF SetWolLinkSpeed
<1> HIDE DEF d
<1>3. Writes(d, SetWolLinkSpeed(a, wol), {"pfm"})
  BY <1>1, <1>2, Guarded
<1> QED BY <1>1, <1>3 DEF Writes, Fields

(* The chip can wake the system.                                           *)
CanWake(a) ==
  /\ a.phyOn /\ ~a.rxdvGate
  /\ {"bcast", "mcast", "phys"} \subseteq a.accept
  /\ a.magic <=> "magic" \in a.wol_opts /\ a.mcfg \in MagicPktV3
  /\ a.linkWake <=> "phy" \in a.wol_opts

(* rtl812xPowerDownPLL() leaves a chip that can wake the system, if wake   *)
(* on LAN is enabled.                                                      *)
LEMMA PowerdownPllDoes ==
  ASSUME NEW a, IsChip(a), NEW linkOk, NEW d0, NEW wol, ~a.unlocked
  PROVE  LET b == PowerdownPll(a, linkOk, d0, wol)
         IN  /\ Writes(a, b, {"magic", "unlocked", "badWrite", "linkWake", "phyOn",
                              "pfm", "check_keep", "accept", "pll"})
             /\ ~b.unlocked /\ (b.badWrite <=> a.badWrite)
             /\ Consistent(a) /\ a.phyOn /\ ~a.rxdvGate /\ b.wol_enabled => CanWake(b)
<1> DEFINE F == {"magic", "unlocked", "badWrite", "linkWake", "phyOn",
                 "pfm", "check_keep", "accept", "pll"}
           b == PowerdownPll(a, linkOk, d0, wol)
           keep == KeepWolLinkSpeed(a, linkOk)
           d == SetHwWol(a)
           e == Unlock(d)
           g == WriteConfig(e)
           pm == Lock(g)
           h == IF keep THEN pm ELSE SetWolLinkSpeed(pm, wol)
           j == PhyPowerDown(a)
<1>1. CASE a.wol_enabled \/ a.DASH
  <2>1. b = [h EXCEPT !.check_keep = keep \/ (d0 /\ a.mcfg \in D0SpeedUp),
                      !.accept = @ \cup {"bcast", "mcast", "phys"}]
    BY <1>1 DEF PowerdownPll
  <2> HIDE DEF b, keep
  <2>2. /\ Writes(a, d, {"magic", "unlocked", "badWrite", "linkWake"}) /\ IsChip(d)
        /\ ~d.unlocked /\ (d.badWrite <=> a.badWrite)
        /\ d.linkWake <=> "phy" \in d.wol_opts
        /\ Consistent(a) =>
             (d.magic <=> "magic" \in d.wol_opts /\ d.mcfg \in MagicPktV3)
    BY HwWolDoes DEF Writes
  <2> HIDE DEF d
  <2>3. Writes(d, e, {"unlocked"}) /\ IsChip(e) /\ e.unlocked
    BY <2>2, Locking DEF Writes
  <2> HIDE DEF e
  <2>4. Writes(e, g, {"badWrite"}) /\ IsChip(g) /\ (g.badWrite <=> e.badWrite)
    BY <2>3, Locking DEF Writes
  <2> HIDE DEF g
  <2>5. Writes(g, pm, {"unlocked"}) /\ IsChip(pm) /\ ~pm.unlocked
    BY <2>4, Locking DEF Writes
  <2> HIDE DEF pm
  <2>6. Writes(pm, h, {"phyOn", "pfm"}) /\ IsChip(h) /\ (pm.phyOn => h.phyOn)
    BY <2>5, WolLinkSpeedDoes DEF Writes
  <2> HIDE DEF h
  <2>7. /\ Writes(h, b, {"check_keep", "accept"})
        /\ {"bcast", "mcast", "phys"} \subseteq b.accept
    BY <2>1, <2>6 DEF Writes, IsChip, Consistent, Fields
  <2>8. /\ Writes(d, pm, {"unlocked", "badWrite"}) /\ ~pm.unlocked
        /\ (pm.badWrite <=> d.badWrite)
    BY <2>2, <2>3, <2>4, <2>5 DEF Writes, Fields
  <2>9. /\ Writes(pm, b, {"phyOn", "pfm", "check_keep", "accept"})
        /\ b.phyOn = h.phyOn /\ b.unlocked = pm.unlocked /\ b.badWrite = pm.badWrite
    BY <2>5, <2>6, <2>7 DEF Writes, Fields
  <2>10. /\ Writes(d, b, {"unlocked", "badWrite", "phyOn", "pfm", "check_keep", "accept"})
         /\ ~b.unlocked /\ (b.badWrite <=> d.badWrite) /\ (d.phyOn => b.phyOn)
    BY <2>2, <2>5, <2>6, <2>8, <2>9 DEF Writes, Fields
  <2>11. Writes(a, b, F) /\ ~b.unlocked /\ (b.badWrite <=> a.badWrite)
    BY <2>2, <2>10 DEF Writes
  <2>12. a.phyOn => d.phyOn
    BY <2>2 DEF Writes, Fields
  <2>13. d.rxdvGate = a.rxdvGate
    BY <2>2 DEF Writes, Fields
  <2>14. /\ b.magic = d.magic /\ b.linkWake = d.linkWake /\ b.wol_opts = d.wol_opts
         /\ b.mcfg = d.mcfg /\ b.rxdvGate = d.rxdvGate
    BY <2>2, <2>10 DEF Writes, Fields
  <2>15. Consistent(a) /\ a.phyOn /\ ~a.rxdvGate => CanWake(b)
    BY <2>2, <2>7, <2>10, <2>12, <2>13, <2>14 DEF CanWake
  <2> QED BY <2>11, <2>15 DEF F, b
<1>2. CASE ~(a.wol_enabled \/ a.DASH)
  <2>1. b = [j EXCEPT !.check_keep = FALSE, !.pll = a.pll /\ ~a.known]
    BY <1>2 DEF PowerdownPll
  <2> HIDE DEF b
  <2>2. Writes(a, j, {"phyOn"}) /\ IsChip(j)
    BY PhyPower DEF Writes
  <2> HIDE DEF j
  <2>3. Writes(j, b, {"check_keep", "pll"})
    BY <2>1, <2>2 DEF Writes, IsChip, Consistent, Fields
  <2>4. /\ Writes(a, b, F) /\ b.unlocked = a.unlocked /\ b.badWrite = a.badWrite
        /\ b.wol_enabled = a.wol_enabled
    BY <2>2, <2>3 DEF Writes, Fields
  <2> QED BY <1>2, <2>4 DEF F, b
<1> QED BY <1>1, <1>2

(* What the D3 state does not bear is off.                                 *)
LEMMA D3ParaDoes ==
  ASSUME NEW a, IsChip(a)
  PROVE  LET b == HwD3Para(a)
         IN  /\ Writes(a, b, {"aspm", "unlocked", "badWrite", "l1Mask", "rxdvGate",
                              "oobsSel"})
             /\ ~b.aspm /\ ~b.l1Mask /\ ~b.rxdvGate
             /\ (b.unlocked <=> a.unlocked) /\ (b.badWrite <=> a.badWrite)
             /\ Consistent(a) => ~b.oobsSel
<1> DEFINE d == EnableAspmClkreqLock(a, FALSE)
           e == [d EXCEPT !.l1Mask = FALSE, !.rxdvGate = FALSE]
           b == HwD3Para(a)
<1>1. /\ Writes(a, d, {"aspm", "unlocked", "badWrite"}) /\ IsChip(d) /\ ~d.aspm
      /\ (d.unlocked <=> a.unlocked) /\ (d.badWrite <=> a.badWrite)
  BY AspmOff DEF Writes
<1>2. b = SetRegOobsEnSel(e, FALSE)
  BY DEF HwD3Para
<1> HIDE DEF d, b
<1>3. Writes(d, e, {"l1Mask", "rxdvGate"}) /\ IsChip(e) /\ ~e.l1Mask /\ ~e.rxdvGate
  BY <1>1 DEF Writes, IsChip, Consistent, Fields
<1> HIDE DEF e
<1>4. /\ Writes(e, b, {"oobsSel"})
      /\ e.mcfg \in OobsSelMethods => ~b.oobsSel
  BY <1>2, <1>3, Guarded
<1>5. Writes(a, b, {"aspm", "unlocked", "badWrite", "l1Mask", "rxdvGate", "oobsSel"})
  BY <1>1, <1>3, <1>4 DEF Writes
<1>6. /\ ~b.aspm /\ ~b.l1Mask /\ ~b.rxdvGate
      /\ (b.unlocked <=> a.unlocked) /\ (b.badWrite <=> a.badWrite)
  BY <1>1, <1>3, <1>4 DEF Writes, Fields
<1>7. b.mcfg = e.mcfg
  BY <1>3, <1>4 DEF Writes, Fields
<1>8. Consistent(a) => ~b.oobsSel
  BY <1>4, <1>5, <1>7 DEF Writes, Consistent
<1> QED BY <1>5, <1>6, <1>8 DEF b

-----------------------------------------------------------------------------
(* Coming up.                                                              *)

(* The filter lets frames for this host in.                                *)
Receives(a, mcast) ==
  /\ {"bcast", "phys"} \subseteq a.accept
  /\ mcast => "mcast" \in a.accept /\ a.mar # "none"

(* The calls that set the filter keep the frames for this host, and those  *)
(* of the multicast groups if they are asked for.                          *)
LEMMA FilterDoes ==
  ASSUME NEW a, IsChip(a), NEW on \in BOOLEAN
  PROVE  /\ Writes(a, SetPromiscuousMode(a, on), {"accept", "mar"})
         /\ Receives(SetPromiscuousMode(a, on), TRUE)
         /\ Writes(a, SetMulticastMode(a, on), {"accept", "mar"})
         /\ Receives(SetMulticastMode(a, on), on)
         /\ Writes(a, SetMulticastList(a), {"mar"})
         /\ SetMulticastList(a).mar # "none"
<1>1. /\ Writes(a, SetPromiscuousMode(a, on), {"accept", "mar"})
      /\ Receives(SetPromiscuousMode(a, on), TRUE)
  BY DEF Writes, IsChip, Consistent, Fields, SetPromiscuousMode, Receives
<1>2. /\ Writes(a, SetMulticastMode(a, on), {"accept", "mar"})
      /\ Receives(SetMulticastMode(a, on), on)
  BY DEF Writes, IsChip, Consistent, Fields, SetMulticastMode, Receives
<1>3. /\ Writes(a, SetMulticastList(a), {"mar"})
      /\ SetMulticastList(a).mar # "none"
  BY DEF Writes, IsChip, Consistent, Fields, SetMulticastList
<1> QED BY <1>1, <1>2, <1>3

ConfigFields ==
  {"accept", "imr", "rxdvGate", "running", "rings", "unlocked", "aspm", "badWrite",
   "mutex", "l1Mask", "eeePlus", "pfm", "mar"}

(* rtl812xHwConfig() sets up rings and filter, and opens the receive gate  *)
(* again.                                                                  *)
LEMMA HwConfigDoes ==
  ASSUME NEW a, IsChip(a), NEW mcast \in BOOLEAN, NEW on
  PROVE  LET b == HwConfig(a, mcast, on)
         IN  /\ Writes(a, b, ConfigFields)
             /\ ~b.running /\ b.rings /\ ~b.rxdvGate /\ Receives(b, mcast)
             /\ ~b.unlocked /\ (b.badWrite <=> a.badWrite)
             /\ ~a.mutex => ~b.mutex
             /\ Consistent(a) => ~b.eeePlus /\ ~b.pfm
<1> DEFINE d1 == DisableRxPacketFilter(a)
           d2 == HwReset(d1)
           d3 == Unlock(d2)
           d4 == EnableAspmClkreqLock(d3, FALSE)
           d5 == [d4 EXCEPT !.rings = TRUE]
           d6 == WriteConfig(d5)
           d7 == IF a.mcfg \in MutexMethods THEN OobMutexUnlock(OobMutexLock(d6)) ELSE d6
           d8 == [d7 EXCEPT !.l1Mask = TRUE]
           d9 == SetEeePlus(d8, FALSE)
           e1 == SetPfmPatch(d9, FALSE)
           e2 == [e1 EXCEPT !.rxdvGate = FALSE]
           e3 == SetMulticastMode(e2, mcast)
           e4 == EnableAspmClkreqLock(e3, on)
           b  == Lock(e4)
<1>0. b = HwConfig(a, mcast, on)
  BY DEF HwConfig
<1>1. Writes(a, d1, {"accept"}) /\ IsChip(d1)
  BY DEF Writes, IsChip, Consistent, Fields, DisableRxPacketFilter
<1> HIDE DEF b, d1
<1>2. /\ Writes(d1, d2, {"imr", "accept", "rxdvGate", "running", "rings"}) /\ IsChip(d2)
      /\ ~d2.running
  BY <1>1, ResetDoes DEF Writes
<1> HIDE DEF d2
<1>3. Writes(d2, d3, {"unlocked"}) /\ IsChip(d3) /\ d3.unlocked
  BY <1>2, Locking DEF Writes
<1> HIDE DEF d3
<1>4. /\ Writes(d3, d4, {"aspm", "unlocked", "badWrite"}) /\ IsChip(d4)
      /\ (d4.unlocked <=> d3.unlocked) /\ (d4.badWrite <=> d3.badWrite)
  BY <1>3, AspmOff DEF Writes
<1> HIDE DEF d4
<1>5. Writes(d4, d5, {"rings"}) /\ IsChip(d5) /\ d5.rings
  BY <1>4 DEF Writes, IsChip, Consistent, Fields
<1> HIDE DEF d5
<1>6. Writes(d5, d6, {"badWrite"}) /\ IsChip(d6)
      /\ (d6.badWrite <=> d5.badWrite \/ ~d5.unlocked)
  BY <1>5, Locking DEF Writes
<1> HIDE DEF d6
<1>7. Writes(d6, d7, {"mutex"}) /\ IsChip(d7) /\ (~d6.mutex => ~d7.mutex)
  <2>1. Writes(d6, d6, {"mutex"})
    BY DEF Writes
  <2> QED BY <1>6, <2>1, MutexPair DEF Writes
<1> HIDE DEF d7
<1>8. Writes(d7, d8, {"l1Mask"}) /\ IsChip(d8)
  BY <1>7 DEF Writes, IsChip, Consistent, Fields
<1> HIDE DEF d8
<1>9. /\ Writes(d8, d9, {"eeePlus"}) /\ IsChip(d9)
      /\ d8.mcfg \notin NoEeePlus => ~d9.eeePlus
  BY <1>8, Guarded DEF Writes
<1> HIDE DEF d9
<1>10. /\ Writes(d9, e1, {"pfm"}) /\ IsChip(e1)
       /\ d9.mcfg \in PfmMethods => ~e1.pfm
  BY <1>9, Guarded DEF Writes
<1> HIDE DEF e1
<1>11. Writes(e1, e2, {"rxdvGate"}) /\ IsChip(e2) /\ ~e2.rxdvGate
  BY <1>10 DEF Writes, IsChip, Consistent, Fields
<1> HIDE DEF e2
<1>12. /\ Writes(e2, e3, {"accept", "mar"}) /\ IsChip(e3) /\ Receives(e3, mcast)
  BY <1>11, FilterDoes DEF Writes
<1> HIDE DEF e3
<1>13. /\ Writes(e3, e4, {"aspm", "unlocked", "badWrite"}) /\ IsChip(e4)
       /\ (e4.badWrite <=> e3.badWrite)
  BY <1>12, AspmLock DEF Writes
<1> HIDE DEF e4
<1>14. Writes(e4, b, {"unlocked"}) /\ IsChip(b) /\ ~b.unlocked
  BY <1>13, Locking DEF Writes, b
<1>15. /\ Writes(a, d3, {"accept", "imr", "rxdvGate", "running", "rings", "unlocked"})
       /\ ~d3.running /\ d3.unlocked /\ d3.badWrite = a.badWrite /\ d3.mutex = a.mutex
  BY <1>1, <1>2, <1>3 DEF Writes, Fields
<1>16. /\ Writes(d3, d6, {"aspm", "unlocked", "badWrite", "rings"}) /\ d6.rings
       /\ (d6.badWrite <=> d3.badWrite) /\ d6.mutex = d3.mutex /\ d6.running = d3.running
  BY <1>3, <1>4, <1>5, <1>6 DEF Writes, Fields
<1>17. /\ Writes(d6, d9, {"mutex", "l1Mask", "eeePlus"})
       /\ (~d6.mutex => ~d9.mutex) /\ d9.badWrite = d6.badWrite
       /\ d9.running = d6.running /\ d9.rings = d6.rings
  BY <1>6, <1>7, <1>8, <1>9 DEF Writes, Fields
<1>18. /\ Writes(d9, e2, {"pfm", "rxdvGate"}) /\ ~e2.rxdvGate
       /\ e2.badWrite = d9.badWrite /\ e2.mutex = d9.mutex
       /\ e2.running = d9.running /\ e2.rings = d9.rings
  BY <1>9, <1>10, <1>11 DEF Writes, Fields
<1>19. /\ Writes(e2, b, {"accept", "mar", "aspm", "unlocked", "badWrite"})
       /\ ~b.unlocked /\ (b.badWrite <=> e2.badWrite) /\ b.mutex = e2.mutex
       /\ b.running = e2.running /\ b.rings = e2.rings /\ b.rxdvGate = e2.rxdvGate
       /\ b.accept = e3.accept /\ b.mar = e3.mar
  BY <1>11, <1>12, <1>13, <1>14 DEF Writes, Fields
<1>20. Writes(a, d9, ConfigFields)
  BY <1>15, <1>16, <1>17 DEF Writes, ConfigFields
<1>21. Writes(a, b, ConfigFields)
  BY <1>18, <1>19, <1>20 DEF Writes, ConfigFields
<1>22. /\ ~b.running /\ b.rings /\ ~b.rxdvGate /\ ~b.unlocked
       /\ (b.badWrite <=> a.badWrite) /\ (~a.mutex => ~b.mutex)
  BY <1>15, <1>16, <1>17, <1>18, <1>19
<1>23. Receives(b, mcast)
  BY <1>12, <1>19 DEF Receives
<1>24. ASSUME Consistent(a) PROVE ~b.eeePlus /\ ~b.pfm
  <2>1. Consistent(d8) /\ Consistent(d9) /\ Consistent(e1)
    BY <1>1, <1>2, <1>3, <1>4, <1>5, <1>6, <1>7, <1>8, <1>9, <1>10, <1>24 DEF Writes
  <2>2. ~d9.eeePlus
    <3>1. d9.mcfg = d8.mcfg
      BY <1>8, <1>9 DEF Writes, Fields
    <3> QED BY <1>9, <2>1, <3>1 DEF Consistent
  <2>3. ~e1.pfm
    <3>1. e1.mcfg = d9.mcfg
      BY <1>9, <1>10 DEF Writes, Fields
    <3> QED BY <1>10, <2>1, <3>1 DEF Consistent
  <2>4. e1.eeePlus = d9.eeePlus /\ b.eeePlus = e2.eeePlus /\ b.pfm = e2.pfm
    BY <1>9, <1>10, <1>11, <1>19 DEF Writes, Fields
  <2>5. e2.eeePlus = e1.eeePlus /\ e2.pfm = e1.pfm
    BY <1>10, <1>11 DEF Writes, Fields
  <2> QED BY <2>2, <2>3, <2>4, <2>5
<1> QED BY <1>0, <1>21, <1>22, <1>23, <1>24

(* No handshake is open.                                                   *)
Closed(a) == ~a.unlocked /\ ~a.badWrite /\ ~a.mutex

UpFields ==
  ConfigFields \cup {"oobsSel", "bps", "linkWake", "magic", "pll", "phyOn", "ephy",
                     "phyTable", "aldps", "ramCode", "hasRamCode"}

(* rtl812xUp() takes the chip from any state to a configured one, its PHY  *)
(* to a complete one but for a PHY that was kept alive.                    *)
LEMMA UpDoes ==
  ASSUME NEW a, IsChip(a), NEW mcast \in BOOLEAN, NEW on \in BOOLEAN
  PROVE  LET b == Up(a, mcast, on)
         IN  /\ Writes(a, b, UpFields)
             /\ ~b.running /\ b.rings /\ ~b.rxdvGate /\ Receives(b, mcast)
             /\ Closed(a) => Closed(b)
             /\ b.pll /\ b.ephy
             /\ b.known => (b.bps <=> b.mcfg \in MacMcuMethods)
             /\ a.resume_keep => /\ b.phyTable = a.phyTable /\ b.aldps = a.aldps
                                 /\ b.ramCode = a.ramCode /\ b.hasRamCode = a.hasRamCode
             /\ ~a.resume_keep /\ a.hasRamCode = a.ramCode =>
                  PhyComplete(b, on) /\ b.hasRamCode = b.ramCode
<1> DEFINE d == HwInit(a)
           e == HwReset(d)
           g == PowerupPll(e)
           h == HwEphyConfig(g)
           j == HwPhyConfig(h, on)
           b == HwConfig(j, mcast, on)
<1>0. b = Up(a, mcast, on)
  BY DEF Up
<1>1. /\ Writes(a, d, {"aspm", "unlocked", "badWrite", "oobsSel", "bps", "linkWake",
                       "magic"}) /\ IsChip(d)
      /\ ~d.unlocked /\ (d.badWrite <=> a.badWrite)
      /\ d.known => (d.bps <=> d.mcfg \in MacMcuMethods)
  BY HwInitDoes DEF Writes
<1> HIDE DEF b, d
<1>2. Writes(d, e, {"imr", "accept", "rxdvGate", "running", "rings"}) /\ IsChip(e)
  BY <1>1, ResetDoes DEF Writes
<1> HIDE DEF e
<1>3. Writes(e, g, {"pll", "phyOn"}) /\ IsChip(g) /\ g.pll
  BY <1>2, PllEphyMedium DEF Writes
<1> HIDE DEF g
<1>4. Writes(g, h, {"ephy"}) /\ IsChip(h) /\ h.ephy
  BY <1>3, PllEphyMedium DEF Writes
<1> HIDE DEF h
<1>5. /\ Writes(h, j, {"phyTable", "aldps", "phyOn", "ramCode", "hasRamCode", "mutex"})
      /\ IsChip(j)
      /\ ~h.mutex => ~j.mutex
      /\ h.resume_keep => j = h
      /\ ~h.resume_keep /\ (h.hasRamCode = h.ramCode) =>
           PhyComplete(j, on) /\ j.hasRamCode = j.ramCode
  BY <1>4, PhyConfigDoes DEF Writes
<1> HIDE DEF j
<1>6. /\ Writes(j, b, ConfigFields)
      /\ ~b.running /\ b.rings /\ ~b.rxdvGate /\ Receives(b, mcast)
      /\ ~b.unlocked /\ (b.badWrite <=> j.badWrite)
      /\ ~j.mutex => ~b.mutex
  BY <1>5, HwConfigDoes DEF b
<1>7. Writes(a, g, UpFields)
  BY <1>1, <1>2, <1>3 DEF Writes, UpFields, ConfigFields
<1>8. Writes(g, b, UpFields)
  BY <1>4, <1>5, <1>6 DEF Writes, UpFields, ConfigFields
<1>9. Writes(a, b, UpFields)
  BY <1>7, <1>8 DEF Writes
<1>10. /\ h.mutex = a.mutex /\ h.badWrite = d.badWrite /\ h.bps = d.bps
       /\ h.resume_keep = a.resume_keep
       /\ h.hasRamCode = a.hasRamCode /\ h.ramCode = a.ramCode
       /\ h.phyTable = a.phyTable /\ h.aldps = a.aldps
       /\ h.known = a.known /\ h.mcfg = a.mcfg /\ h.pll = g.pll
       /\ d.known = a.known /\ d.mcfg = a.mcfg
  <2>1. /\ d.mutex = a.mutex /\ d.resume_keep = a.resume_keep
        /\ d.hasRamCode = a.hasRamCode /\ d.ramCode = a.ramCode
        /\ d.phyTable = a.phyTable /\ d.aldps = a.aldps
        /\ d.known = a.known /\ d.mcfg = a.mcfg
    BY <1>1 DEF Writes, Fields
  <2>2. Writes(d, g, {"imr", "accept", "rxdvGate", "running", "rings", "pll", "phyOn"})
    BY <1>2, <1>3 DEF Writes
  <2>3. Writes(d, h, {"imr", "accept", "rxdvGate", "running", "rings", "pll", "phyOn",
                      "ephy"})
    BY <1>4, <2>2 DEF Writes
  <2>4. h.pll = g.pll
    BY <1>3, <1>4 DEF Writes, Fields
  <2> QED BY <1>1, <2>1, <2>3, <2>4 DEF Writes, Fields
<1>11. /\ j.badWrite = h.badWrite /\ j.bps = h.bps /\ j.known = h.known
       /\ j.mcfg = h.mcfg /\ j.pll = h.pll /\ j.ephy = h.ephy
  BY <1>4, <1>5 DEF Writes, Fields
<1>12. /\ b.bps = j.bps /\ b.known = j.known /\ b.mcfg = j.mcfg /\ b.pll = j.pll
       /\ b.ephy = j.ephy /\ b.phyTable = j.phyTable /\ b.aldps = j.aldps
       /\ b.ramCode = j.ramCode /\ b.hasRamCode = j.hasRamCode
  BY <1>5, <1>6 DEF Writes, ConfigFields, Fields
<1>13. Closed(a) => Closed(b)
  BY <1>1, <1>5, <1>6, <1>10, <1>11 DEF Closed
<1>14. b.pll /\ b.ephy /\ (b.known => (b.bps <=> b.mcfg \in MacMcuMethods))
  BY <1>1, <1>3, <1>4, <1>10, <1>11, <1>12
<1>15. a.resume_keep => /\ b.phyTable = a.phyTable /\ b.aldps = a.aldps
                        /\ b.ramCode = a.ramCode /\ b.hasRamCode = a.hasRamCode
  BY <1>5, <1>10, <1>12
<1>16. ~a.resume_keep /\ a.hasRamCode = a.ramCode =>
         PhyComplete(b, on) /\ b.hasRamCode = b.ramCode
  BY <1>5, <1>10, <1>12 DEF PhyComplete
<1> QED BY <1>0, <1>6, <1>9, <1>13, <1>14, <1>15, <1>16

-----------------------------------------------------------------------------
(* The calls of the driver.                                                *)

(* A PHY that may be left alone at the next enabling is complete.          *)
Kept(a, on) ==
  a.check_keep /\ a.ramCode =>
    /\ a.phyTable # "none"
    /\ a.known => a.phyTable = "full"
    /\ a.aldps <=> on

(* A chip between two calls, and one that was brought up.                  *)
Regular(a, on) == IsChip(a) /\ Consistent(a) /\ Closed(a) /\ Kept(a, on)

BroughtUp(a, on) ==
  /\ ~a.oob /\ a.phyOn /\ a.pll /\ a.ephy
  /\ PhyComplete(a, on) /\ a.hasRamCode = a.ramCode
  /\ a.known => (a.bps <=> a.mcfg \in MacMcuMethods)
  /\ a.managed => a.driverHere

(* A chip stays regular through a procedure that does not write what that  *)
(* means.                                                                  *)
LEMMA StaysRegular ==
  ASSUME NEW a, NEW b, NEW on, NEW F, Writes(a, b, F), Regular(a, on),
         F \cap {"unlocked", "badWrite", "mutex", "check_keep", "ramCode", "phyTable",
                 "known", "aldps"} = {}
  PROVE  Regular(b, on)
<1>1. /\ IsChip(b) /\ Consistent(b)
      /\ b.unlocked = a.unlocked /\ b.badWrite = a.badWrite /\ b.mutex = a.mutex
      /\ b.check_keep = a.check_keep /\ b.ramCode = a.ramCode
      /\ b.phyTable = a.phyTable /\ b.known = a.known /\ b.aldps = a.aldps
  BY DEF Writes, Regular, Fields
<1> QED BY <1>1 DEF Regular, Closed, Kept

(* Likewise for a chip that was brought up.                                *)
LEMMA StaysUp ==
  ASSUME NEW a, NEW b, NEW on, NEW F, Writes(a, b, F), IsChip(a), BroughtUp(a, on),
         F \cap {"oob", "phyOn", "pll", "ephy", "phyTable", "known", "ramCode",
                 "hasRamCode", "aldps", "bps", "mcfg", "managed", "driverHere"} = {}
  PROVE  BroughtUp(b, on)
<1>1. /\ b.oob = a.oob /\ b.phyOn = a.phyOn /\ b.pll = a.pll /\ b.ephy = a.ephy
      /\ b.phyTable = a.phyTable /\ b.known = a.known /\ b.ramCode = a.ramCode
      /\ b.hasRamCode = a.hasRamCode /\ b.aldps = a.aldps /\ b.bps = a.bps
      /\ b.mcfg = a.mcfg /\ b.managed = a.managed /\ b.driverHere = a.driverHere
  BY DEF Writes, Fields
<1> QED BY <1>1 DEF BroughtUp, PhyComplete

(* rtl812xEnable() brings up any chip completely, in whatever state it was *)
(* left, and also when it leaves the PHY alone.                            *)
LEMMA EnableDoes ==
  ASSUME NEW a, NEW nway, NEW mcast \in BOOLEAN, NEW on \in BOOLEAN, Regular(a, on)
  PROVE  LET b == Enable(a, nway, mcast, on)
         IN  Regular(b, on) /\ BroughtUp(b, on) /\ b.imr /\ ~b.running
<1> DEFINE d1 == RarSet(a)
           d2 == CheckHwPhyMcuCodeVer(d1)
           d3 == ResumeKeep(d2, nway)
           d4 == ExitOob(d3)
           d5 == Up(d4, mcast, on)
           d6 == SetPhyMedium(d5)
           b  == [d6 EXCEPT !.imr = TRUE]
<1>0. b = Enable(a, nway, mcast, on)
  BY DEF Enable
<1>1. IsChip(a) /\ Consistent(a) /\ Closed(a) /\ Kept(a, on)
  BY DEF Regular
<1>2. Writes(a, d1, {"unlocked"}) /\ IsChip(d1) /\ ~d1.unlocked
  BY <1>1, RarSetDoes DEF Writes
<1> HIDE DEF b, d1
<1>3. Writes(d1, d2, {"hasRamCode"}) /\ IsChip(d2) /\ d2.hasRamCode = d2.ramCode
  BY <1>2, CodeVersionDoes DEF Writes
<1> HIDE DEF d2
<1>4. /\ Writes(d2, d3, {"resume_keep"}) /\ IsChip(d3)
      /\ d3.resume_keep => d2.check_keep /\ d2.hasRamCode
  BY <1>3, CodeVersionDoes DEF Writes
<1> HIDE DEF d3
<1>5. /\ Writes(d3, d4, {"accept", "rxdvGate", "running", "rings", "driverHere", "oob"})
      /\ IsChip(d4)
      /\ ~d4.oob /\ (d4.managed => d4.driverHere)
  BY <1>4, ExitOobDoes DEF Writes
<1> HIDE DEF d4
<1>6. /\ Writes(d4, d5, UpFields) /\ IsChip(d5) /\ ~d5.running
      /\ Closed(d4) => Closed(d5)
      /\ d5.pll /\ d5.ephy
      /\ d5.known => (d5.bps <=> d5.mcfg \in MacMcuMethods)
      /\ d4.resume_keep => /\ d5.phyTable = d4.phyTable /\ d5.aldps = d4.aldps
                           /\ d5.ramCode = d4.ramCode /\ d5.hasRamCode = d4.hasRamCode
      /\ ~d4.resume_keep /\ d4.hasRamCode = d4.ramCode =>
           PhyComplete(d5, on) /\ d5.hasRamCode = d5.ramCode
  BY <1>5, UpDoes DEF Writes
<1> HIDE DEF d5
<1>7. Writes(d5, d6, {"phyOn", "mutex"}) /\ IsChip(d6) /\ d6.phyOn
      /\ (~d5.mutex => ~d6.mutex)
  BY <1>6, PllEphyMedium DEF Writes
<1> HIDE DEF d6
<1>8. Writes(d6, b, {"imr"}) /\ IsChip(b) /\ b.imr
  BY <1>7 DEF Writes, IsChip, Consistent, Fields, b
<1>9. /\ Writes(a, d4, {"unlocked", "hasRamCode", "resume_keep", "accept", "rxdvGate",
                        "running", "rings", "driverHere", "oob"})
      /\ ~d4.unlocked /\ d4.hasRamCode = d4.ramCode
      /\ d4.resume_keep => d4.check_keep /\ d4.ramCode
  <2>1. /\ Writes(a, d2, {"unlocked", "hasRamCode"}) /\ ~d2.unlocked
    BY <1>1, <1>2, <1>3 DEF Writes, Fields
  <2>2. /\ Writes(d2, d4, {"resume_keep", "accept", "rxdvGate", "running", "rings",
                           "driverHere", "oob"})
    BY <1>3, <1>4, <1>5 DEF Writes
  <2>3. /\ d4.resume_keep = d3.resume_keep /\ d4.ramCode = d2.ramCode
        /\ d4.hasRamCode = d2.hasRamCode /\ d4.check_keep = d2.check_keep
        /\ d4.unlocked = d2.unlocked
    BY <1>3, <1>4, <1>5 DEF Writes, Fields
  <2> QED BY <1>3, <1>4, <2>1, <2>2, <2>3 DEF Writes
<1>10. /\ Closed(d4) /\ Kept(d4, on) /\ Consistent(d4)
  <2>1. /\ d4.badWrite = a.badWrite /\ d4.mutex = a.mutex
        /\ d4.check_keep = a.check_keep /\ d4.ramCode = a.ramCode
        /\ d4.phyTable = a.phyTable /\ d4.known = a.known /\ d4.aldps = a.aldps
    BY <1>1, <1>9 DEF Writes, Fields
  <2> QED BY <1>1, <1>9, <2>1 DEF Closed, Kept, Writes
<1>11. PhyComplete(d5, on) /\ d5.hasRamCode = d5.ramCode
  <2>1. d5.known = d4.known
    BY <1>5, <1>6 DEF Writes, UpFields, ConfigFields, Fields
  <2>2. CASE d4.resume_keep
    BY <1>6, <1>9, <1>10, <2>1, <2>2 DEF Kept, PhyComplete
  <2>3. CASE ~d4.resume_keep
    BY <1>6, <1>9, <2>3
  <2> QED BY <2>2, <2>3
<1>12. /\ ~d5.oob /\ (d5.managed => d5.driverHere)
  BY <1>5, <1>6 DEF Writes, UpFields, ConfigFields, Fields
<1>13. /\ Consistent(b) /\ Closed(b)
  <2>1. b.unlocked = d5.unlocked /\ b.badWrite = d5.badWrite /\ b.mutex = d6.mutex
    BY <1>6, <1>7, <1>8 DEF Writes, Fields
  <2> QED BY <1>5, <1>6, <1>7, <1>8, <1>10, <2>1 DEF Writes, Closed
<1>14. /\ b.oob = d5.oob /\ b.phyOn = d6.phyOn /\ b.pll = d5.pll /\ b.ephy = d5.ephy
       /\ b.phyTable = d5.phyTable /\ b.known = d5.known /\ b.ramCode = d5.ramCode
       /\ b.hasRamCode = d5.hasRamCode /\ b.aldps = d5.aldps /\ b.bps = d5.bps
       /\ b.mcfg = d5.mcfg /\ b.managed = d5.managed /\ b.driverHere = d5.driverHere
       /\ b.running = d5.running
  BY <1>6, <1>7, <1>8 DEF Writes, Fields
<1>15. BroughtUp(b, on)
  BY <1>6, <1>7, <1>11, <1>12, <1>14 DEF BroughtUp, PhyComplete
<1>16. Kept(b, on)
  BY <1>15 DEF BroughtUp, PhyComplete, Kept
<1> QED BY <1>0, <1>6, <1>8, <1>13, <1>14, <1>15, <1>16 DEF Regular

(* What is done for a link that is lost, before setLinkDown().             *)
LEMMA LinkDownPatchDoes ==
  ASSUME NEW a, IsChip(a)
  PROVE  LET b == LinkDownPatch(a)
         IN  /\ Writes(a, b, {"eeePlus", "pfm", "imr", "accept", "rxdvGate", "running",
                              "rings"})
             /\ ~b.running
<1> DEFINE d == SetEeePlus(a, FALSE)
           e == SetPfmPatch(d, TRUE)
           b == HwReset(e)
<1>1. Writes(a, d, {"eeePlus"}) /\ IsChip(d)
  BY Guarded DEF Writes
<1>0. b = LinkDownPatch(a)
  BY DEF LinkDownPatch
<1> HIDE DEF b, d
<1>2. Writes(d, e, {"pfm"}) /\ IsChip(e)
  BY <1>1, Guarded DEF Writes
<1> HIDE DEF e
<1>3. /\ Writes(e, b, {"imr", "accept", "rxdvGate", "running", "rings"})
      /\ ~b.running
  BY <1>2, ResetDoes DEF b
<1> QED BY <1>0, <1>1, <1>2, <1>3 DEF Writes

(* setLinkDown() leaves a chip that is as it was brought up.               *)
LEMMA SetLinkDownDoes ==
  ASSUME NEW a, NEW on, Regular(a, on)
  PROVE  LET b == SetLinkDown(a)
         IN  /\ Regular(b, on) /\ b.imr /\ ~b.running
             /\ BroughtUp(a, on) => BroughtUp(b, on)
<1> DEFINE d == LinkDownPatch(a)
           e == [d EXCEPT !.imr = TRUE]
           b == SetPhyMedium(e)
           F == {"eeePlus", "pfm", "imr", "accept", "rxdvGate", "running", "rings"}
<1>0. b = SetLinkDown(a)
  BY DEF SetLinkDown
<1>1. IsChip(a)
  BY DEF Regular
<1>2. /\ Writes(a, d, F) /\ IsChip(d) /\ ~d.running
  BY <1>1, LinkDownPatchDoes DEF Writes
<1> HIDE DEF b, d
<1>3. Writes(d, e, {"imr"}) /\ IsChip(e) /\ e.imr
  BY <1>2 DEF Writes, IsChip, Consistent, Fields
<1> HIDE DEF e
<1>4. /\ Writes(e, b, {"phyOn", "mutex"}) /\ IsChip(b) /\ b.phyOn
      /\ ~e.mutex => ~b.mutex
  BY <1>3, PllEphyMedium DEF Writes, b
<1>5. Writes(a, e, F)
  BY <1>1, <1>2, <1>3 DEF Writes
<1>6. Regular(e, on)
  BY <1>5, StaysRegular
<1>7. Regular(b, on)
  <2>1. /\ b.unlocked = e.unlocked /\ b.badWrite = e.badWrite
        /\ b.check_keep = e.check_keep /\ b.ramCode = e.ramCode
        /\ b.phyTable = e.phyTable /\ b.known = e.known /\ b.aldps = e.aldps
    BY <1>3, <1>4 DEF Writes, Fields
  <2>2. IsChip(b) /\ Consistent(b)
    BY <1>4, <1>6 DEF Writes, Regular
  <2> QED BY <1>4, <1>6, <2>1, <2>2 DEF Regular, Closed, Kept
<1>8. /\ b.imr /\ ~b.running
  BY <1>2, <1>3, <1>4 DEF Writes, Fields
<1>9. ASSUME BroughtUp(a, on) PROVE BroughtUp(b, on)
  <2>1. BroughtUp(e, on)
    BY <1>1, <1>5, <1>9, StaysUp
  <2>2. /\ b.oob = e.oob /\ b.pll = e.pll /\ b.ephy = e.ephy
        /\ b.phyTable = e.phyTable /\ b.known = e.known /\ b.ramCode = e.ramCode
        /\ b.hasRamCode = e.hasRamCode /\ b.aldps = e.aldps /\ b.bps = e.bps
        /\ b.mcfg = e.mcfg /\ b.managed = e.managed /\ b.driverHere = e.driverHere
    BY <1>3, <1>4 DEF Writes, Fields
  <2> QED BY <1>4, <2>1, <2>2 DEF BroughtUp, PhyComplete
<1> QED BY <1>0, <1>7, <1>8, <1>9

(* The settings of a link of the given speed.                              *)
Linked(a, mcast, ten) ==
  /\ a.running /\ a.rings /\ ~a.rxdvGate /\ Receives(a, mcast)
  /\ a.eeePlus <=> ten /\ a.mcfg \notin NoEeePlus
  /\ a.pfm <=> ten /\ a.mcfg \in PfmMethods

(* A new link is set up from any other.                                    *)
LEMMA SetLinkUpDoes ==
  ASSUME NEW a, NEW on, Regular(a, on), NEW mcast \in BOOLEAN, NEW ten \in BOOLEAN
  PROVE  LET b == [SetLinkUp(LinkOnPatch(a, mcast, on, ten)) EXCEPT !.imr = TRUE]
         IN  /\ Regular(b, on) /\ b.imr /\ Linked(b, mcast, ten)
             /\ BroughtUp(a, on) => BroughtUp(b, on)
<1> DEFINE d == HwConfig(a, mcast, on)
           e == IF ten THEN SetEeePlus(d, TRUE) ELSE d
           g == SetPfmPatch(e, ten)
           h == SetLinkUp(g)
           b == [h EXCEPT !.imr = TRUE]
<1>0. b = [SetLinkUp(LinkOnPatch(a, mcast, on, ten)) EXCEPT !.imr = TRUE]
  BY DEF LinkOnPatch
<1>1. IsChip(a) /\ Consistent(a) /\ Closed(a)
  BY DEF Regular
<1>2. /\ Writes(a, d, ConfigFields) /\ IsChip(d) /\ Consistent(d)
      /\ d.rings /\ ~d.rxdvGate /\ Receives(d, mcast)
      /\ ~d.unlocked /\ (d.badWrite <=> a.badWrite)
      /\ (~a.mutex => ~d.mutex)
      /\ ~d.eeePlus /\ ~d.pfm
  BY <1>1, HwConfigDoes DEF Writes
<1> HIDE DEF b, d
<1>3. /\ Writes(d, e, {"eeePlus"}) /\ IsChip(e)
      /\ e.eeePlus <=> ten /\ d.mcfg \notin NoEeePlus
  <2>1. Writes(d, d, {"eeePlus"})
    BY DEF Writes
  <2>2. CASE ten
    <3>1. /\ e = SetEeePlus(d, TRUE) /\ Writes(d, e, {"eeePlus"})
          /\ d.mcfg \notin NoEeePlus => e.eeePlus
      BY <1>2, <2>2, Guarded
    <3>2. d.mcfg \in NoEeePlus => ~e.eeePlus
      BY <1>2, <3>1 DEF SetEeePlus
    <3> QED BY <1>2, <2>2, <3>1, <3>2 DEF Writes
  <2>3. CASE ~ten
    <3>1. e = d
      BY <2>3
    <3> QED BY <1>2, <2>1, <2>3, <3>1
  <2> QED BY <2>2, <2>3
<1>4. d.pfm = e.pfm
  BY <1>2, <1>3 DEF Writes, Fields
<1> HIDE DEF e
<1>5. /\ Writes(e, g, {"pfm"}) /\ IsChip(g)
      /\ g.pfm <=> ten /\ e.mcfg \in PfmMethods
  <2>1. /\ Writes(e, g, {"pfm"})
        /\ e.mcfg \in PfmMethods => g.pfm = ten
    BY <1>3, Guarded
  <2>2. e.mcfg \notin PfmMethods => ~g.pfm
    BY <1>2, <1>4 DEF SetPfmPatch
  <2> QED BY <1>3, <2>1, <2>2 DEF Writes
<1> HIDE DEF g
<1>6. Writes(g, h, {"running"}) /\ IsChip(h) /\ h.running
  BY <1>5 DEF Writes, IsChip, Consistent, Fields, SetLinkUp
<1> HIDE DEF h
<1>7. Writes(h, b, {"imr"}) /\ IsChip(b) /\ b.imr
  BY <1>6 DEF Writes, IsChip, Consistent, Fields, b
<1>8. /\ Writes(d, b, {"eeePlus", "pfm", "running", "imr"})
      /\ b.running = h.running /\ b.pfm = g.pfm /\ b.eeePlus = e.eeePlus
      /\ e.mcfg = d.mcfg
  <2>1. Writes(d, g, {"eeePlus", "pfm"}) /\ g.eeePlus = e.eeePlus /\ e.mcfg = d.mcfg
    BY <1>2, <1>3, <1>5 DEF Writes, Fields
  <2>2. /\ Writes(g, b, {"running", "imr"})
        /\ b.running = h.running /\ b.pfm = g.pfm /\ b.eeePlus = g.eeePlus
    BY <1>5, <1>6, <1>7 DEF Writes, Fields
  <2>3. Writes(d, b, {"eeePlus", "pfm", "running", "imr"})
    BY <2>1, <2>2 DEF Writes
  <2> QED BY <2>1, <2>2, <2>3
<1>9. /\ b.rings = d.rings /\ b.rxdvGate = d.rxdvGate /\ b.accept = d.accept
      /\ b.mar = d.mar /\ b.unlocked = d.unlocked /\ b.badWrite = d.badWrite
      /\ b.mutex = d.mutex /\ b.mcfg = d.mcfg /\ Consistent(b)
  BY <1>2, <1>8 DEF Writes, Fields
<1>10. Linked(b, mcast, ten)
  BY <1>2, <1>3, <1>5, <1>6, <1>8, <1>9 DEF Linked, Receives
<1>11. Writes(a, b, ConfigFields)
  BY <1>2, <1>8 DEF Writes, ConfigFields
<1>12. Regular(b, on)
  <2>1. Closed(b)
    BY <1>1, <1>2, <1>9 DEF Closed
  <2>2. /\ b.check_keep = a.check_keep /\ b.ramCode = a.ramCode
        /\ b.phyTable = a.phyTable /\ b.known = a.known /\ b.aldps = a.aldps
    BY <1>1, <1>11 DEF Writes, ConfigFields, Fields
  <2> QED BY <1>7, <1>9, <2>1, <2>2 DEF Regular, Kept
<1>13. BroughtUp(a, on) => BroughtUp(b, on)
  <2>1. ConfigFields \cap {"oob", "phyOn", "pll", "ephy", "phyTable", "known", "ramCode",
           "hasRamCode", "aldps", "bps", "mcfg", "managed", "driverHere"} = {}
    BY DEF ConfigFields
  <2> QED BY <1>1, <1>11, <2>1, StaysUp
<1> QED BY <1>0, <1>7, <1>10, <1>12, <1>13

(* The chip is quiet.                                                      *)
ChipQuiet(a) ==
  ~a.imr /\ ~a.running /\ ~a.driverHere /\ ~a.aspm /\ ~a.l1Mask /\ ~a.oobsSel

(* rtl812xDisable() leaves a chip quiet, and able to wake the system if it *)
(* is to.                                                                  *)
LEMMA DisableDoes ==
  ASSUME NEW a, NEW on, Regular(a, on), BroughtUp(a, on), NEW linkOk, NEW d0, NEW wol
  PROVE  LET b == Disable(a, linkOk, d0, wol)
         IN  /\ Regular(b, on) /\ ChipQuiet(b)
             /\ b.wol_enabled => CanWake(b)
<1> DEFINE d1 == IrqMaskAndAck(a)
           d2 == HwReset(d1)
           d3 == HwD3Para(d2)
           d4 == PowerdownPll(d3, linkOk, d0, wol)
           b  == DriverStop(d4)
           F  == {"imr", "accept", "rxdvGate", "running", "rings", "aspm", "unlocked",
                  "badWrite", "l1Mask", "oobsSel"}
           G  == {"magic", "unlocked", "badWrite", "linkWake", "phyOn",
                  "pfm", "check_keep", "accept", "pll"}
<1>0. b = Disable(a, linkOk, d0, wol)
  BY DEF Disable, Down
<1>1. IsChip(a) /\ Consistent(a) /\ Closed(a)
  BY DEF Regular
<1>2. Writes(a, d1, {"imr"}) /\ IsChip(d1)
  BY <1>1 DEF Writes, IsChip, Consistent, Fields, IrqMaskAndAck
<1> HIDE DEF b, d1
<1>3. /\ Writes(d1, d2, {"imr", "accept", "rxdvGate", "running", "rings"}) /\ IsChip(d2)
      /\ ~d2.running /\ ~d2.imr
  BY <1>2, ResetDoes DEF Writes
<1> HIDE DEF d2
<1>4. /\ Writes(d2, d3, {"aspm", "unlocked", "badWrite", "l1Mask", "rxdvGate", "oobsSel"})
      /\ IsChip(d3)
      /\ ~d3.aspm /\ ~d3.l1Mask /\ ~d3.rxdvGate
      /\ (d3.unlocked <=> d2.unlocked) /\ (d3.badWrite <=> d2.badWrite)
      /\ Consistent(d2) => ~d3.oobsSel
  BY <1>3, D3ParaDoes DEF Writes
<1> HIDE DEF d3
<1>5. /\ Writes(a, d3, F)
      /\ ~d3.unlocked /\ ~d3.badWrite /\ ~d3.mutex /\ d3.phyOn
      /\ ~d3.imr /\ ~d3.running /\ ~d3.oobsSel /\ Consistent(d3)
  <2>1. Writes(a, d3, F) /\ Consistent(d2) /\ Consistent(d3)
    BY <1>1, <1>2, <1>3, <1>4 DEF Writes
  <2>2. d2.unlocked = a.unlocked /\ d2.badWrite = a.badWrite
    BY <1>1, <1>2, <1>3 DEF Writes, Fields
  <2>3. d3.imr = d2.imr /\ d3.running = d2.running
    BY <1>3, <1>4 DEF Writes, Fields
  <2>4. d3.mutex = a.mutex /\ d3.phyOn = a.phyOn
    BY <1>1, <2>1 DEF Writes, Fields
  <2> QED BY <1>1, <1>3, <1>4, <2>1, <2>2, <2>3, <2>4 DEF Closed, BroughtUp
<1>6. /\ Writes(d3, d4, G) /\ IsChip(d4)
      /\ ~d4.unlocked /\ (d4.badWrite <=> d3.badWrite)
      /\ d4.wol_enabled => CanWake(d4)
  BY <1>4, <1>5, PowerdownPllDoes DEF Writes
<1> HIDE DEF d4
<1>7. /\ Writes(d4, b, {"driverHere"}) /\ (Consistent(d4) => ~b.driverHere)
  BY <1>6, DriverNotices DEF b
<1>8. /\ IsChip(b) /\ Consistent(b) /\ ~b.driverHere
  BY <1>4, <1>5, <1>6, <1>7 DEF Writes
<1>9. ChipQuiet(b)
  <2>1. /\ b.imr = d3.imr /\ b.running = d3.running /\ b.aspm = d3.aspm
        /\ b.l1Mask = d3.l1Mask /\ b.oobsSel = d3.oobsSel
    BY <1>4, <1>6, <1>7 DEF Writes, Fields
  <2> QED BY <1>4, <1>5, <1>8, <2>1 DEF ChipQuiet
<1>10. Closed(b)
  <2>1. b.unlocked = d4.unlocked /\ b.badWrite = d4.badWrite /\ b.mutex = d3.mutex
    BY <1>4, <1>6, <1>7 DEF Writes, Fields
  <2> QED BY <1>5, <1>6, <2>1 DEF Closed
<1>11. Kept(b, on)
  <2>1. Writes(a, b, F \cup G \cup {"driverHere"})
    BY <1>5, <1>6, <1>7 DEF Writes
  <2>2. /\ b.ramCode = a.ramCode /\ b.phyTable = a.phyTable /\ b.known = a.known
        /\ b.aldps = a.aldps
    BY <1>1, <2>1 DEF Writes, Fields
  <2> QED BY <2>2 DEF BroughtUp, PhyComplete, Kept
<1>12. b.wol_enabled => CanWake(b)
  <2>1. /\ b.wol_enabled = d4.wol_enabled /\ b.phyOn = d4.phyOn
        /\ b.rxdvGate = d4.rxdvGate /\ b.accept = d4.accept /\ b.magic = d4.magic
        /\ b.wol_opts = d4.wol_opts /\ b.mcfg = d4.mcfg /\ b.linkWake = d4.linkWake
    BY <1>6, <1>7 DEF Writes, Fields
  <2> QED BY <1>6, <2>1 DEF CanWake
<1> QED BY <1>0, <1>8, <1>9, <1>10, <1>11, <1>12 DEF Regular

(* rtl812xInit().                                                          *)
LEMMA InitChipDoes ==
  ASSUME NEW a, NEW on, Regular(a, on)
  PROVE  Regular(InitChip(a), on) /\ ~InitChip(a).running
<1> DEFINE d1 == [CheckHwPhyMcuCodeVer(a) EXCEPT !.wol_enabled = a.wol_opts # {}]
           d2 == ExitOob(d1)
           d3 == PowerupPll(d2)
           d4 == HwInit(d3)
           d5 == HwReset(d4)
           b  == RarSet(d5)
<1>0. b = InitChip(a)
  BY DEF InitChip
<1>1. IsChip(a) /\ Consistent(a) /\ Closed(a) /\ Kept(a, on)
  BY DEF Regular
<1>2. Writes(a, d1, {"hasRamCode", "wol_enabled"}) /\ IsChip(d1)
  BY <1>1 DEF Writes, IsChip, Consistent, Fields, CheckHwPhyMcuCodeVer
<1> HIDE DEF b, d1
<1>3. /\ Writes(d1, d2, {"accept", "rxdvGate", "running", "rings", "driverHere", "oob"})
      /\ IsChip(d2)
  BY <1>2, ExitOobDoes DEF Writes
<1> HIDE DEF d2
<1>4. Writes(d2, d3, {"pll", "phyOn"}) /\ IsChip(d3)
  BY <1>3, PllEphyMedium DEF Writes
<1> HIDE DEF d3
<1>5. /\ Writes(d3, d4, {"aspm", "unlocked", "badWrite", "oobsSel", "bps",
                         "linkWake", "magic"}) /\ IsChip(d4)
      /\ d4.badWrite <=> d3.badWrite
  BY <1>4, HwInitDoes DEF Writes
<1> HIDE DEF d4
<1>6. /\ Writes(d4, d5, {"imr", "accept", "rxdvGate", "running", "rings"}) /\ IsChip(d5)
      /\ ~d5.running
  BY <1>5, ResetDoes DEF Writes
<1> HIDE DEF d5
<1>7. Writes(d5, b, {"unlocked"}) /\ ~b.unlocked
  BY <1>6, RarSetDoes DEF b
<1>8. Writes(a, d3, {"hasRamCode", "wol_enabled", "accept", "rxdvGate", "running",
                     "rings", "driverHere", "oob", "pll", "phyOn"})
  BY <1>1, <1>2, <1>3, <1>4 DEF Writes
<1>9. Regular(d3, on)
  BY <1>8, StaysRegular
<1>10. Writes(d3, b, {"aspm", "unlocked", "badWrite", "oobsSel", "bps", "linkWake",
                      "magic", "imr", "accept", "rxdvGate", "running", "rings"})
  BY <1>4, <1>5, <1>6, <1>7 DEF Writes
<1>11. /\ b.badWrite = d4.badWrite /\ b.running = d5.running
  BY <1>5, <1>6, <1>7 DEF Writes, Fields
<1>12. /\ b.mutex = d3.mutex /\ b.check_keep = d3.check_keep /\ b.ramCode = d3.ramCode
       /\ b.phyTable = d3.phyTable /\ b.known = d3.known /\ b.aldps = d3.aldps
       /\ IsChip(b) /\ Consistent(b)
  BY <1>9, <1>10 DEF Writes, Fields, Regular
<1> QED BY <1>0, <1>5, <1>6, <1>7, <1>9, <1>11, <1>12 DEF Regular, Closed, Kept

(* A chip as it is found, and one that has lost its power.                 *)
LEMMA FoundIs ==
  ASSUME NEW mod, NEW ram, NEW on
  PROVE  Regular(Found(mod, ram), on) /\ ~Found(mod, ram).running
<1> DEFINE b == Found(mod, ram)
<1>1. IsChip(b)
  BY DEF Found, IsChip, Fields
<1>2. /\ ~b.unlocked /\ ~b.mutex /\ ~b.check_keep /\ ~b.running /\ ~b.badWrite
      /\ ~b.driverHere /\ ~b.oobsSel /\ ~b.magic /\ ~b.eeePlus /\ ~b.pfm
  BY DEF Found
<1> HIDE DEF b
<1> QED BY <1>1, <1>2 DEF Regular, Closed, Kept, Consistent, b

(* A chip that lost its power is regular: its PHY lost its code, so that   *)
(* it will not be left alone at the next enabling.                         *)
LEMMA PowerLostDoes ==
  ASSUME NEW a, NEW on, Regular(a, on)
  PROVE  Regular(PowerLost(a), on) /\ ~PowerLost(a).running
<1> DEFINE b == PowerLost(a)
<1>1. IsChip(b)
  <2> DEFINE d == Found(a, FALSE)
  <2>1. b = [d EXCEPT !.wol_enabled = a.wol_enabled, !.hasRamCode = a.hasRamCode,
                      !.check_keep = a.check_keep, !.resume_keep = a.resume_keep,
                      !.badWrite = a.badWrite]
    BY DEF PowerLost
  <2>2. IsChip(d)
    BY FoundIs DEF Regular
  <2> HIDE DEF b, d
  <2> QED BY <2>1, <2>2 DEF IsChip, Fields
<1>2. /\ ~b.unlocked /\ ~b.mutex /\ ~b.ramCode /\ ~b.running
      /\ ~b.driverHere /\ ~b.oobsSel /\ ~b.magic /\ ~b.eeePlus /\ ~b.pfm
  BY DEF PowerLost, Found
<1>3. b.badWrite = a.badWrite
  BY DEF PowerLost, Found
<1> HIDE DEF b
<1> QED BY <1>1, <1>2, <1>3 DEF Regular, Closed, Kept, Consistent, b

-----------------------------------------------------------------------------
(* The inductive invariant of the chip and the interface.                  *)

ChipInv == aspm \in BOOLEAN /\ Regular(c, aspm)

(* An enabled interface is attached, powered and brought up, and it alone  *)
(* has interrupts.                                                         *)
EnabledInv ==
  /\ Enabled => /\ phase = "up" /\ attached /\ powered /\ pciOpen /\ irqOn
                /\ c.imr /\ BroughtUp(c, aspm)
  /\ irqOn => Enabled

(* Only an enabled interface has a link, and only with a link it runs.     *)
LinkInv ==
  /\ link # "down" => Enabled /\ Linked(c, Mcast, link = "ten")
  /\ c.running => link # "down"

(* A disabled interface is quiet, and can wake the system once wake on LAN *)
(* is enabled; PME# is not, before it is powered off.                      *)
RestInv ==
  /\ rested => /\ ~Enabled /\ ~irqOn /\ ~timer /\ ~pciOpen /\ ChipQuiet(c)
               /\ c.wol_enabled \/ pme => CanWake(c)
  /\ powered \/ phase = "new" => ~pme
  /\ phase = "new" => ~rested

CoreInv == ChipInv /\ EnabledInv /\ LinkInv /\ RestInv

(* Steps that only the software sees.                                      *)
LEMMA SameChipCore ==
  ASSUME CoreInv, UNCHANGED <<stateFlags, link, irqOn, timer, pciOpen, c, aspm, rested>>,
         Enabled => UNCHANGED <<phase, attached, powered>>,
         powered' \/ phase' = "new" => ~pme',
         phase' = "new" => phase = "new",
         pme' => pme \/ c.wol_enabled
  PROVE  CoreInv'
<1>1. Enabled' = Enabled /\ Mcast' = Mcast
  BY DEF Enabled, Mcast
<1>2. ChipInv'
  BY DEF CoreInv, ChipInv
<1>3. EnabledInv'
  BY <1>1 DEF CoreInv, EnabledInv
<1>4. LinkInv'
  BY <1>1 DEF CoreInv, LinkInv
<1>5. RestInv'
  BY <1>1 DEF CoreInv, RestInv
<1> QED BY <1>2, <1>3, <1>4, <1>5 DEF CoreInv

(* start(), wherever it fails.                                             *)
LEMMA StartCore ==
  ASSUME CoreInv, phase = "new", c' = c \/ c' = InitChip(c), phase' # "new",
         UNCHANGED <<pciOpen, stateFlags, link, irqOn, timer, pme, aspm, rested>>
  PROVE  CoreInv'
<1>1. /\ ~Enabled /\ ~Enabled' /\ ~irqOn /\ link = "down" /\ ~c.running /\ ~rested /\ ~pme
  BY DEF CoreInv, EnabledInv, LinkInv, RestInv, Enabled
<1>2. Regular(c', aspm) /\ ~c'.running
  BY <1>1, InitChipDoes DEF CoreInv, ChipInv
<1>3. ChipInv'
  BY <1>2 DEF CoreInv, ChipInv
<1>4. EnabledInv' /\ LinkInv' /\ RestInv'
  BY <1>1, <1>2 DEF EnabledInv, LinkInv, RestInv
<1> QED BY <1>3, <1>4 DEF CoreInv

(* Whichever label start() ends at, the chip is as found or initialised.   *)
LEMMA StartIsCore ==
  ASSUME CoreInv, Start
  PROVE  CoreInv'
<1> DEFINE Started ==
      /\ phase = "new" /\ phase' # "new" /\ (c' = c \/ c' = InitChip(c))
      /\ UNCHANGED <<pciOpen, stateFlags, link, irqOn, timer, pme, aspm, rested>>
<1> USE DEF EndStart, swVars
<1>1. CASE StartSuperFails
  <2>1. Started
    BY <1>1 DEF StartSuperFails
  <2> QED BY <2>1, StartCore
<1>2. CASE StartProbeFails
  <2>1. Started
    BY <1>2 DEF StartProbeFails
  <2> QED BY <2>1, StartCore
<1>3. CASE StartMediumFails
  <2>1. Started
    BY <1>3 DEF StartMediumFails
  <2> QED BY <2>1, StartCore
<1>4. CASE StartGateFails
  <2>1. Started
    BY <1>4 DEF StartGateFails
  <2> QED BY <2>1, StartCore
<1>5. CASE StartTxFails
  <2>1. Started
    BY <1>5 DEF StartTxFails
  <2> QED BY <2>1, StartCore
<1>6. CASE StartRxFails
  <2>1. Started
    BY <1>6 DEF StartRxFails
  <2> QED BY <2>1, StartCore
<1>7. CASE StartStatFails
  <2>1. Started
    BY <1>7 DEF StartStatFails
  <2> QED BY <2>1, StartCore
<1>8. CASE StartEventsFail
  <2>1. Started
    BY <1>8 DEF StartEventsFail
  <2> QED BY <2>1, StartCore
<1>9. CASE StartAttachFails
  <2>1. Started
    BY <1>9 DEF StartAttachFails
  <2> QED BY <2>1, StartCore
<1>10. CASE StartSucceeds
  <2>1. Started
    BY <1>10 DEF StartSucceeds
  <2> QED BY <2>1, StartCore
<1> QED BY <1>1, <1>2, <1>3, <1>4, <1>5, <1>6, <1>7, <1>8, <1>9, <1>10 DEF Start

(* enable() of the interface.                                              *)
LEMMA EnableInterfaceCore ==
  ASSUME CoreInv, EnableInterface
  PROVE  CoreInv'
<1>1. PICK nway \in BOOLEAN : c' = Enable(SetLinkDown(c), nway, Mcast, aspm)
  BY DEF EnableInterface
<1> DEFINE d == SetLinkDown(c)
<1>2. Regular(d, aspm) /\ Mcast \in BOOLEAN /\ aspm \in BOOLEAN
  BY SetLinkDownDoes DEF CoreInv, ChipInv, Mcast
<1> HIDE DEF d
<1>3. Regular(c', aspm) /\ BroughtUp(c', aspm) /\ c'.imr /\ ~c'.running
  BY <1>1, <1>2, EnableDoes DEF d
<1>4. /\ phase = "up" /\ attached /\ powered /\ Enabled'
      /\ UNCHANGED <<phase, attached, powered, pme, aspm>>
      /\ pciOpen' /\ irqOn' /\ link' = "down" /\ ~rested'
  BY DEF EnableInterface, Ready, fixed, Enabled
<1>5. ChipInv'
  BY <1>2, <1>3, <1>4 DEF ChipInv
<1>6. EnabledInv'
  BY <1>3, <1>4 DEF EnabledInv
<1>7. LinkInv' /\ RestInv'
  BY <1>3, <1>4 DEF LinkInv, RestInv, CoreInv
<1> QED BY <1>5, <1>6, <1>7 DEF CoreInv

(* disable(), called for itself or by systemWillShutdown().                *)
LEMMA DisabledCore ==
  ASSUME CoreInv, Enabled, Disabled, UNCHANGED <<powered, pme, aspm>>, phase' # "new"
  PROVE  CoreInv'
<1>1. PICK linkOk, d0 \in BOOLEAN, wol \in {"none", "ten", "other"} :
        c' = Disable(c, linkOk, d0, wol)
  BY DEF Disabled
<1>2. /\ Regular(c, aspm) /\ BroughtUp(c, aspm) /\ aspm \in BOOLEAN /\ powered /\ ~pme
  BY DEF CoreInv, ChipInv, EnabledInv, RestInv
<1>3. Regular(c', aspm) /\ ChipQuiet(c') /\ (c'.wol_enabled => CanWake(c'))
  BY <1>1, <1>2, DisableDoes
<1>4. ~Enabled' /\ link' = "down" /\ ~timer' /\ ~irqOn' /\ ~pciOpen'
  BY DEF Disabled, Enabled
<1>5. ChipInv'
  BY <1>2, <1>3 DEF ChipInv
<1>6. EnabledInv' /\ LinkInv'
  BY <1>3, <1>4 DEF EnabledInv, LinkInv, ChipQuiet
<1>7. RestInv'
  BY <1>2, <1>3, <1>4 DEF RestInv
<1> QED BY <1>5, <1>6, <1>7 DEF CoreInv

(* selectMedium(), of an interface that is enabled or not.                 *)
LEMMA SelectMediumCore ==
  ASSUME CoreInv, SelectMedium
  PROVE  CoreInv'
<1>1. Regular(c, aspm) /\ aspm \in BOOLEAN
  BY DEF CoreInv, ChipInv
<1>2. /\ Regular(c', aspm) /\ c'.imr /\ ~c'.running
      /\ BroughtUp(c, aspm) => BroughtUp(c', aspm)
  BY <1>1, SetLinkDownDoes DEF SelectMedium
<1>3. /\ UNCHANGED <<phase, attached, powered, pme, aspm, pciOpen, irqOn, Enabled>>
      /\ link' = "down" /\ ~rested'
  BY DEF SelectMedium, fixed, Enabled
<1>4. ChipInv'
  BY <1>1, <1>2, <1>3 DEF ChipInv
<1>5. EnabledInv'
  BY <1>2, <1>3 DEF CoreInv, EnabledInv
<1>6. LinkInv' /\ RestInv'
  BY <1>2, <1>3 DEF CoreInv, LinkInv, RestInv
<1> QED BY <1>4, <1>5, <1>6 DEF CoreInv

(* rtl812xRestart() after its reset, with setLinkDown() or without.        *)
LEMMA RestartCore ==
  ASSUME CoreInv, NEW d, NEW nway, Regular(d, aspm),
         c' = Enable(HwReset(d), nway, Mcast, aspm), link' = "down",
         UNCHANGED <<phase, attached, powered, pme, aspm, pciOpen, stateFlags, irqOn>>,
         rested' => rested, Enabled \/ ~rested'
  PROVE  CoreInv'
<1>1. aspm \in BOOLEAN /\ Mcast \in BOOLEAN
  BY DEF CoreInv, ChipInv, Mcast
<1> DEFINE e == HwReset(d)
<1>2. Regular(e, aspm)
  <2>1. Writes(d, e, {"imr", "accept", "rxdvGate", "running", "rings"})
    BY ResetDoes DEF Regular
  <2> HIDE DEF e
  <2> QED BY <2>1, StaysRegular
<1> HIDE DEF e
<1>3. Regular(c', aspm) /\ BroughtUp(c', aspm) /\ c'.imr /\ ~c'.running
  BY <1>1, <1>2, EnableDoes DEF e
<1>4. ~rested' /\ Enabled' = Enabled
  BY DEF CoreInv, RestInv, Enabled
<1>5. ChipInv'
  BY <1>1, <1>3 DEF ChipInv
<1>6. EnabledInv'
  BY <1>3, <1>4 DEF CoreInv, EnabledInv
<1>7. LinkInv' /\ RestInv'
  BY <1>3, <1>4 DEF CoreInv, LinkInv, RestInv
<1> QED BY <1>5, <1>6, <1>7 DEF CoreInv

(* A new MTU restarts the chip, of an interface that is enabled or not.    *)
LEMMA SetMaxPacketSizeCore ==
  ASSUME CoreInv, SetMaxPacketSize
  PROVE  CoreInv'
<1>1. PICK nway \in BOOLEAN : c' = Enable(HwReset(SetLinkDown(c)), nway, Mcast, aspm)
  BY DEF SetMaxPacketSize
<1>2. Regular(SetLinkDown(c), aspm)
  BY SetLinkDownDoes DEF CoreInv, ChipInv
<1>3. /\ UNCHANGED <<phase, attached, powered, pme, aspm, pciOpen, stateFlags, irqOn>>
      /\ link' = "down" /\ ~rested'
  BY DEF SetMaxPacketSize, fixed
<1> QED BY <1>1, <1>2, <1>3, RestartCore

(* A restart, by the interrupt handler or by the hang check.               *)
LEMMA RestartIsCore ==
  ASSUME CoreInv, Restart
  PROVE  CoreInv'
<1>1. PICK nway \in BOOLEAN : c' = Enable(HwReset(c), nway, Mcast, aspm)
  BY DEF Restart
<1>2. Regular(c, aspm) /\ Enabled
  BY DEF CoreInv, ChipInv, Restart
<1>3. /\ UNCHANGED <<phase, attached, powered, pme, aspm, pciOpen, stateFlags, irqOn>>
      /\ link' = "down" /\ rested' = rested
  BY DEF Restart, fixed
<1> QED BY <1>1, <1>2, <1>3, RestartCore

(* Calls that change the filter or wake on LAN only.                       *)
LEMMA FilterCallCore ==
  ASSUME CoreInv, NEW d, NEW flags, FilterCall(d, flags),
         Writes(c, d, {"accept", "mar", "wol_enabled"}),
         "__ENABLED" \in flags <=> Enabled,
         link # "down" => Receives(d, "__M_CAST" \in flags)
  PROVE  CoreInv'
<1>1. /\ c' = d /\ stateFlags' = flags /\ ~rested'
      /\ UNCHANGED <<phase, attached, powered, pme, aspm, pciOpen, link, irqOn>>
  BY DEF FilterCall, fixed
<1>2. Regular(c, aspm) /\ aspm \in BOOLEAN /\ IsChip(c)
  BY DEF CoreInv, ChipInv, Regular
<1>3. Regular(d, aspm) /\ (BroughtUp(c, aspm) => BroughtUp(d, aspm))
  BY <1>2, StaysRegular, StaysUp
<1>4. /\ d.imr = c.imr /\ d.running = c.running /\ d.rings = c.rings
      /\ d.rxdvGate = c.rxdvGate /\ d.eeePlus = c.eeePlus /\ d.pfm = c.pfm
      /\ d.mcfg = c.mcfg
  BY <1>2 DEF Writes, Fields
<1>5. Enabled' = Enabled /\ (Mcast' <=> "__M_CAST" \in flags)
  BY <1>1 DEF Enabled, Mcast
<1>6. ChipInv'
  BY <1>1, <1>2, <1>3 DEF ChipInv
<1>7. EnabledInv'
  BY <1>1, <1>3, <1>4, <1>5 DEF CoreInv, EnabledInv
<1>8. LinkInv'
  BY <1>1, <1>4, <1>5 DEF CoreInv, LinkInv, Linked, Receives
<1>9. RestInv'
  BY <1>1 DEF CoreInv, RestInv
<1> QED BY <1>6, <1>7, <1>8, <1>9 DEF CoreInv

(* The receive filter is that of the flags whichever call comes last.      *)
LEMMA SetFilterCore ==
  ASSUME CoreInv, SetFilter \/ SetWakeOnMagicPacket
  PROVE  CoreInv'
<1>0. IsChip(c) /\ (link # "down" => Receives(c, Mcast))
  BY DEF CoreInv, ChipInv, Regular, LinkInv, Linked
<1>1. ASSUME NEW on \in BOOLEAN, FilterCall(SetPromiscuousMode(c, on), stateFlags)
      PROVE  CoreInv'
  <2> DEFINE d == SetPromiscuousMode(c, on)
  <2>1. Writes(c, d, {"accept", "mar", "wol_enabled"}) /\ Receives(d, TRUE)
    BY <1>0, FilterDoes DEF Writes
  <2> HIDE DEF d
  <2>2. Receives(d, "__M_CAST" \in stateFlags)
    BY <2>1 DEF Receives
  <2>3. FilterCall(d, stateFlags)
    BY <1>1 DEF d
  <2> QED BY <2>1, <2>2, <2>3, FilterCallCore DEF Enabled
<1>2. ASSUME NEW on \in BOOLEAN, NEW flags, FilterCall(SetMulticastMode(c, on), flags),
             flags = IF on THEN stateFlags \cup {"__M_CAST"}
                     ELSE stateFlags \ {"__M_CAST"}
      PROVE  CoreInv'
  <2> DEFINE d == SetMulticastMode(c, on)
  <2>1. Writes(c, d, {"accept", "mar", "wol_enabled"}) /\ Receives(d, on)
    BY <1>0, FilterDoes DEF Writes
  <2> HIDE DEF d
  <2>2. Receives(d, "__M_CAST" \in flags) /\ ("__ENABLED" \in flags <=> Enabled)
    BY <1>2, <2>1 DEF Receives, Enabled
  <2>3. FilterCall(d, flags)
    BY <1>2 DEF d
  <2> QED BY <2>1, <2>2, <2>3, FilterCallCore
<1>3. ASSUME FilterCall(SetMulticastList(c), stateFlags)
      PROVE  CoreInv'
  <2> DEFINE d == SetMulticastList(c)
  <2>1. Writes(c, d, {"mar"}) /\ d.mar # "none"
    BY <1>0, FilterDoes
  <2> HIDE DEF d
  <2>2. d.accept = c.accept /\ Writes(c, d, {"accept", "mar", "wol_enabled"})
    BY <1>0, <2>1 DEF Writes, Fields
  <2>3. link # "down" => Receives(d, "__M_CAST" \in stateFlags)
    BY <1>0, <2>1, <2>2 DEF Receives, Mcast
  <2>4. FilterCall(d, stateFlags)
    BY <1>3 DEF d
  <2> QED BY <2>2, <2>3, <2>4, FilterCallCore DEF Enabled
<1>4. ASSUME NEW active, FilterCall([c EXCEPT !.wol_enabled = active], stateFlags)
      PROVE  CoreInv'
  <2> DEFINE d == [c EXCEPT !.wol_enabled = active]
  <2>1. Writes(c, d, {"wol_enabled"})
    BY <1>0 DEF Writes, IsChip, Consistent, Fields
  <2> HIDE DEF d
  <2>2. /\ d.accept = c.accept /\ d.mar = c.mar
        /\ Writes(c, d, {"accept", "mar", "wol_enabled"})
    BY <1>0, <2>1 DEF Writes, Fields
  <2>3. link # "down" => Receives(d, "__M_CAST" \in stateFlags)
    BY <1>0, <2>2 DEF Receives, Mcast
  <2>4. FilterCall(d, stateFlags)
    BY <1>4 DEF d
  <2> QED BY <2>2, <2>3, <2>4, FilterCallCore DEF Enabled
<1>5. CASE SetFilter
  <2>1. CASE \E on \in BOOLEAN : FilterCall(SetPromiscuousMode(c, on), stateFlags)
    BY <1>1, <2>1
  <2>2. CASE FilterCall(SetMulticastMode(c, TRUE), stateFlags \cup {"__M_CAST"})
    BY <1>2, <2>2
  <2>3. CASE FilterCall(SetMulticastMode(c, FALSE), stateFlags \ {"__M_CAST"})
    BY <1>2, <2>3
  <2> QED BY <1>3, <1>5, <2>1, <2>2, <2>3 DEF SetFilter
<1>6. CASE SetWakeOnMagicPacket
  BY <1>4, <1>6 DEF SetWakeOnMagicPacket
<1> QED BY <1>5, <1>6

(* A link change is examined: any link may follow any other.               *)
LEMMA LinkChangeCore ==
  ASSUME CoreInv, LinkChange
  PROVE  CoreInv'
<1>1. /\ Enabled /\ ~rested /\ ~rested' /\ Enabled' /\ Mcast' = Mcast
      /\ UNCHANGED <<phase, attached, powered, pme, aspm, pciOpen, irqOn>>
  BY DEF CoreInv, EnabledInv, RestInv, LinkChange, fixed, Enabled, Mcast
<1>2. /\ Regular(c, aspm) /\ BroughtUp(c, aspm) /\ aspm \in BOOLEAN /\ Mcast \in BOOLEAN
  BY <1>1 DEF CoreInv, ChipInv, EnabledInv, Mcast
<1>3. Regular(c', aspm) /\ BroughtUp(c', aspm) /\ c'.imr
      /\ (link' # "down" => Linked(c', Mcast, link' = "ten"))
      /\ (c'.running => link' # "down")
  <2>1. ASSUME NEW now \in {"ten", "fast"}, link' = now,
               c' = [SetLinkUp(LinkOnPatch(c, Mcast, aspm, now = "ten")) EXCEPT !.imr = TRUE]
        PROVE  <1>3!:
    <3> DEFINE ten == now = "ten"
    <3>1. ten \in BOOLEAN /\ link' # "down"
      BY <2>1
    <3>2. c' = [SetLinkUp(LinkOnPatch(c, Mcast, aspm, ten)) EXCEPT !.imr = TRUE]
      BY <2>1
    <3>3. (link' = "ten") = ten
      BY <2>1
    <3> HIDE DEF ten
    <3>4. Regular(c', aspm) /\ c'.imr /\ Linked(c', Mcast, ten) /\ BroughtUp(c', aspm)
      BY <1>2, <3>1, <3>2, SetLinkUpDoes
    <3> QED BY <3>1, <3>3, <3>4
  <2>2. CASE link' = "down" /\ c' = SetLinkDown(LinkDownPatch(c))
    <3> DEFINE d == LinkDownPatch(c)
    <3>1. Regular(d, aspm) /\ BroughtUp(d, aspm)
      <4>1. Writes(c, d, {"eeePlus", "pfm", "imr", "accept", "rxdvGate", "running",
                          "rings"}) /\ IsChip(c)
        BY <1>2, LinkDownPatchDoes DEF Regular
      <4> HIDE DEF d
      <4> QED BY <1>2, <4>1, StaysRegular, StaysUp
    <3> HIDE DEF d
    <3>2. Regular(c', aspm) /\ BroughtUp(c', aspm) /\ c'.imr /\ ~c'.running
      BY <2>2, <3>1, SetLinkDownDoes DEF d
    <3> QED BY <2>2, <3>2
  <2> QED BY <2>1, <2>2 DEF LinkChange
<1>4. ChipInv' /\ LinkInv'
  BY <1>1, <1>2, <1>3 DEF ChipInv, LinkInv
<1>5. EnabledInv'
  BY <1>1, <1>3 DEF CoreInv, EnabledInv
<1>6. RestInv'
  BY <1>1 DEF CoreInv, RestInv
<1> QED BY <1>4, <1>5, <1>6 DEF CoreInv

(* Power is lost only while the interface is disabled.                     *)
LEMMA PowerLossCore ==
  ASSUME CoreInv, PowerLoss
  PROVE  CoreInv'
<1>1. /\ c' = PowerLost(c) /\ ~rested' /\ ~powered
      /\ UNCHANGED <<phase, attached, powered, pme, aspm, pciOpen, link, irqOn, Enabled>>
  BY DEF PowerLoss, fixed, Enabled
<1>2. ~Enabled /\ link = "down" /\ aspm \in BOOLEAN
  BY <1>1 DEF CoreInv, EnabledInv, LinkInv, ChipInv
<1>3. Regular(c', aspm) /\ ~c'.running
  BY <1>1, PowerLostDoes DEF CoreInv, ChipInv
<1>4. ChipInv' /\ LinkInv'
  BY <1>1, <1>2, <1>3 DEF ChipInv, LinkInv
<1>5. EnabledInv' /\ RestInv'
  BY <1>1, <1>2 DEF CoreInv, EnabledInv, RestInv
<1> QED BY <1>4, <1>5 DEF CoreInv

(* The timer stops itself without a link.                                  *)
LEMMA TimerDownCore ==
  ASSUME CoreInv, TimerDown
  PROVE  CoreInv'
<1>1. /\ ~timer'
      /\ UNCHANGED <<phase, attached, powered, pme, aspm, pciOpen, stateFlags, link,
                     irqOn, c, rested>>
  BY DEF TimerDown, fixed
<1>2. Enabled' = Enabled /\ Mcast' = Mcast
  BY <1>1 DEF Enabled, Mcast
<1>3. ChipInv' /\ EnabledInv'
  BY <1>1, <1>2 DEF CoreInv, ChipInv, EnabledInv
<1>4. LinkInv' /\ RestInv'
  BY <1>1, <1>2 DEF CoreInv, LinkInv, RestInv
<1> QED BY <1>3, <1>4 DEF CoreInv

(* Every step keeps the invariant of the chip and the interface.           *)
LEMMA CoreStep == CoreInv /\ [Next]_vars => CoreInv'
<1> SUFFICES ASSUME CoreInv, [Next]_vars PROVE CoreInv'
  OBVIOUS
<1>1. CASE Start
  BY <1>1, StartIsCore
<1>2. CASE EnableInterface
  BY <1>2, EnableInterfaceCore
<1>3. CASE DisableInterface
  BY <1>3, DisabledCore DEF DisableInterface, Ready, fixed
<1>4. CASE SelectMedium
  BY <1>4, SelectMediumCore
<1>5. CASE SetMaxPacketSize
  BY <1>5, SetMaxPacketSizeCore
<1>6. CASE SetFilter \/ SetWakeOnMagicPacket
  BY <1>6, SetFilterCore
<1>7. CASE PciError \/ TimerHang
  BY <1>7, RestartIsCore DEF PciError, TimerHang
<1>8. CASE LinkChange
  BY <1>8, LinkChangeCore
<1>9. CASE TimerDown
  BY <1>9, TimerDownCore
<1>10. CASE TimerTick \/ StatRun \/ StatEnd
  BY <1>10, SameChipCore DEF TimerTick, StatRun, StatEnd, fixed, CoreInv, RestInv
<1>11. CASE PowerOff
  <2>1. pme' => c.wol_enabled
    BY <1>11 DEF PowerOff
  <2> QED BY <1>11, <2>1, SameChipCore DEF PowerOff, swVars
<1>12. CASE PowerOn
  <2>1. ~Enabled
    BY <1>12 DEF PowerOn, CoreInv, EnabledInv
  <2> QED BY <1>12, <2>1, SameChipCore DEF PowerOn, swVars
<1>13. CASE PowerLoss
  BY <1>13, PowerLossCore
<1>14. CASE Shutdown
  <2>1. CASE Enabled
    BY <1>14, <2>1, DisabledCore DEF Shutdown
  <2>2. CASE ~Enabled
    BY <1>14, <2>2, SameChipCore DEF Shutdown, CoreInv, RestInv
  <2> QED BY <2>1, <2>2
<1>15. CASE StopDetach
  BY <1>15, SameChipCore DEF StopDetach, CoreInv, RestInv
<1>16. CASE StopFree \/ Free
  <2>1. ~Enabled
    BY <1>16 DEF StopFree, Free, CoreInv, EnabledInv
  <2> QED BY <1>16, <2>1, SameChipCore DEF StopFree, Free, ReleaseAll, CoreInv, RestInv
<1>17. CASE UNCHANGED vars
  BY <1>17, SameChipCore DEF vars, swVars, CoreInv, RestInv
<1> QED BY <1>1, <1>2, <1>3, <1>4, <1>5, <1>6, <1>7, <1>8, <1>9, <1>10, <1>11,
           <1>12, <1>13, <1>14, <1>15, <1>16, <1>17 DEF Next

(* It holds of a chip that was just found.                                 *)
LEMMA CoreInit == Init => CoreInv
<1> SUFFICES ASSUME Init PROVE CoreInv
  OBVIOUS
<1>1. PICK mod \in Models, ram \in BOOLEAN : c = Found(mod, ram)
  BY DEF Init
<1>2. Regular(c, aspm) /\ ~c.running
  BY <1>1, FoundIs
<1>3. aspm \in BOOLEAN /\ ~Enabled /\ ~irqOn /\ link = "down" /\ ~rested /\ ~pme
  BY DEF Init, Enabled
<1> QED BY <1>2, <1>3 DEF CoreInv, ChipInv, EnabledInv, LinkInv, RestInv

(* The invariant of the chip and the interface holds for every chip.       *)
THEOREM CoreInvariant == Spec => []CoreInv
BY CoreInit, CoreStep, PTL DEF Spec

(* The Cfg9346 lock and the out-of-band mutex are closed after every call  *)
(* and no Config register was written under a closed lock, on every chip.  *)
THEOREM LocksClosed == Spec => []HandshakesClosed
<1>1. CoreInv => HandshakesClosed
  BY DEF CoreInv, ChipInv, Regular, Closed, HandshakesClosed
<1> QED BY <1>1, CoreInvariant, PTL

(* An enabled interface has a chip that was brought up completely, and one *)
(* with a link is ready for frames, on every chip.                         *)
THEOREM ComesUpComplete == Spec => []ConfiguredWhenEnabled
<1>1. ASSUME CoreInv PROVE ConfiguredWhenEnabled
  <2>1. Enabled => ChipConfigured
    BY <1>1 DEF CoreInv, EnabledInv, BroughtUp, PhyComplete, ChipConfigured
  <2>2. link # "down" => Enabled /\ ReadyForFrames
    BY <1>1 DEF CoreInv, LinkInv, Linked, Receives, ReadyForFrames
  <2> QED BY <2>1, <2>2 DEF ConfiguredWhenEnabled
<1> QED BY <1>1, CoreInvariant, PTL

(* A disabled interface is quiet, and can wake the system when it is to.   *)
THEOREM GoesDownQuiet == Spec => []QuietWhenDisabled
<1>1. ASSUME CoreInv PROVE QuietWhenDisabled
  BY <1>1 DEF CoreInv, RestInv, ChipQuiet, CanWake, QuietWhenDisabled, Quiet, Wakeable
<1> QED BY <1>1, CoreInvariant, PTL

-----------------------------------------------------------------------------
(* What start() acquires.                                                  *)

(* The steps of the setup functions as sets, for the provers.              *)
LEMMA StepSets ==
  /\ TxRes = {"txBufArrayMem", "txBufDesc", "txPrepared", "txDescDmaCmd", "txMapped",
              "txMbufCursor"}
  /\ RxRes = {"rxBufArrayMem", "rxBufDesc", "rxPrepared", "rxDescDmaCmd", "rxMapped",
              "rxPool", "rxMbufs", "rxMap"}
  /\ StatRes = {"statCall", "statBufDesc", "statPrepared", "statDescDmaCmd",
                "statMapped", "statAddr"}
  /\ EventRes = {"txQueue", "interruptSource", "timerSource"}
<1>1. /\ DOMAIN TxSteps = 1 .. 6 /\ DOMAIN RxSteps = 1 .. 8
      /\ DOMAIN StatSteps = 1 .. 6 /\ DOMAIN EventSteps = 1 .. 3
  BY DEF TxSteps, RxSteps, StatSteps, EventSteps
<1>2. TxRes = {"txBufArrayMem", "txBufDesc", "txPrepared", "txDescDmaCmd", "txMapped",
               "txMbufCursor"}
  BY <1>1 DEF TxRes, Of, TxSteps
<1>3. RxRes = {"rxBufArrayMem", "rxBufDesc", "rxPrepared", "rxDescDmaCmd", "rxMapped",
               "rxPool", "rxMbufs", "rxMap"}
  BY <1>1 DEF RxRes, Of, RxSteps
<1>4. StatRes = {"statCall", "statBufDesc", "statPrepared", "statDescDmaCmd",
                 "statMapped", "statAddr"}
  BY <1>1 DEF StatRes, Of, StatSteps
<1>5. EventRes = {"txQueue", "interruptSource", "timerSource"}
  BY <1>1 DEF EventRes, Of, EventSteps
<1> QED BY <1>2, <1>3, <1>4, <1>5

(* What can only be undone through another pointer has that pointer; and   *)
(* no pointer dangles but two.                                             *)
Owned(r) ==
  /\ r["txPrepared"] = "held" => r["txBufDesc"] # "null"
  /\ r["txMapped"] = "held" => r["txDescDmaCmd"] # "null"
  /\ r["rxPrepared"] = "held" => r["rxBufDesc"] # "null"
  /\ r["rxMapped"] = "held" => r["rxDescDmaCmd"] # "null"
  /\ r["rxMbufs"] = "held" => r["rxBufArrayMem"] # "null"
  /\ r["statPrepared"] = "held" => r["statBufDesc"] # "null"
  /\ r["statMapped"] = "held" => r["statDescDmaCmd"] # "null"
  /\ r["statAddr"] = "held" => r["statDescDmaCmd"] # "null"
  /\ r["interruptSource"] = "held" => r["workLoop"] # "null"
  /\ r["timerSource"] = "held" => r["workLoop"] # "null"
  /\ r["rxMap"] = "held" => vtd

Sound(r) ==
  /\ r \in [Resources -> {"null", "held", "dangling"}]
  /\ \A x \in Resources : r[x] = "dangling" => x \in {"mediumDict", "statCall"}
  /\ Owned(r)

Vacant(r, S) == \A x \in S : r[x] = "null"
AllHeld(r, S) == \A x \in S : r[x] = "held" \/ (x = "rxMap" /\ ~vtd)

(* What a step of a setup function has acquired is among its resources.    *)
LEMMA AcquiredWithin ==
  ASSUME NEW steps, NEW n \in Nat, DOMAIN steps = 1 .. n, NEW k \in FailingSteps(steps)
  PROVE  Acquired(steps, k) \subseteq Of(steps)
BY DEF Acquired, Of, FailingSteps

(* A setup function that fails has acquired nothing.                       *)
LEMMA UnwindIsNothing ==
  ASSUME NEW r, NEW steps, NEW n \in Nat, DOMAIN steps = 1 .. n,
         NEW k \in FailingSteps(steps), Sound(r), Of(steps) \subseteq Resources,
         Vacant(r, Of(steps))
  PROVE  Unwind(r, steps, k) = r
<1> DEFINE A == Acquired(steps, k)
<1>1. A \subseteq Of(steps)
  BY AcquiredWithin
<1> HIDE DEF A
<1>2. /\ Release(Hold(r, A), A) = [x \in Resources |-> IF x \in A THEN "null" ELSE r[x]]
      /\ \A x \in A : r[x] = "null"
  BY <1>1 DEF Release, Hold, Vacant
<1>3. r = [x \in Resources |-> r[x]]
  BY DEF Sound
<1>4. Release(Hold(r, A), A) = r
  BY <1>2, <1>3
<1> QED BY <1>4 DEF Unwind, A

(* The labels of start() let go of what was prepared and mapped before the *)
(* buffer or the command it was prepared with.                             *)
LEMMA ReleaseSound ==
  ASSUME NEW r, NEW S, Sound(r),
         S \in {{"commandGate"}, {"mediumDict", "pciDevice"}, FreedTx(r), FreedRx(r),
                FreedStat(r)}
  PROVE  Sound(Release(r, S))
<1> DEFINE q == Release(r, S)
<1>1. /\ q = [x \in Resources |-> IF x \in S THEN "null" ELSE r[x]]
      /\ q \in [Resources -> {"null", "held", "dangling"}]
      /\ \A x \in Resources : q[x] = "dangling" => x \in {"mediumDict", "statCall"}
  BY DEF Release, Sound
<1>2. \A x \in Resources : q[x] = IF x \in S THEN "null" ELSE r[x]
  BY <1>1
<1> HIDE DEF q
<1>3. Owned(q)
  <2>1. CASE S \in {{"commandGate"}, {"mediumDict", "pciDevice"}}
    BY <1>2, <2>1, StepSets DEF Owned, Sound, Resources
  <2>2. CASE S = FreedTx(r)
    BY <1>2, <2>2, StepSets DEF Owned, Sound, Resources, FreedTx, Within
  <2>3. CASE S = FreedRx(r)
    BY <1>2, <2>3, StepSets DEF Owned, Sound, Resources, FreedRx, Within
  <2>4. CASE S = FreedStat(r)
    BY <1>2, <2>4, StepSets DEF Owned, Sound, Resources, FreedStat, Within
  <2> QED BY <2>1, <2>2, <2>3, <2>4
<1> QED BY <1>1, <1>3 DEF Sound, q

(* The setup functions acquire the buffer or the command first.            *)
LEMMA HoldSound ==
  ASSUME NEW r, NEW S, Sound(r),
         \/ S \in {{}, {"workLoop"}, {"workLoop", "mapper"}, {"baseMap"},
                   {"pciDevice", "mediumDict", "commandGate"}, TxRes, StatRes,
                   RxRes \ {"rxMap"}}
         \/ S = RxRes /\ vtd
         \/ S = EventRes /\ r["workLoop"] # "null"
  PROVE  Sound(Hold(r, S))
<1> DEFINE q == Hold(r, S)
<1>1. /\ q = [x \in Resources |-> IF x \in S THEN "held" ELSE r[x]]
      /\ q \in [Resources -> {"null", "held", "dangling"}]
      /\ \A x \in Resources : q[x] = "dangling" => x \in {"mediumDict", "statCall"}
  BY DEF Hold, Sound
<1>2. \A x \in Resources : q[x] = IF x \in S THEN "held" ELSE r[x]
  BY <1>1
<1> HIDE DEF q
<1>3. Owned(q)
  <2>1. CASE S \in {{}, {"workLoop"}, {"workLoop", "mapper"}, {"baseMap"},
                    {"pciDevice", "mediumDict", "commandGate"}}
    BY <1>2, <2>1, StepSets DEF Owned, Sound, Resources
  <2>2. CASE S = TxRes
    BY <1>2, <2>2, StepSets DEF Owned, Sound, Resources
  <2>3. CASE S = StatRes
    BY <1>2, <2>3, StepSets DEF Owned, Sound, Resources
  <2>4. CASE S = RxRes \ {"rxMap"} \/ (S = RxRes /\ vtd)
    BY <1>2, <2>4, StepSets DEF Owned, Sound, Resources
  <2>5. CASE S = EventRes /\ r["workLoop"] # "null"
    BY <1>2, <2>5, StepSets DEF Owned, Sound, Resources
  <2> QED BY <2>1, <2>2, <2>3, <2>4, <2>5
<1> QED BY <1>1, <1>3 DEF Sound, q

(* From one label of start() to the next, from nothing to everything.      *)
LEMMA Stages ==
  ASSUME vtd \in BOOLEAN, Sound(res), Vacant(res, Resources)
  PROVE  /\ Sound(Opened) /\ Sound(Mapped) /\ Sound(Gated)
         /\ Sound(TxUp) /\ Sound(RxUp) /\ Sound(StatUp) /\ Sound(Hold(StatUp, EventRes))
         /\ Vacant(Gated, TxRes) /\ Vacant(TxUp, RxRes)
         /\ Vacant(RxUp, StatRes) /\ Vacant(StatUp, EventRes)
         /\ AllHeld(Hold(StatUp, EventRes), TxRes \cup RxRes \cup StatRes)
<1>1. Sound(Opened) /\ (\A x \in Resources : Opened[x] =
                          IF x \in {"workLoop", "mapper"} THEN "held" ELSE "null")
  BY HoldSound DEF Opened, Hold, Vacant
<1> HIDE DEF Opened
<1>2. Sound(Mapped) /\ (\A x \in Resources : Mapped[x] =
                          IF x = "baseMap" THEN "held" ELSE Opened[x])
  BY <1>1, HoldSound DEF Mapped, Hold
<1>3. Sound(Gated) /\ (\A x \in Resources : Gated[x] =
                         IF x \in {"pciDevice", "mediumDict", "commandGate"} THEN "held"
                         ELSE Mapped[x])
  BY <1>2, HoldSound DEF Gated, Hold
<1>4. Sound(TxUp) /\ (\A x \in Resources : TxUp[x] =
                        IF x \in TxRes THEN "held" ELSE Gated[x])
  BY <1>3, HoldSound DEF TxUp, Hold
<1> DEFINE R == IF vtd THEN RxRes ELSE RxRes \ {"rxMap"}
<1>5. Sound(RxUp) /\ (\A x \in Resources : RxUp[x] =
                        IF x \in R THEN "held" ELSE TxUp[x])
  <2>1. RxUp = Hold(TxUp, R) /\ (R = RxRes \ {"rxMap"} \/ (R = RxRes /\ vtd))
    BY DEF RxUp
  <2> HIDE DEF R
  <2> QED BY <1>4, <2>1, HoldSound DEF Hold
<1>6. Sound(StatUp) /\ (\A x \in Resources : StatUp[x] =
                          IF x \in StatRes THEN "held" ELSE RxUp[x])
  BY <1>5, HoldSound DEF StatUp, Hold
<1>7. StatUp["workLoop"] = "held"
  BY <1>1, <1>2, <1>3, <1>4, <1>5, <1>6, StepSets DEF Resources
<1>8. Sound(Hold(StatUp, EventRes))
      /\ (\A x \in Resources : Hold(StatUp, EventRes)[x] =
            IF x \in EventRes THEN "held" ELSE StatUp[x])
  BY <1>6, <1>7, HoldSound DEF Hold
<1>9. Vacant(Gated, TxRes)
  BY <1>1, <1>2, <1>3, StepSets DEF Vacant, Resources
<1>10. Vacant(TxUp, RxRes)
  BY <1>1, <1>2, <1>3, <1>4, StepSets DEF Vacant, Resources
<1>11. Vacant(RxUp, StatRes)
  BY <1>1, <1>2, <1>3, <1>4, <1>5, StepSets DEF Vacant, Resources
<1>12. Vacant(StatUp, EventRes)
  BY <1>1, <1>2, <1>3, <1>4, <1>5, <1>6, StepSets DEF Vacant, Resources
<1>13. AllHeld(Hold(StatUp, EventRes), TxRes \cup RxRes \cup StatRes)
  BY <1>4, <1>5, <1>6, <1>8 DEF AllHeld, Resources
<1> QED BY <1>1, <1>2, <1>3, <1>4, <1>5, <1>6, <1>8, <1>9, <1>10, <1>11, <1>12, <1>13

(* The labels that undo what is left of a failed start().                  *)
LEMMA LabelsSound ==
  ASSUME NEW r, Sound(r)
  PROVE  Sound(ErrorGate(Release(r, {"commandGate"}))) /\ Sound(ErrorDma1(r))
         /\ Sound(ErrorDma2(r)) /\ Sound(ErrorDma3(r)) /\ Sound(ErrorSrc(r))
<1>1. ASSUME NEW q, Sound(q) PROVE Sound(ErrorGate(q))
  BY <1>1, ReleaseSound DEF ErrorGate
<1>2. ASSUME NEW q, Sound(q) PROVE Sound(ErrorDma1(q))
  BY <1>1, <1>2, ReleaseSound DEF ErrorDma1
<1>3. ASSUME NEW q, Sound(q) PROVE Sound(ErrorDma2(q))
  BY <1>2, <1>3, ReleaseSound DEF ErrorDma2
<1>4. ASSUME NEW q, Sound(q) PROVE Sound(ErrorDma3(q))
  BY <1>3, <1>4, ReleaseSound DEF ErrorDma3
<1>5. Sound(ErrorSrc(r))
  BY <1>4, ReleaseSound DEF ErrorSrc
<1> QED BY <1>1, <1>2, <1>3, <1>4, <1>5, ReleaseSound

(* The two pointers that are kept when what they point to is freed.        *)
LEMMA DangleSound ==
  ASSUME NEW r, Sound(r), NEW x \in {"mediumDict", "statCall"}
  PROVE  Sound(Dangle(r, x))
<1>1. Dangle(r, x) = [r EXCEPT ![x] = "dangling"] /\ x \in Resources
  BY StepSets DEF Dangle, Resources
<1>2. \A y \in Resources : Dangle(r, x)[y] = IF y = x THEN "dangling" ELSE r[y]
  BY <1>1 DEF Sound
<1>3. Dangle(r, x) \in [Resources -> {"null", "held", "dangling"}]
  BY <1>1 DEF Sound
<1>4. Owned(Dangle(r, x))
  BY <1>2, StepSets DEF Owned, Sound, Resources
<1> QED BY <1>2, <1>3, <1>4 DEF Sound

-----------------------------------------------------------------------------
(* The inductive invariant of the resources.                               *)

RingRes == TxRes \cup RxRes \cup StatRes

(* There is an interface only as long as the rings and their buffers are   *)
(* there, and a statistics call only as long as there is its buffer.       *)
ResInv ==
  /\ vtd \in BOOLEAN
  /\ Sound(res)
  /\ phase = "new" => Vacant(res, Resources) /\ stat = "idle"
  /\ attached => phase \in {"up", "shut"} /\ AllHeld(res, RingRes)
  /\ stat # "idle" => res["statBufDesc"] = "held"
  /\ NothingLeaked
  /\ KnownFaults

(* What start() ends with, wherever it fails.                              *)
LEMMA StartRes ==
  ASSUME ResInv, phase = "new", NEW r, Sound(r), res' = r, phase' \in {"up", "off"},
         attached' => phase' = "up" /\ AllHeld(r, RingRes),
         NEW bad, faults' = faults \cup bad,
         bad \subseteq {<<"read", "rtlChipInfos">>, <<"null", "mediumDict">>},
         UNCHANGED <<stat, vtd>>
  PROVE  ResInv'
<1>1. KnownFaults'
  BY DEF ResInv, KnownFaults
<1>2. stat' = "idle" /\ vtd' \in BOOLEAN /\ phase' # "new" /\ phase' # "freed"
  BY DEF ResInv
<1>3. NothingLeaked'
  BY <1>2 DEF NothingLeaked
<1>4. attached' => phase' \in {"up", "shut"} /\ AllHeld(res, RingRes)'
  BY DEF AllHeld, RingRes
<1>5. Sound(res)'
  BY DEF Sound, Owned
<1> QED BY <1>1, <1>2, <1>3, <1>4, <1>5 DEF ResInv

(* Wherever start() fails, its labels keep what is held sound.             *)
LEMMA StartIsRes ==
  ASSUME ResInv, Start
  PROVE  ResInv'
<1>1. /\ phase = "new" /\ ~attached /\ Sound(res) /\ Vacant(res, Resources)
      /\ vtd \in BOOLEAN
  BY DEF ResInv, Start, StartSuperFails, StartProbeFails, StartMediumFails,
         StartGateFails, StartTxFails, StartRxFails, StartStatFails, StartEventsFail,
         StartAttachFails, StartSucceeds
<1>2. /\ Sound(Opened) /\ Sound(Mapped) /\ Sound(Gated)
      /\ Sound(TxUp) /\ Sound(RxUp) /\ Sound(StatUp) /\ Sound(Hold(StatUp, EventRes))
      /\ Vacant(Gated, TxRes) /\ Vacant(TxUp, RxRes)
      /\ Vacant(RxUp, StatRes) /\ Vacant(StatUp, EventRes)
      /\ AllHeld(Hold(StatUp, EventRes), RingRes)
  BY <1>1, Stages DEF RingRes
<1>3. ASSUME NEW started, NEW r, NEW chip, NEW bad, Sound(r),
             EndStart(started, r, chip, bad),
             bad \subseteq {<<"read", "rtlChipInfos">>, <<"null", "mediumDict">>}
      PROVE  ResInv'
  <2>1. /\ res' = r /\ faults' = faults \cup bad /\ phase' \in {"up", "off"}
        /\ ~attached' /\ UNCHANGED <<stat, vtd>>
    BY <1>1, <1>3 DEF EndStart, swVars
  <2> QED BY <1>1, <1>3, <2>1, StartRes
<1>4. CASE StartSuperFails
  <2>1. PICK S \in SUBSET {"workLoop"} : EndStart(FALSE, Hold(res, S), c, {})
    BY <1>4 DEF StartSuperFails
  <2>2. S \in {{}, {"workLoop"}}
    OBVIOUS
  <2>3. Sound(Hold(res, S))
    BY <1>1, <2>2, HoldSound
  <2> QED BY <1>3, <2>1, <2>3
<1>5. CASE StartProbeFails
  <2>1. Sound(Hold(res, {"workLoop"}))
    BY <1>1, HoldSound
  <2> QED BY <1>2, <1>3, <1>5, <2>1 DEF StartProbeFails
<1>6. CASE StartMediumFails
  <2>1. Sound(Dangle(Mapped, "mediumDict"))
    BY <1>2, DangleSound
  <2> QED BY <1>2, <1>3, <1>6, <2>1 DEF StartMediumFails
<1>7. CASE StartGateFails
  BY <1>2, <1>3, <1>7, LabelsSound DEF StartGateFails
<1>8. CASE StartTxFails
  <2>1. PICK k \in FailingSteps(TxSteps) :
          EndStart(TRUE, ErrorDma1(Unwind(Gated, TxSteps, k)), InitChip(c), {})
    BY <1>8 DEF StartTxFails
  <2>2. DOMAIN TxSteps = 1 .. 6 /\ Of(TxSteps) = TxRes /\ TxRes \subseteq Resources
    BY DEF TxSteps, TxRes, Resources
  <2>3. Unwind(Gated, TxSteps, k) = Gated
    BY <1>2, <2>2, UnwindIsNothing
  <2>4. Sound(ErrorDma1(Unwind(Gated, TxSteps, k)))
    BY <1>2, <2>3, LabelsSound
  <2> QED BY <1>3, <2>1, <2>4
<1>9. CASE StartRxFails
  <2>1. PICK k \in FailingSteps(RxSteps) :
          EndStart(TRUE, ErrorDma2(RxUnwind(TxUp, k)), InitChip(c), {})
    BY <1>9 DEF StartRxFails
  <2>2. DOMAIN RxSteps = 1 .. 8 /\ Of(RxSteps) = RxRes /\ RxRes \subseteq Resources
    BY DEF RxSteps, RxRes, Resources
  <2>3. CASE RxSteps[k] = "rxMap"
    <3>1. k = 8
      BY <2>2, <2>3 DEF FailingSteps, RxSteps
    <3>2. Acquired(RxSteps, k) = RxRes \ {"rxMap"}
      BY <3>1, StepSets DEF Acquired, RxSteps
    <3>3. Sound(RxUnwind(TxUp, k))
      BY <1>2, <2>3, <3>2, HoldSound DEF RxUnwind
    <3> QED BY <1>3, <2>1, <3>3, LabelsSound
  <2>4. CASE RxSteps[k] # "rxMap"
    <3>1. RxUnwind(TxUp, k) = TxUp
      BY <1>2, <2>2, <2>4, UnwindIsNothing DEF RxUnwind
    <3>2. Sound(ErrorDma2(RxUnwind(TxUp, k)))
      BY <1>2, <3>1, LabelsSound
    <3> QED BY <1>3, <2>1, <3>2
  <2> QED BY <2>3, <2>4
<1>10. CASE StartStatFails
  <2>1. PICK k \in FailingSteps(StatSteps) :
          EndStart(TRUE, ErrorDma3(StatUnwind(RxUp, k)), InitChip(c), {})
    BY <1>10 DEF StartStatFails
  <2>2. /\ DOMAIN StatSteps = 1 .. 6 /\ Of(StatSteps) = StatRes
        /\ StatRes \subseteq Resources
    BY DEF StatSteps, StatRes, Resources
  <2>3. Unwind(RxUp, StatSteps, k) = RxUp
    BY <1>2, <2>2, UnwindIsNothing
  <2>4. StatUnwind(RxUp, k) \in {RxUp, Dangle(RxUp, "statCall")}
    BY <2>3 DEF StatUnwind
  <2>5. Sound(StatUnwind(RxUp, k))
    BY <1>2, <2>4, DangleSound
  <2> QED BY <1>3, <2>1, <2>5, LabelsSound
<1>11. CASE StartEventsFail
  <2>1. PICK k \in FailingSteps(EventSteps) :
          EndStart(TRUE, ErrorSrc(Unwind(StatUp, EventSteps, k)), InitChip(c), {})
    BY <1>11 DEF StartEventsFail
  <2>2. /\ DOMAIN EventSteps = 1 .. 3 /\ Of(EventSteps) = EventRes
        /\ EventRes \subseteq Resources
    BY DEF EventSteps, EventRes, Resources
  <2>3. Unwind(StatUp, EventSteps, k) = StatUp
    BY <1>2, <2>2, UnwindIsNothing
  <2>4. Sound(ErrorSrc(Unwind(StatUp, EventSteps, k)))
    BY <1>2, <2>3, LabelsSound
  <2> QED BY <1>3, <2>1, <2>4
<1>12. CASE StartAttachFails
  <2>1. Sound(ErrorSrc(Hold(StatUp, EventRes)))
    BY <1>2, LabelsSound
  <2> QED BY <1>3, <1>12, <2>1 DEF StartAttachFails
<1>13. CASE StartSucceeds
  <2>1. /\ res' = Hold(StatUp, EventRes) /\ phase' = "up" /\ faults' = faults \cup {}
        /\ UNCHANGED <<stat, vtd>>
    BY <1>13 DEF StartSucceeds
  <2> QED BY <1>1, <1>2, <2>1, StartRes
<1> QED BY <1>4, <1>5, <1>6, <1>7, <1>8, <1>9, <1>10, <1>11, <1>12, <1>13 DEF Start

(* Calls after start() that free nothing.                                  *)
LEMMA SameRes ==
  ASSUME ResInv, UNCHANGED <<res, vtd>>, attached' => attached,
         phase' = phase \/ (phase = "up" /\ phase' = "shut")
           \/ (phase = "up" /\ phase' = "stopping" /\ ~attached'),
         stat' = stat \/ stat' = "idle" \/ (stat' = "running" /\ stat = "pending")
           \/ (stat' = "pending" /\ attached),
         NEW bad, faults' = faults \cup bad,
         bad \subseteq {<<"null", "commandGate">>, <<"null", "mmio">>,
                        <<"use", "netStats">>}
  PROVE  ResInv'
<1>1. KnownFaults'
  BY DEF ResInv, KnownFaults
<1>2. NothingLeaked'
  BY DEF ResInv, NothingLeaked
<1>3. Sound(res)' /\ vtd' \in BOOLEAN
  BY DEF ResInv, Sound, Owned
<1>4. attached' => phase' \in {"up", "shut"} /\ AllHeld(res, RingRes)'
  BY DEF ResInv, AllHeld, RingRes
<1>5. attached => res["statBufDesc"] = "held"
  BY StepSets DEF ResInv, AllHeld, RingRes
<1>6. stat' # "idle" => res'["statBufDesc"] = "held"
  BY <1>5 DEF ResInv
<1>7. phase' = "new" => Vacant(res, Resources)' /\ stat' = "idle"
  BY DEF ResInv, Vacant
<1> QED BY <1>1, <1>2, <1>3, <1>4, <1>6, <1>7 DEF ResInv

(* free() leaves what start() has acquired to nobody.                      *)
LEMMA FreedAll ==
  ASSUME NEW r, Sound(r)
  PROVE  LET q == Release(r, Freed(r))
         IN  Sound(q) /\ {x \in Resources : q[x] = "held"} \subseteq {"mapper"}
<1> DEFINE S == Freed(r)
           q == Release(r, S)
<1>1. /\ q \in [Resources -> {"null", "held", "dangling"}]
      /\ \A x \in Resources : q[x] = IF x \in S THEN "null" ELSE r[x]
  BY DEF Release, Sound
<1> HIDE DEF q
<1>2. \A x \in Resources \ {"mapper"} : r[x] = "held" => x \in S
  <2>1. \A x \in TxRes : r[x] = "held" => x \in FreedTx(r)
    BY StepSets DEF FreedTx, Within, Sound, Owned, Resources
  <2>2. \A x \in RxRes : r[x] = "held" => x \in FreedRx(r)
    BY StepSets DEF FreedRx, Within, Sound, Owned, Resources
  <2>3. \A x \in StatRes : r[x] = "held" => x \in FreedStat(r)
    BY StepSets DEF FreedStat, Within, Sound, Owned, Resources
  <2>4. \A x \in Resources \ ({"mapper"} \cup TxRes \cup RxRes \cup StatRes) :
          r[x] = "held" => x \in S
    BY StepSets DEF Freed, Within, Sound, Owned, Resources
  <2> QED BY <2>1, <2>2, <2>3, <2>4 DEF Freed
<1> HIDE DEF S
<1>3. \A x \in Resources : q[x] = "held" => x = "mapper"
  BY <1>1, <1>2
<1>4. \A x \in Resources : q[x] = "dangling" => r[x] = "dangling"
  BY <1>1
<1>5. Owned(q)
  BY <1>3, StepSets DEF Owned, Resources
<1>6. Sound(q)
  BY <1>1, <1>4, <1>5 DEF Sound
<1> QED BY <1>3, <1>6 DEF q, S

(* stop() and free() release what is there, the first time and the second. *)
LEMMA ReleaseAllRes ==
  ASSUME ResInv, ReleaseAll, phase' \in {"stopped", "freed"}, ~attached
  PROVE  ResInv'
<1>1. /\ res' = Release(res, Freed(res)) /\ stat' = "idle" /\ ~attached' /\ vtd' = vtd
      /\ faults' = faults \cup TwiceFreed(Freed(res)) /\ Sound(res)
  BY DEF ReleaseAll, StatCancelled, ResInv
<1>2. Sound(res') /\ {x \in Resources : res'[x] = "held"} \subseteq {"mapper"}
  BY <1>1, FreedAll
<1>3. Sound(res)' /\ vtd' \in BOOLEAN
  BY <1>1, <1>2 DEF Sound, Owned, ResInv
<1>4. NothingLeaked'
  BY <1>2 DEF NothingLeaked
<1>5. TwiceFreed(Freed(res)) \subseteq {<<"free", "mediumDict">>, <<"free", "statCall">>}
  <2>1. Freed(res) \subseteq Resources
    BY StepSets DEF Freed, FreedTx, FreedRx, FreedStat, Within, Resources
  <2> QED BY <1>1, <2>1 DEF TwiceFreed, Sound
<1>6. KnownFaults'
  BY <1>1, <1>5 DEF ResInv, KnownFaults
<1> QED BY <1>1, <1>3, <1>4, <1>6 DEF ResInv

(* Every step keeps the invariant of the resources, given that of the      *)
(* chip.                                                                   *)
LEMMA ResStep == CoreInv /\ ResInv /\ [Next]_vars => ResInv'
<1> SUFFICES ASSUME CoreInv, ResInv, [Next]_vars PROVE ResInv'
  OBVIOUS
<1>0. faults = faults \cup {}
  OBVIOUS
<1>1. CASE Start
  BY <1>1, StartIsRes
<1>2. CASE \/ EnableInterface \/ DisableInterface \/ SelectMedium \/ SetMaxPacketSize
           \/ PciError \/ LinkChange \/ TimerDown \/ StatRun \/ PowerLoss \/ UNCHANGED vars
  <2>1. UNCHANGED <<res, vtd, attached, phase, faults>>
    BY <1>2 DEF EnableInterface, DisableInterface, SelectMedium, SetMaxPacketSize, PciError,
                Restart, LinkChange, TimerDown, StatRun, PowerLoss, fixed, vars, swVars
  <2>2. stat' = stat \/ (stat' = "running" /\ stat = "pending")
    BY <1>2 DEF EnableInterface, DisableInterface, SelectMedium, SetMaxPacketSize, PciError,
                LinkChange, TimerDown, StatRun, PowerLoss, vars, swVars
  <2> QED BY <1>0, <2>1, <2>2, SameRes
<1>3. CASE SetFilter \/ SetWakeOnMagicPacket
  <2>1. UNCHANGED <<res, vtd, attached, phase, faults, stat>>
    BY <1>3 DEF SetFilter, SetWakeOnMagicPacket, FilterCall, fixed
  <2> QED BY <1>0, <2>1, SameRes
<1>4. CASE TimerTick \/ TimerHang
  <2>1. UNCHANGED <<res, vtd, attached, phase, faults>> /\ stat' = "pending"
    BY <1>4 DEF TimerTick, TimerHang, Restart, fixed
  <2>2. attached
    BY <1>4 DEF TimerTick, TimerHang, CoreInv, LinkInv, EnabledInv
  <2> QED BY <1>0, <2>1, <2>2, SameRes
<1>5. CASE StatEnd
  <2>1. res["statBufDesc"] = "held"
    BY <1>5 DEF StatEnd, ResInv
  <2>2. /\ faults' = faults \cup (IF attached THEN {} ELSE {<<"use", "netStats">>})
        /\ stat' = "idle" /\ UNCHANGED <<res, vtd, attached, phase>>
    BY <1>5, <2>1 DEF StatEnd
  <2> QED BY <2>2, SameRes
<1>6. CASE PowerOff \/ PowerOn
  <2>1. /\ faults' = faults \cup GateFault /\ GateFault \subseteq {<<"null", "commandGate">>}
        /\ UNCHANGED <<res, vtd, attached, phase, stat>>
    BY <1>6 DEF PowerOff, PowerOn, GateFault, swVars
  <2> QED BY <2>1, SameRes
<1>7. CASE Shutdown
  <2>1. /\ phase = "up" /\ phase' = "shut" /\ UNCHANGED <<res, vtd, attached, stat>>
        /\ faults' = faults \cup (IF res["baseMap"] = "held" THEN {}
                                  ELSE {<<"null", "mmio">>})
    BY <1>7 DEF Shutdown
  <2> QED BY <2>1, SameRes
<1>8. CASE StopDetach
  <2>1. /\ phase = "up" /\ phase' = "stopping" /\ ~attached'
        /\ UNCHANGED <<res, vtd, stat, faults>>
    BY <1>8 DEF StopDetach
  <2> QED BY <1>0, <2>1, SameRes
<1>9. CASE StopFree \/ Free
  <2>1. ReleaseAll /\ phase' \in {"stopped", "freed"}
        /\ phase \in {"off", "stopping", "stopped"}
    BY <1>9 DEF StopFree, Free
  <2> QED BY <2>1, ReleaseAllRes DEF ResInv
<1> QED BY <1>1, <1>2, <1>3, <1>4, <1>5, <1>6, <1>7, <1>8, <1>9 DEF Next

(* At first there is nothing.                                              *)
LEMMA ResInit == Init => ResInv
<1> SUFFICES ASSUME Init PROVE ResInv
  OBVIOUS
<1>1. /\ res = [x \in Resources |-> "null"] /\ ~attached /\ stat = "idle"
      /\ phase = "new" /\ faults = {} /\ vtd \in BOOLEAN
  BY DEF Init
<1>2. Vacant(res, Resources)
  BY <1>1 DEF Vacant
<1>3. Sound(res)
  BY <1>1, StepSets DEF Sound, Owned, Resources
<1> QED BY <1>1, <1>2, <1>3 DEF ResInv, NothingLeaked, KnownFaults

(* The invariant of the resources holds for every chip, with AppleVTD and  *)
(* without it.                                                             *)
THEOREM ResourcesSound == Spec => []ResInv
BY ResInit, ResStep, CoreInvariant, PTL DEF Spec

(* Whatever fails in start(), free() leaves nothing behind that the driver *)
(* has acquired but the mapper.                                            *)
THEOREM FreesEverything == Spec => []NothingLeaked
<1>1. ResInv => NothingLeaked
  BY DEF ResInv
<1> QED BY <1>1, ResourcesSound, PTL

(* Whatever fails in start() and whatever is called in which order, there  *)
(* are no bad accesses but the known ones.                                 *)
THEOREM FaultsAreKnown == Spec => []KnownFaults
<1>1. ResInv => KnownFaults
  BY DEF ResInv
<1> QED BY <1>1, ResourcesSound, PTL

(* The NIC runs only while the memory it reads and writes through is held. *)
THEOREM DmaIsBacked == Spec => []DmaIntoHeldMemory
<1>1. ASSUME CoreInv, ResInv PROVE DmaIntoHeldMemory
  <2>1. c.running => attached
    BY <1>1 DEF CoreInv, LinkInv, EnabledInv
  <2> QED BY <1>1, <2>1 DEF ResInv, AllHeld, RingRes, DmaIntoHeldMemory
<1> QED BY <1>1, CoreInvariant, ResourcesSound, PTL
=============================================================================
