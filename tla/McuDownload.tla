----------------------------- MODULE McuDownload -----------------------------
(* Loading the code of the MAC's and of the PHY's microcontroller, and the   *)
(* table of PHY parameters, when the driver attaches and each time it        *)
(* enables the chip. Every write is a step of its own, so that the driver    *)
(* may be stopped (a panic, a forced restart) after any of them. The chip    *)
(* keeps its state over that, because of its standby power, and the next     *)
(* driver decides by the versions it finds what it loads again.              *)
(*                                                                           *)
(* External: the PHY grants a patch request when it comes to it, or never,   *)
(* and takes the grant back after the request is withdrawn. A PHY reset does *)
(* not touch the code. The PHY disable mode (a strap) is taken to be off.    *)
EXTENDS PhyCode, FiniteSets

CONSTANTS
    Methods,        \* revisions considered: values of mcfg
    kMaxPolls       \* polls of a patch request before the driver gives up

DownloadAssumption ==
    /\ Methods \subseteq (2..13) \cup (31..33)
    /\ kMaxPolls \in Nat \ {0}
ASSUME DownloadAssumption

VARIABLES
    mcfg,       \* the chip's revision
    known,      \* ~HwIcVerUnknown
    phase,      \* "off", "idle", "mac", "phy", "table", "up"
    goal,       \* where the pass in phase "mac" leads: "idle" or "up"
    step,       \* the next operation of the phase's script
    polls,      \* polls of the patch request made so far
    hasRam,     \* HwHasWrRamCodeToMicroP
    hwVer,      \* hw_mcu_patch_code_ver = bin_mcu_patch_code_ver
    keep,       \* check_keep_link_speed
    resume,     \* resume_not_chg_speed
    phy,        \* the PHY
    mac,        \* the MAC's microcontroller
    late,       \* history: the last patch request was given up
    cut         \* history: stopped in a download that was announced already

sw == <<phase, goal, step, polls, hasRam, hwVer, keep, resume>>
downloadVars == <<mcfg, known, sw, phy, mac, late, cut>>

-----------------------------------------------------------------------------
(* The hardware                                                              *)

NoAim == [image |-> "none", hooks |-> {}]

PhyPoweredOn ==
    [code |-> [u \in Units |-> "rom"], aim |-> [u \in Units |-> NoAim],
     enabled |-> [u \in Units |-> {}], data |-> {}, version |-> "none",
     keyLock |-> FALSE, patchMode |-> FALSE, request |-> FALSE,
     granted |-> FALSE, tuned |-> {}]

(* What another driver with other code has left.                             *)
PhyOfOther ==
    [PhyPoweredOn EXCEPT
       !.code = [u \in Units |-> "other"], !.version = "other",
       !.aim = [u \in Units |-> [image |-> "other", hooks |-> Hooks]],
       !.enabled = [u \in Units |-> Hooks]]

MacHooks == 0 .. 15

MacPoweredOn ==
    [code |-> "rom", version |-> "none", aim |-> NoAim, enabled |-> {}]

MacOfOther ==
    [code |-> "other", version |-> "other", enabled |-> MacHooks,
     aim |-> [image |-> "other", hooks |-> MacHooks]]

-----------------------------------------------------------------------------
(* The MAC's microcontroller: for each revision the image, the hooks that    *)
(* FC28 and up aim at the ROM, and the ones that FC48 enables.               *)

MacPatch(image, aimed, enabled) ==
    [image |-> image, aimed |-> aimed, enabled |-> enabled]

SetMacMcu8125a_2  ==
    MacPatch("8125a_2", {1, 3, 4, 5, 6, 12, 13}, {1, 3, 4, 5, 6, 12, 13})
(* Four of the writes are commented out, the bits of FC48 are others.        *)
SetMacMcu8125b_2  ==
    MacPatch("8125b_2", (0..5) \cup (10..12), {0, 1, 3, 4, 5, 6, 10, 11, 12})
SetMacMcu8125bp_1 == MacPatch("8125bp_1", 0..6, 0..6)
SetMacMcu8125bp_2 == MacPatch("8125bp_2", 0..5, 0..5)
SetMacMcu8125d_1  == MacPatch("8125d_1", 0..1, 0..1)
SetMacMcu8125d_2  == MacPatch("8125d_2", {0}, {0})
SetMacMcu8125cp_1 == MacPatch("8125cp_1", {0}, {0})

MacMcuMethods == {3, 5, 6, 7, 8, 9, 10, 11, 12, 13}

SetMacMcu(m) ==
    CASE m \in {3, 6}   -> SetMacMcu8125a_2
      [] m \in {5, 7}   -> SetMacMcu8125b_2
      [] m = 8          -> SetMacMcu8125bp_1
      [] m = 9          -> SetMacMcu8125bp_2
      [] m = 10         -> SetMacMcu8125d_1
      [] m \in {11, 13} -> SetMacMcu8125d_2
      [] m = 12         -> SetMacMcu8125cp_1

(* The first word tears the code that was there.                             *)
WriteMacMcuRamCode(patch) ==
    << [op |-> "macCode", image |-> "torn"],
       [op |-> "macCode", image |-> patch.image] >>

SetHwMcuPatchCodeVer(patch) ==
    << [op |-> "macVersion", value |-> patch.image] >>

MacDownload(patch) == WriteMacMcuRamCode(patch) \o SetHwMcuPatchCodeVer(patch)

LeaveMacMcuBps == << [op |-> "macAim", aim |-> NoAim] >>            \* faulty
DisableMacMcuBps ==
    << [op |-> "macEnable", hooks |-> {}], [op |-> "macAim", aim |-> NoAim] >>

EnableMacMcuBps(patch) ==
    << [op |-> "macAim", aim |-> [image |-> patch.image, hooks |-> patch.aimed]],
       [op |-> "macEnable", hooks |-> patch.enabled] >>

HwMacMcuConfig ==
    IF ~known THEN << >>
    ELSE DisableMacMcuBps
           \o (IF mcfg \notin MacMcuMethods THEN << >>
               ELSE (IF hwVer THEN << >> ELSE MacDownload(SetMacMcu(mcfg)))
                       \o EnableMacMcuBps(SetMacMcu(mcfg)))

-----------------------------------------------------------------------------
(* Scripts                                                                   *)

SetHwPhyBeforeInitPhyMcu(m) == IF m = 4 THEN Parameters("watchdog") ELSE << >>

WriteHwPhyMcuCodeVer(m) == Version(SwRamCodeVer(m))

InitHwPhyMcu(m, skipped) ==
    IF skipped THEN << >> ELSE SetPhyMcu(m) \o WriteHwPhyMcuCodeVer(m)

(* Either pass over the PHY's code, as a constant.                           *)
PhyPass ==
    [m \in Methods |->
       [skipped \in BOOLEAN |->
          SetHwPhyBeforeInitPhyMcu(m) \o InitHwPhyMcu(m, skipped)]]

Script ==
    CASE phase = "mac"   -> HwMacMcuConfig
      [] phase = "phy"   -> PhyPass[mcfg][~known \/ hasRam]
      [] phase = "table" -> PhyTable(mcfg)

Busy == phase \in {"mac", "phy", "table"}

At(op) == Busy /\ step <= Len(Script) /\ Script[step].op = op
Op     == Script[step]

DownloadInit ==
    /\ mcfg \in Methods /\ known \in BOOLEAN
    /\ phase = "off" /\ goal = "idle" /\ step = 1 /\ polls = 0
    /\ hasRam = FALSE /\ hwVer = FALSE /\ keep = FALSE /\ resume = FALSE
    /\ \/ phy = PhyPoweredOn /\ mac = MacPoweredOn
       \/ phy = PhyOfOther /\ mac = MacOfOther
    /\ late = FALSE /\ cut = FALSE

-----------------------------------------------------------------------------
(* The writes                                                                *)

NextStep == /\ step' = step + 1 /\ polls' = 0
            /\ UNCHANGED <<mcfg, known, phase, goal, hasRam, hwVer, keep,
                           resume, cut>>

WritePhy(p) == NextStep /\ phy' = p /\ UNCHANGED <<mac, late>>
WriteMac(m) == NextStep /\ mac' = m /\ UNCHANGED <<phy, late>>

WriteCode == At("code") /\ WritePhy([phy EXCEPT !.code[Op.unit] = Op.image])

AimHooks ==
    /\ At("aim")
    /\ WritePhy([phy EXCEPT !.aim[Op.unit] = [image |-> Op.image,
                                              hooks |-> Op.hooks]])

EnableHooks ==
    At("enable") /\ WritePhy([phy EXCEPT !.enabled[Op.unit] = Op.hooks])

WriteData == At("data") /\ WritePhy([phy EXCEPT !.data = @ \cup {Op.image}])

WriteKeyLock == At("keylock") /\ WritePhy([phy EXCEPT !.keyLock = Op.open])

WritePatchMode == At("patchMode") /\ WritePhy([phy EXCEPT !.patchMode = Op.on])

WriteB820 ==
    /\ At("b820")
    /\ WritePhy([phy EXCEPT !.patchMode = Op.mode, !.request = Op.request])

WriteVersion == At("version") /\ WritePhy([phy EXCEPT !.version = Op.value])

(* Both conditions of the tables ask for the RAM code; that for ALDPS also   *)
(* for ASPM, which is taken to be on.                                        *)
MayTune(kind) == kind \in {"guarded", "aldps"} => hasRam

WriteParameters ==
    /\ At("parameters")
    /\ WritePhy(IF MayTune(Op.kind)
                THEN [phy EXCEPT !.tuned = @ \cup {Op.kind}] ELSE phy)

WriteMacCode == At("macCode") /\ WriteMac([mac EXCEPT !.code = Op.image])
WriteMacVersion ==
    At("macVersion") /\ WriteMac([mac EXCEPT !.version = Op.value])
WriteMacAim == At("macAim") /\ WriteMac([mac EXCEPT !.aim = Op.aim])
WriteMacEnable == At("macEnable") /\ WriteMac([mac EXCEPT !.enabled = Op.hooks])

-----------------------------------------------------------------------------
(* The patch request: the bit is written, then B800 is polled. No caller     *)
(* looks at the result.                                                      *)

WriteRequest(on) ==
    /\ polls = 0
    /\ polls' = 1
    /\ phy' = [phy EXCEPT !.request = on]
    /\ UNCHANGED <<mcfg, known, phase, goal, step, hasRam, hwVer, keep, resume,
                   mac, late, cut>>

PollForever ==                                                      \* faulty
    /\ polls' = 1 + (polls % kMaxPolls)
    /\ UNCHANGED <<mcfg, known, phase, goal, step, hasRam, hwVer, keep, resume,
                   phy, mac, late, cut>>

PollAgain ==
    /\ polls < kMaxPolls
    /\ polls' = polls + 1
    /\ UNCHANGED <<mcfg, known, phase, goal, step, hasRam, hwVer, keep, resume,
                   phy, mac, late, cut>>

SetPhyMcuPatchRequest ==
    /\ At("setRequest")
    /\ \/ WriteRequest(TRUE)
       \/ polls > 0 /\ ~phy.granted /\ PollAgain
       \/ /\ (polls > 0 /\ phy.granted) \/ polls = kMaxPolls
          /\ late' = ~phy.granted
          /\ NextStep /\ UNCHANGED <<phy, mac>>

ClearPhyMcuPatchRequest ==
    /\ At("clearRequest")
    /\ \/ WriteRequest(FALSE)
       \/ polls > 0 /\ phy.granted /\ PollAgain
       \/ /\ (polls > 0 /\ ~phy.granted) \/ polls = kMaxPolls
          /\ NextStep /\ UNCHANGED <<phy, mac, late>>

Write ==
    \/ WriteCode \/ AimHooks \/ EnableHooks \/ WriteData
    \/ WriteKeyLock \/ WritePatchMode \/ WriteB820 \/ WriteVersion
    \/ WriteParameters
    \/ WriteMacCode \/ WriteMacVersion \/ WriteMacAim \/ WriteMacEnable
    \/ SetPhyMcuPatchRequest \/ ClearPhyMcuPatchRequest

-----------------------------------------------------------------------------
(* The passes                                                                *)

CheckHwPhyMcuCodeVer == phy.version = SwRamCodeVer(mcfg)

MacIsCurrent ==
    mcfg \in MacMcuMethods /\ mac.version = SetMacMcu(mcfg).image

StartPass(towards) ==
    /\ phase' = "mac" /\ goal' = towards /\ step' = 1 /\ polls' = 0
    /\ hasRam' = CheckHwPhyMcuCodeVer
    /\ hwVer' = MacIsCurrent
    /\ UNCHANGED <<mcfg, known, phy, mac, late, cut>>

(* rtl812xInit(): a new object.                                              *)
Attach ==
    phase = "off" /\ StartPass("idle") /\ keep' = FALSE /\ resume' = FALSE

(* rtl812xEnable(): the PHY is left alone when the link was kept for it.     *)
Rtl812xEnable ==
    /\ phase = "idle"
    /\ StartPass("up")
    /\ \/ resume' = FALSE
       \/ keep /\ CheckHwPhyMcuCodeVer /\ resume' = TRUE
    /\ UNCHANGED keep

Enter(next) ==
    /\ phase' = next /\ step' = 1 /\ polls' = 0
    /\ UNCHANGED <<mcfg, known, goal, hwVer, keep, resume, mac, late, cut>>

(* A PHY reset comes before its code; the code's version after it.           *)
EndOfScript ==
    /\ Busy /\ step = Len(Script) + 1
    /\ \/ /\ phase = "mac" /\ goal = "idle" /\ Enter("idle")
          /\ UNCHANGED <<hasRam, phy>>
       \/ /\ phase = "mac" /\ goal = "up" /\ resume /\ Enter("up")
          /\ UNCHANGED <<hasRam, phy>>
       \/ /\ phase = "mac" /\ goal = "up" /\ ~resume /\ Enter("phy")
          /\ phy' = [phy EXCEPT !.tuned = {}] /\ UNCHANGED hasRam
       \/ /\ phase = "phy" /\ Enter("table")
          /\ hasRam' = (hasRam \/ known) /\ UNCHANGED phy
       \/ /\ phase = "table" /\ Enter("up") /\ UNCHANGED <<hasRam, phy>>

(* srtk5_powerdown_pll() notes whether the speed need not be negotiated.     *)
Rtl812xDisable ==
    /\ phase = "up"
    /\ phase' = "idle" /\ keep' \in BOOLEAN
    /\ UNCHANGED <<mcfg, known, goal, step, polls, hasRam, hwVer, resume, phy,
                   mac, late, cut>>

Driver == Write \/ EndOfScript

-----------------------------------------------------------------------------
(* The surroundings                                                          *)

Grant == /\ phy.request /\ ~phy.granted
         /\ phy' = [phy EXCEPT !.granted = TRUE]
         /\ UNCHANGED <<mcfg, known, sw, mac, late, cut>>

Withdraw == /\ ~phy.request /\ phy.granted
            /\ phy' = [phy EXCEPT !.granted = FALSE]
            /\ UNCHANGED <<mcfg, known, sw, mac, late, cut>>

(* The download under way has not ended, and yet the PHY shows its version.  *)
Announced ==
    /\ phase = "phy" /\ ~hasRam /\ step <= Len(Script)
    /\ CheckHwPhyMcuCodeVer

Stop ==
    /\ phase # "off"
    /\ phase' = "off" /\ goal' = "idle" /\ step' = 1 /\ polls' = 0
    /\ hasRam' = FALSE /\ hwVer' = FALSE /\ keep' = FALSE /\ resume' = FALSE
    /\ cut' = (cut \/ Announced)
    /\ UNCHANGED <<mcfg, known, phy, mac, late>>

LosePower ==
    /\ phase \in {"off", "idle"}
    /\ phy' = PhyPoweredOn /\ mac' = MacPoweredOn
    /\ late' = FALSE /\ cut' = FALSE
    /\ UNCHANGED <<mcfg, known, sw>>

DownloadNext ==
    \/ Driver
    \/ Attach \/ Rtl812xEnable \/ Rtl812xDisable
    \/ Grant \/ Withdraw
    \/ Stop \/ LosePower

DownloadSpec == DownloadInit /\ [][DownloadNext]_downloadVars

(* The driver's thread goes on; the PHY need not answer at all.              *)
FairDownloadSpec == DownloadSpec /\ WF_downloadVars(Driver)

-----------------------------------------------------------------------------
(* Properties                                                                *)

(* What the last image of a script with a section for a unit has put there.  *)
LastCode(script, u) ==
    LET writes == {i \in DOMAIN script : /\ script[i].op = "code"
                                         /\ script[i].unit = u}
    IN  IF writes = {} THEN {"rom", "other"}
        ELSE {script[CHOOSE i \in writes : \A j \in writes : j <= i].image}

DataOf(script) ==
    {script[i].image : i \in {j \in DOMAIN script : script[j].op = "data"}}

KindsOf(table) ==
    {table[i].kind : i \in {j \in DOMAIN table : table[j].op = "parameters"}}

Final    == [m \in Methods |-> [u \in Units |-> LastCode(SetPhyMcu(m), u)]]
AllData  == [m \in Methods |-> DataOf(SetPhyMcu(m))]
AllKinds == [m \in Methods |-> KindsOf(PhyTable(m))]

(* A PHY that runs (is not stopped by a granted patch request) has every     *)
(* enabled hook aimed by the image whose code is in the unit, in spite of    *)
(* stops between any two writes, unless a patch request was given up. Where  *)
(* the switch falls through, the images differ in their units: one of which  *)
(* a stopped download replaced another driver's code in part is written      *)
(* again only after an image without it has let the PHY run.                 *)
NotInEveryImage == IF mcfg \in {31, 32} THEN {"nc0x", "nc1", "nc2x"} ELSE {}

Aimed(u) ==
    phy.enabled[u] # {} => /\ phy.aim[u].image = phy.code[u]
                           /\ phy.enabled[u] \subseteq phy.aim[u].hooks

HooksAimed ==
    ~phy.granted /\ ~late =>
      \A u \in Units : \/ Aimed(u)
                       \/ u \in NotInEveryImage /\ (hasRam => cut)

(* The same of the MAC's microcontroller, which is never stopped: its hooks  *)
(* are off while its code is changed. Hook 6 of 8125b_2 is enabled though    *)
(* its address register was cleared.                                         *)
MacHooksAimed ==
    mac.enabled # {} =>
      /\ mac.aim.image = mac.code
      /\ mac.enabled \subseteq
           mac.aim.hooks \cup (IF mac.code = "8125b_2" THEN {6} ELSE {})

(* Code, data and the parameters that need it are written while the PHY is   *)
(* stopped, unless the request was given up.                                 *)
NeedsStop ==
    \/ At("code") \/ At("data")
    \/ At("parameters") /\ Op.kind = "held"

HeldForPatch ==
    [][NeedsStop /\ step' = step + 1 => phy.granted \/ late]_downloadVars

(* When the chip is up and the driver takes the PHY to have its code, all of *)
(* the code, the data and the parameters is there and the lock, the patch    *)
(* mode and the request are given back, over stops, power losses and kept    *)
(* links. The exception is a download for method 31 that was stopped: the    *)
(* image 8126a_1_1 shows the version before the rest is written.             *)
TrustedIsComplete ==
    phase = "up" /\ hasRam =>
      \/ /\ \A u \in Units : phy.code[u] \in Final[mcfg][u]
         /\ phy.data = AllData[mcfg]
         /\ AllKinds[mcfg] \subseteq phy.tuned
         /\ ~phy.keyLock /\ ~phy.patchMode /\ ~phy.request
      \/ mcfg = 31 /\ cut

(* One revision's code is in all units of a PHY that is up. Of the ones that *)
(* fall through the switch, the unit nc1 keeps the code of 8126a_2.          *)
Revision(m) ==
    CASE m = 2          -> "8125a_1"
      [] m \in {3, 6}   -> "8125a_2"
      [] m = 4          -> "8125b_1"
      [] m \in {5, 7}   -> "8125b_2"
      [] m = 8          -> "8125bp_1"
      [] m = 9          -> "rom"
      [] m = 10         -> "8125d_1"
      [] m \in {11, 13} -> "8125d_2"
      [] m = 12         -> "8125cp_1"
      [] m \in {31, 32, 33} -> "8126a_3"

OneRevision ==
    phase = "up" /\ hasRam /\ ~cut =>
      \A u \in Units :
        \/ phy.code[u] \in {"rom", "other", Revision(mcfg)}
        \/ mcfg \in {31, 32} /\ u = "nc1" /\ phy.code[u] = "8126a_2"

(* Every pass through the scripts ends, whether or not the PHY ever grants a *)
(* request or takes a grant back.                                            *)
PassEnds == Busy ~> ~Busy
=============================================================================
