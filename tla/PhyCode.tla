------------------------------- MODULE PhyCode -------------------------------
(* What srtk5_hw_phy_config() writes to the PHY: for each revision (mcfg)    *)
(* the sequence of operations that loads the PHY MCU's code, and the one     *)
(* that writes the table of PHY parameters. An operation is a record; what   *)
(* it does to the PHY is in McuDownload.                                     *)
(*                                                                           *)
(* A unit of the MCU runs from ROM. Code in RAM takes effect through eight   *)
(* hooks: a hook is aimed at a place in the ROM, and enabled by a bit of the *)
(* unit's mask. The words of the code are abstracted to the name of the      *)
(* image they come from; ffff, 3fff and 0 aim a hook at nothing.             *)
EXTENDS Integers, Sequences

Units == {"nc0", "nc0x", "nc1", "nc2", "nc2x", "uc", "uc2"}
Hooks == 0 .. 7

-----------------------------------------------------------------------------
(* Operations                                                                *)

(* A section of an image: the code, where the hooks aim, which are enabled.  *)
Section(unit, image, aimed, enabled) ==
    << [op |-> "code", unit |-> unit, image |-> image],
       [op |-> "aim", unit |-> unit, image |-> image, hooks |-> aimed],
       [op |-> "enable", unit |-> unit, hooks |-> enabled] >>

(* Data of the MCU that no hook belongs to.                                  *)
Data(image) == << [op |-> "data", image |-> image] >>

(* B820: BIT_7 is the patch mode and BIT_4 the patch request.                *)
B820(mode, request) ==
    << [op |-> "b820", mode |-> mode, request |-> request] >>

(* The patch key (8023 or 8024) and the lock B82E belong together.           *)
OpenKeyLock  == << [op |-> "keylock", open |-> TRUE] >>
CloseKeyLock == << [op |-> "keylock", open |-> FALSE] >>

(* The code version in 801E.                                                 *)
Version(v) == << [op |-> "version", value |-> v] >>

SetPatchRequest   == << [op |-> "setRequest"] >>
ClearPatchRequest == << [op |-> "clearRequest"] >>

(* Parameters: ones that are written under a condition on the RAM code are   *)
(* "guarded", ones for which the MCU is stopped are "held".                  *)
Parameters(kind) == << [op |-> "parameters", kind |-> kind] >>

(* What a piece of code does while the MCU is stopped.                       *)
PatchedUnheld(ops) == ops \o ClearPatchRequest                      \* faulty
Patched(ops) == SetPatchRequest \o ops \o ClearPatchRequest

-----------------------------------------------------------------------------
(* The images of the RTL8125                                                 *)

AcquirePhyMcuPatchKeyLock == OpenKeyLock
ReleasePhyMcuPatchKeyLock == CloseKeyLock

PatchModeBit(on) == << [op |-> "patchMode", on |-> on] >>

Nc0_8125a_1 == Section("nc0", "8125a_1", 0..5, 0..5)
Nc1_8125a_1 == Section("nc1", "8125a_1", 0..6, 0..6)
Nc2_8125a_1 == Section("nc2", "8125a_1", 0..7, 0..7)
Uc_8125a_1  == Section("uc", "8125a_1", 0..3, 0..3)
Image8125a_1 ==
    AcquirePhyMcuPatchKeyLock \o PatchModeBit(TRUE)
      \o Nc0_8125a_1 \o Nc1_8125a_1 \o Nc2_8125a_1 \o Uc_8125a_1
      \o PatchModeBit(FALSE) \o ReleasePhyMcuPatchKeyLock

Nc0_8125a_2 == Section("nc0", "8125a_2", 0..7, 0..7)
Nc1_8125a_2 == Section("nc1", "8125a_2", 0..1, 0..1)
Nc2_8125a_2 == Section("nc2", "8125a_2", 2..7, 2..7)
Uc_8125a_2  == Section("uc", "8125a_2", {0}, {0})
Image8125a_2 ==
    AcquirePhyMcuPatchKeyLock \o PatchModeBit(TRUE)
      \o Nc0_8125a_2 \o Nc1_8125a_2 \o Nc2_8125a_2 \o Uc_8125a_2
      \o PatchModeBit(FALSE) \o ReleasePhyMcuPatchKeyLock

(* The arrays open the lock themselves and stop the MCU in patch mode; the   *)
(* code of uc2 is written after patch mode is left, and the last write of    *)
(* most arrays clears all of B820, and with it the patch request.            *)
OpenImage  == OpenKeyLock \o B820(TRUE, TRUE)
LeavePatchMode == B820(FALSE, TRUE)
CloseImage == CloseKeyLock \o B820(FALSE, FALSE)

Nc0_8125b_1 == Section("nc0", "8125b_1", 0..4, 0..4)
Nc2_8125b_1 == Section("nc2", "8125b_1", 0..7, 0..7)
Uc_8125b_1  == Section("uc", "8125b_1", 0..7, 0..7)
Uc2_8125b_1 == Section("uc2", "8125b_1", 0..5, 0..5)
Image8125b_1 ==
    OpenImage \o Nc0_8125b_1 \o Nc2_8125b_1 \o Uc_8125b_1
      \o LeavePatchMode \o Uc2_8125b_1 \o CloseImage \o Version("0021")

Nc0_8125b_2 == Section("nc0", "8125b_2", 0..7, 0..7)
Nc1_8125b_2 == Section("nc1", "8125b_2", 0..1, 0..1)
Nc2_8125b_2 == Section("nc2", "8125b_2", 0..3, 0..3)
Uc_8125b_2  == Section("uc", "8125b_2", 0..4, 0..4)
Uc2_8125b_2 == Section("uc2", "8125b_2", 0..5, 0..5)
Image8125b_2 ==
    OpenImage \o Nc0_8125b_2 \o Nc1_8125b_2 \o Nc2_8125b_2 \o Uc_8125b_2
      \o LeavePatchMode \o Uc2_8125b_2 \o Data("8125b_2")
      \o CloseKeyLock \o Version("0024") \o B820(FALSE, FALSE)

Nc0_8125bp_1 == Section("nc0", "8125bp_1", 0..5, 0..5)
Nc2Swapped   == Section("nc2", "8125bp_1", 0..4, 0..7)              \* faulty
Nc2_8125bp_1 == Section("nc2", "8125bp_1", 0..7, 0..4)
Image8125bp_1_1 ==
    OpenImage \o Nc0_8125bp_1 \o Nc2_8125bp_1 \o LeavePatchMode \o CloseImage
Image8125bp_1_2 == Data("8125bp_1_2") \o B820(FALSE, FALSE)

Nc0x_8125cp_1 == Section("nc0x", "8125cp_1", 0..1, 0..1)
Nc2_8125cp_1  == Section("nc2", "8125cp_1", 0..3, 0..3)
Uc_8125cp_1   == Section("uc", "8125cp_1", {0}, {0})
Image8125cp_1 ==
    OpenImage \o Nc0x_8125cp_1 \o Nc2_8125cp_1 \o Uc_8125cp_1
      \o LeavePatchMode \o CloseImage

Nc0_8125d_1  == Section("nc0", "8125d_1", 0..6, 0..6)
Nc0x_8125d_1 == Section("nc0x", "8125d_1", 0..4, 0..4)
Nc1_8125d_1  == Section("nc1", "8125d_1", 0..7, 0..7)
Nc2x_8125d_1 == Section("nc2x", "8125d_1", 0..6, 0..5)
Nc2_8125d_1  == Section("nc2", "8125d_1", 0..7, 0..7)
Uc_8125d_1   == Section("uc", "8125d_1", 0..7, 0..7)
Uc2_8125d_1  == Section("uc2", "8125d_1", 0..7, 0..7)
Image8125d_1_1 ==
    OpenImage \o Nc0_8125d_1 \o Nc0x_8125d_1 \o Nc1_8125d_1 \o Nc2x_8125d_1
      \o Nc2_8125d_1 \o Uc_8125d_1 \o LeavePatchMode \o Uc2_8125d_1
      \o CloseKeyLock \o Version("0031") \o B820(FALSE, FALSE)
Image8125d_1_2 == Data("8125d_1_2")
Image8125d_1_3 == Data("8125d_1_3") \o B820(FALSE, FALSE)

Nc0_8125d_2  == Section("nc0", "8125d_2", 0..2, 0..2)
Nc0x_8125d_2 == Section("nc0x", "8125d_2", 0..1, 0..1)
Nc1_8125d_2  == Section("nc1", "8125d_2", 0..7, 0..7)
Nc2_8125d_2  == Section("nc2", "8125d_2", 0..7, 0..7)
Nc2x_8125d_2 == Section("nc2x", "8125d_2", 0..2, 0..2)
Uc_8125d_2   == Section("uc", "8125d_2", 0..3, 0..3)
Image8125d_2_1 ==
    OpenImage \o Nc0_8125d_2 \o Nc0x_8125d_2 \o Nc1_8125d_2 \o Nc2_8125d_2
      \o Nc2x_8125d_2 \o Uc_8125d_2 \o LeavePatchMode
      \o CloseKeyLock \o Version("0013") \o B820(FALSE, FALSE)
Image8125d_2_2 == Data("8125d_2_2") \o B820(FALSE, FALSE)

-----------------------------------------------------------------------------
(* The images of the RTL8126                                                 *)

Nc0_8126a_1  == Section("nc0", "8126a_1", 0..7, 0..7)
Nc0x_8126a_1 == Section("nc0x", "8126a_1", 1..3, 1..3)
Nc2_8126a_1  == Section("nc2", "8126a_1", 0..7, 0..7)
Uc_8126a_1   == Section("uc", "8126a_1", 0..4, 0..4)
Uc2_8126a_1  == Section("uc2", "8126a_1", 0..2, 0..2)
Image8126a_1_1 ==
    OpenImage \o Nc0_8126a_1 \o Nc0x_8126a_1 \o Nc2_8126a_1 \o Uc_8126a_1
      \o LeavePatchMode \o Uc2_8126a_1
      \o CloseKeyLock \o Version("0023") \o B820(FALSE, FALSE)
Image8126a_1_2 == Data("8126a_1_2")
Image8126a_1_3 == Data("8126a_1_3")

Nc0_8126a_2  == Section("nc0", "8126a_2", 0..7, 0..7)
Nc1_8126a_2  == Section("nc1", "8126a_2", 0..3, 0..3)
Nc2_8126a_2  == Section("nc2", "8126a_2", 0..7, 0..7)
Nc2x_8126a_2 == Section("nc2x", "8126a_2", 0..7, 0..7)
Uc_8126a_2   == Section("uc", "8126a_2", 0..7, 0..7)
Uc2_8126a_2  == Section("uc2", "8126a_2", 0..7, 0..7)
Data_8126a_2 == Data("8126a_2_1")
Image8126a_2_1 ==
    OpenImage \o Nc0_8126a_2 \o Nc1_8126a_2 \o Nc2_8126a_2 \o Nc2x_8126a_2
      \o Uc_8126a_2 \o LeavePatchMode \o Uc2_8126a_2 \o Data_8126a_2
      \o CloseKeyLock \o Version("0027") \o B820(FALSE, FALSE)
Image8126a_2_3 == Data("8126a_2_3")

Nc0_8126a_3  == Section("nc0", "8126a_3", 0..7, 0..7)
Nc0x_8126a_3 == Section("nc0x", "8126a_3", {0}, {0})
Nc2_8126a_3  == Section("nc2", "8126a_3", 0..7, 0..7)
Nc2x_8126a_3 == Section("nc2x", "8126a_3", 0..1, 0..1)
Uc_8126a_3   == Section("uc", "8126a_3", 0..6, 0..6)
Uc2_8126a_3  == Section("uc2", "8126a_3", 0..3, 0..3)
Image8126a_3_1 ==
    OpenImage \o Nc0_8126a_3 \o Nc0x_8126a_3 \o Nc2_8126a_3 \o Nc2x_8126a_3
      \o Uc_8126a_3 \o LeavePatchMode \o Uc2_8126a_3 \o CloseImage

-----------------------------------------------------------------------------
(* The procedures that load the images                                       *)

SetPhyMcu8125a_1  == Patched(Image8125a_1)
SetPhyMcu8125a_2  == Patched(Image8125a_2)
SetPhyMcu8125b_1  == Patched(Image8125b_1)
SetPhyMcuCopied   == Patched(Image8125b_1)                          \* faulty
SetPhyMcu8125b_2  == Patched(Image8125b_2)
SetPhyMcu8125bp_1 == Patched(Image8125bp_1_1) \o Patched(Image8125bp_1_2)
SetPhyMcu8125cp_1 == Patched(Image8125cp_1)
SetPhyMcu8125d_1  ==
    Patched(Image8125d_1_1) \o Patched(Image8125d_1_2) \o Patched(Image8125d_1_3)
SetPhyMcu8125d_2  == Patched(Image8125d_2_1) \o Patched(Image8125d_2_2)
SetPhyMcu8126a_1  ==
    Patched(Image8126a_1_1) \o Patched(Image8126a_1_2) \o Patched(Image8126a_1_3)
SetPhyMcu8126a_2  == Patched(Image8126a_2_1) \o Patched(Image8126a_2_3)
SetPhyMcu8126a_3  == Patched(Image8126a_3_1)

(* The switch of srtk5_init_hw_phy_mcu(): the cases of the RTL8126 fall      *)
(* through to the ones after them.                                           *)
Fallthrough33 == SetPhyMcu8126a_3
Fallthrough32 == SetPhyMcu8126a_2 \o Fallthrough33
Fallthrough31 == SetPhyMcu8126a_1 \o Fallthrough32

SetPhyMcu(mcfg) ==
    CASE mcfg = 2        -> SetPhyMcu8125a_1
      [] mcfg \in {3, 6} -> SetPhyMcu8125a_2
      [] mcfg = 4        -> SetPhyMcu8125b_1
      [] mcfg \in {5, 7} -> SetPhyMcu8125b_2
      [] mcfg = 8        -> SetPhyMcu8125bp_1
      [] mcfg = 9        -> << >>
      [] mcfg = 10       -> SetPhyMcu8125d_1
      [] mcfg \in {11, 13} -> SetPhyMcu8125d_2
      [] mcfg = 12       -> SetPhyMcu8125cp_1
      [] mcfg = 31       -> Fallthrough31
      [] mcfg = 32       -> Fallthrough32
      [] mcfg = 33       -> Fallthrough33

ImageCodeVer(mcfg) == IF mcfg = 10 THEN "0031" ELSE "own"           \* faulty
SwRamCodeVer(mcfg) ==
    CASE mcfg = 2        -> "0b11"
      [] mcfg \in {3, 6} -> "0b33"
      [] mcfg = 4        -> "0b17"
      [] mcfg \in {5, 7} -> "0b99"
      [] mcfg = 8        -> "0013"
      [] mcfg = 9        -> "0001"
      [] mcfg = 10       -> "0027"
      [] mcfg \in {11, 13} -> "0031"
      [] mcfg = 12       -> "0010"
      [] mcfg = 31       -> "0023"
      [] mcfg = 32       -> "0033"
      [] mcfg = 33       -> "0060"

-----------------------------------------------------------------------------
(* The tables of PHY parameters                                              *)

Plain   == Parameters("plain")
Guarded == Parameters("guarded")
Held    == Patched(Parameters("held"))
Aldps   == Parameters("aldps")

MdiSwap == Plain
HwPhyConfig8125a_1  == Plain \o Aldps
HwPhyConfig8125a_2  == Plain \o Held \o Plain \o MdiSwap \o Aldps
HwPhyConfig8125b_1  ==
    Plain \o Guarded \o Plain \o Guarded \o Plain \o Guarded \o Plain
      \o Held \o Plain \o Aldps
HwPhyConfig8125b_2  == Plain \o Aldps
HwPhyConfig8125bp_1 == Plain \o Aldps
HwPhyConfig8125bp_2 == Plain \o Aldps
HwPhyConfig8125cp_1 == Plain \o Aldps
HwPhyConfig8125d_1  ==
    Plain \o Held \o Plain \o Guarded \o Plain \o Guarded \o Plain \o Guarded
      \o Plain \o Guarded \o Plain \o Aldps
HwPhyConfig8125d_2  == Plain \o Held \o Plain \o Aldps
HwPhyConfig8126a_1  == Plain \o Aldps
HwPhyConfig8126a_2  == Plain \o Held \o Plain \o Aldps
HwPhyConfig8126a_3  == Plain \o Aldps

PhyTable(mcfg) ==
    CASE mcfg = 2        -> HwPhyConfig8125a_1
      [] mcfg \in {3, 6} -> HwPhyConfig8125a_2
      [] mcfg = 4        -> HwPhyConfig8125b_1
      [] mcfg \in {5, 7} -> HwPhyConfig8125b_2
      [] mcfg = 8        -> HwPhyConfig8125bp_1
      [] mcfg = 9        -> HwPhyConfig8125bp_2
      [] mcfg = 10       -> HwPhyConfig8125d_1
      [] mcfg \in {11, 13} -> HwPhyConfig8125d_2
      [] mcfg = 12       -> HwPhyConfig8125cp_1
      [] mcfg = 31       -> HwPhyConfig8126a_1
      [] mcfg = 32       -> HwPhyConfig8126a_2
      [] mcfg = 33       -> HwPhyConfig8126a_3
=============================================================================
