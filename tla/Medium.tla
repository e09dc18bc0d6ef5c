------------------------------- MODULE Medium -------------------------------
(***************************************************************************)
(* Media and links: from the medium the user selects, through what the PHY *)
(* is told to advertise and what it negotiates with the link partner, to   *)
(* the medium that is reported when the link is up.                        *)
(*                                                                         *)
(* tp->speed, duplex, fcpause and eee serve two purposes: selectMedium()   *)
(* writes what is wanted, rtl812xCheckLinkStatus() overwrites them with    *)
(* what was negotiated, and rtl812xSetPhyMedium() programs the PHY from    *)
(* them each time the link is lost.                                        *)
(***************************************************************************)
EXTENDS Integers, FiniteSets

CONSTANTS
  Chips,        (* of "RTL8125A", "RTL8125B", "RTL8126"                     *)
  Partners      (* link partners: what they advertise                       *)

Mode(speed, full) == [speed |-> speed, full |-> full]
Speeds == {10, 100, 1000, 2500, 5000}
Modes  == [speed : Speeds, full : BOOLEAN]

ASSUME MediumAssumption ==
  /\ Chips \subseteq {"RTL8125A", "RTL8125B", "RTL8126"}
  /\ Partners \subseteq [modes : SUBSET Modes, pause : BOOLEAN, eee : SUBSET Speeds]

None == [speed |-> 0, full |-> FALSE, fc |-> FALSE]

(* RTK_ADVERTISE_5000FULL of PHY register 0xA5D4. *)
FiveGBit == Mode(5000, TRUE)

-----------------------------------------------------------------------------
(* The media.                                                              *)

AutoMedium == [speed |-> 0, full |-> TRUE, fc |-> FALSE, eee |-> FALSE]

(* mediumArray: flow control and EEE come with full duplex, from 100 MBit. *)
Media ==
  {AutoMedium} \cup
  {m \in [speed : Speeds, full : BOOLEAN, fc : BOOLEAN, eee : BOOLEAN] :
     /\ m.speed > 100 => m.full
     /\ m.fc \/ m.eee => m.full /\ m.speed > 10}

AdvAll == {Mode(s, d) : s \in {10, 100}, d \in BOOLEAN} \cup
          {Mode(1000, TRUE), Mode(2500, TRUE)}

(* The adv column of mediumArray; the 5 GBit entries have none. *)
Adv(m) ==
  CASE m.speed = 0    -> AdvAll
    [] m.speed = 5000 -> {}
    [] OTHER          -> {Mode(m.speed, m.full)}

(* setupMediumDict(): the media that get an entry in mediumTable. *)
Published(chip, m) ==
  CASE chip = "RTL8126"  -> TRUE
    [] chip = "RTL8125B" -> m.speed <= 2500
    [] chip = "RTL8125A" -> m.speed < 2500 \/ (m.speed = 2500 /\ ~m.eee)

-----------------------------------------------------------------------------
VARIABLES
  chip,
  eeeSpeeds,    (* tp->eee.supported and .advertised                        *)
  enabled,      (* __ENABLED                                                *)
  medium,       (* the selected medium                                      *)
  tp,           (* tp->speed, duplex, fcpause, advertising, eee_enabled,    *)
                (* eee_active                                               *)
  lpModes,      (* tp->phy_reg_anlpar, _gbsr, _status_2500                  *)
  wol,          (* tp->wol_enabled                                          *)
  phy,          (* the PHY: powered on, modes, PAUSE and EEE advertised     *)
  partner,      (* who is at the other end of the cable                     *)
  carrier,      (* the link the PHY has, as PHYstatus shows it, or None     *)
  pending,      (* LinkChg in ISR0_8125                                     *)
  linkUp,       (* __LINK_UP                                                *)
  reported      (* the medium of the last setLinkStatus()                   *)

fixed == <<chip, eeeSpeeds>>
vars  == <<fixed, enabled, medium, tp, lpModes, wol, phy, partner, carrier,
           pending, linkUp, reported>>

(* srtk5_init_software_variable() and set_link_option(). The 2.5 GBit EEE  *)
(* bit is set by 1 << 47 on an int, which is undefined: it is set or not.  *)
(* Whether the PHY of an RTL8126 advertises 5 GBit is up to its reset.     *)
Init ==
  /\ chip \in Chips
  /\ eeeSpeeds \in IF chip = "RTL8125A" THEN {{100, 1000}}
                   ELSE {{100, 1000}, {100, 1000, 2500}}
  /\ enabled = FALSE /\ medium = AutoMedium
  /\ tp = [speed |-> IF chip = "RTL8126" THEN 5000 ELSE 2500, full |-> TRUE,
           fc |-> TRUE, adv |-> AdvAll, eee |-> TRUE, eeeActive |-> FALSE]
  /\ lpModes = {} /\ wol = FALSE
  /\ \E adv \in {{}} \cup (IF chip = "RTL8126" THEN {{FiveGBit}} ELSE {}) :
       phy = [on |-> FALSE, adv |-> adv, pause |-> FALSE, eee |-> FALSE]
  /\ partner \in Partners
  /\ carrier = None /\ pending = FALSE
  /\ linkUp = FALSE /\ reported = None

-----------------------------------------------------------------------------
(* The PHY and the cable (external).                                       *)

Better(m, n) == m.speed > n.speed \/ (m.speed = n.speed /\ m.full)

Negotiate ==
  /\ phy.on /\ carrier = None
  /\ \E m \in phy.adv \cap partner.modes :
       /\ \A n \in phy.adv \cap partner.modes : n = m \/ Better(m, n)
       /\ carrier' = [speed |-> m.speed, full |-> m.full,
                      fc |-> m.full /\ phy.pause /\ partner.pause]
  /\ pending' = TRUE
  /\ UNCHANGED <<fixed, enabled, medium, tp, lpModes, wol, phy, partner, linkUp,
                 reported>>

Plug(p) ==
  /\ p # partner
  /\ partner' = p /\ carrier' = None
  /\ pending' = (pending \/ carrier # None)
  /\ UNCHANGED <<fixed, enabled, medium, tp, lpModes, wol, phy, linkUp, reported>>

-----------------------------------------------------------------------------
(* Programming the PHY.                                                    *)

(* An invalid speed, which autonegotiation has, becomes 2500 full duplex.  *)
ValidSpeed(t) ==
  IF t.speed \in Speeds THEN t ELSE [t EXCEPT !.speed = 2500, !.full = TRUE]

(* srtk5_enable_eee() or srtk5_disable_eee(). *)
EeeWanted(t) == t.eee

(* The advertisement is read, changed and written back; RTK_ADVERTISE_-    *)
(* 5000FULL is never among what is changed.                                *)
Untouched == phy.adv \cap {FiveGBit}

AdvOfSpeed(t) == Untouched \cup (t.adv \cap {Mode(t.speed, d) : d \in BOOLEAN})
PhyAdv(t) == Untouched \cup t.adv

(* rtl812xSetPhyMedium(), which restarts the negotiation. *)
SetPhyMedium(t) ==
  /\ tp' = ValidSpeed(t)
  /\ phy' = [on |-> TRUE, adv |-> PhyAdv(ValidSpeed(t)), pause |-> t.fc,
             eee |-> EeeWanted(t)]
  /\ carrier' = None
  /\ pending' = (pending \/ carrier # None)

(* setLinkDown(), with rtl812xLinkDownPatch(). *)
SetLinkDown(t) ==
  /\ linkUp' = FALSE /\ reported' = None
  /\ lpModes' = {}
  /\ SetPhyMedium(t)

(* rtl812xMedium2Adv() *)
Medium2Adv(m) ==
  [speed |-> m.speed, full |-> m.full, fc |-> m.fc, adv |-> Adv(m),
   eee |-> m.eee, eeeActive |-> tp.eeeActive]

SelectMedium(m) ==
  /\ Published(chip, m)
  /\ medium' = m
  /\ SetLinkDown(Medium2Adv(m))
  /\ UNCHANGED <<fixed, enabled, wol, partner>>

-----------------------------------------------------------------------------
(* rtl812xCheckLinkStatus()                                                *)

EeeActive ==
  (IF phy.eee THEN eeeSpeeds ELSE {}) \cap eeeSpeeds \cap partner.eee # {}

(* rtl812xGetEEEMode() reads back what was enabled. *)
EeeEnabled == phy.eee

(* PHYstatus has a bit for 5 GBit, but the code asks for no speed above    *)
(* 2500, and what is none of 2500, 1000 and 100 is taken for 10.           *)
StatusSpeed == IF carrier.speed \in {100, 1000, 2500} THEN carrier.speed ELSE 10
StatusFull  == carrier.full \/ StatusSpeed > 100

FcKept == tp.fc
StatusFc == carrier.fc

LinkDown ==
  /\ enabled /\ pending /\ carrier = None
  /\ linkUp' = FALSE /\ reported' = None /\ lpModes' = {}
  /\ tp' = ValidSpeed(tp)
  /\ phy' = [on |-> TRUE, adv |-> PhyAdv(ValidSpeed(tp)), pause |-> tp.fc,
             eee |-> EeeWanted(tp)]
  /\ pending' = FALSE
  /\ UNCHANGED <<fixed, enabled, medium, wol, partner, carrier>>

(* setLinkUp(): the entry of mediumArray for what tp says. *)
MediumOf(t) ==
  [speed |-> t.speed, full |-> t.full,
   fc |-> t.fc /\ t.full /\ t.speed > 10,
   eee |-> t.eeeActive /\ t.full /\ t.speed > 10]

LinkUp ==
  LET t == [tp EXCEPT !.speed = StatusSpeed, !.full = StatusFull,
                      !.fc = StatusFc, !.eee = EeeEnabled,
                      !.eeeActive = EeeActive]
  IN /\ enabled /\ pending /\ carrier # None
     /\ pending' = FALSE
     /\ tp' = t
     /\ lpModes' = partner.modes          (* rtl812xLinkOnPatch() *)
     /\ linkUp' = TRUE /\ reported' = MediumOf(t)
     /\ UNCHANGED <<fixed, enabled, medium, wol, phy, partner, carrier>>

-----------------------------------------------------------------------------
(* Enabling, disabling and restarting the controller.                      *)

Enable ==
  /\ ~enabled /\ enabled' = TRUE
  /\ SetLinkDown(Medium2Adv(medium))
  /\ UNCHANGED <<fixed, medium, wol, partner>>

(* rtl812xRestart(), after a PCI error or when the transmitter hangs. *)
Restart ==
  /\ enabled
  /\ linkUp' = FALSE /\ reported' = None
  /\ SetPhyMedium(tp)
  /\ UNCHANGED <<fixed, enabled, medium, lpModes, wol, partner>>

SetWakeOnMagicPacket(active) ==
  /\ wol' = active
  /\ UNCHANGED <<fixed, enabled, medium, tp, lpModes, phy, partner, carrier,
                 pending, linkUp, reported>>

KnownModes == IF carrier # None THEN partner.modes ELSE lpModes
Slow(modes) == {m \in modes : m.speed <= 100}
Slowest(modes) == {m \in modes : \A n \in modes : n = m \/ Better(n, m)}

LowestOwn == Slowest(tp.adv)
LowestCommon == Slowest(tp.adv \cap KnownModes)

(* srtk5_set_wol_link_speed(): the slowest mode both sides have; with no   *)
(* link partner known, all that are not faster than 100; else no change.   *)
WolModes ==
  CASE KnownModes = {} /\ Slow(tp.adv) # {} -> Untouched \cup Slow(tp.adv)
    [] KnownModes # {} /\ LowestCommon # {} -> Untouched \cup LowestCommon
    [] OTHER                                -> phy.adv

(* disable() and srtk5_powerdown_pll(); a PHY that may wake the machine by *)
(* a link change keeps its speed.                                          *)
Disable ==
  /\ enabled /\ enabled' = FALSE
  /\ linkUp' = FALSE
  /\ \E keep \in BOOLEAN :
       phy' = IF ~wol THEN [phy EXCEPT !.on = FALSE]
              ELSE IF keep /\ carrier # None THEN phy
              ELSE [phy EXCEPT !.adv = WolModes]
  /\ carrier' = IF wol /\ phy'.adv = phy.adv THEN carrier ELSE None
  /\ pending' = (pending \/ carrier' # carrier)
  /\ UNCHANGED <<fixed, medium, tp, lpModes, wol, partner, reported>>

Next ==
  \/ Negotiate \/ LinkUp \/ LinkDown
  \/ Enable \/ Disable \/ Restart
  \/ \E m \in Media : SelectMedium(m)
  \/ \E p \in Partners : Plug(p)
  \/ \E b \in BOOLEAN : SetWakeOnMagicPacket(b)

Spec == Init /\ [][Next]_vars

-----------------------------------------------------------------------------
(* The variables have their types.                                         *)
TypeOK ==
  /\ chip \in Chips /\ eeeSpeeds \subseteq Speeds
  /\ enabled \in BOOLEAN /\ wol \in BOOLEAN /\ medium \in Media
  /\ tp \in [speed : Speeds, full : BOOLEAN, fc : BOOLEAN, adv : SUBSET Modes,
             eee : BOOLEAN, eeeActive : BOOLEAN]
  /\ lpModes \subseteq Modes
  /\ phy \in [on : BOOLEAN, adv : SUBSET Modes, pause : BOOLEAN, eee : BOOLEAN]
  /\ partner \in Partners
  /\ carrier \in [speed : Speeds, full : BOOLEAN, fc : BOOLEAN] \cup {None}
  /\ pending \in BOOLEAN /\ linkUp \in BOOLEAN
  /\ reported \in Media \cup {None}

(* The modes a medium stands for: those of all speeds the driver programs, *)
(* or the one of its name.                                                 *)
ModesOf(m) == IF m.speed = 0 THEN AdvAll ELSE {Mode(m.speed, m.full)}

(* While the interface is enabled the PHY advertises the modes of the      *)
(* selected medium, although every link overwrites speed and duplex; and   *)
(* EEE if and only if the medium asks for it, although that setting is     *)
(* read back from the PHY with every link, and whatever the partner does.  *)
(* The exception is 5 GBit, which the PHY advertises with any medium or    *)
(* with none, as it was found.                                             *)
AdvertisesSelected ==
  enabled =>
    /\ phy.adv \ {FiveGBit} = ModesOf(medium) \ {FiveGBit}
    /\ phy.eee = medium.eee

(* The medium reported has an entry in mediumTable, so that setLinkStatus()*)
(* is never handed the NULL of a slot that has none, and it is the link    *)
(* that was negotiated, unless a change of the link is still to be handled.*)
(* The exception is 5 GBit again, which is reported as 10 MBit.            *)
ReportedIsNegotiated ==
  linkUp =>
    /\ Published(chip, reported)
    /\ ~pending =>
         /\ carrier # None
         /\ reported.full = carrier.full
         /\ carrier.speed # 5000 =>
              reported.speed = carrier.speed /\ reported.fc = carrier.fc
         /\ carrier.speed = 5000 => reported.speed = 10

(* Preparing the PHY for wake on LAN leaves a mode the partner of an       *)
(* existing link has too, so that a magic packet can arrive.               *)
WolKeepsLinkPossible ==
  [][enabled /\ ~enabled' /\ wol /\ carrier # None
       => phy'.adv \cap partner.modes # {}]_vars
=============================================================================
