--------------------------- MODULE Medium_proofs ---------------------------
(***************************************************************************)
(* Media and links for every set of link partners: what the PHY advertises *)
(* stays what was selected, what is reported is what was negotiated, and   *)
(* preparing for wake on LAN keeps the link possible.                      *)
(***************************************************************************)
EXTENDS Medium, TLAPS

(* The PHY is programmed for the selected medium, and so is what it will   *)
(* be programmed with when the link is lost.                               *)
SelectedInv ==
  /\ Published(chip, medium)
  /\ enabled =>
       /\ phy.adv \ {FiveGBit} = Adv(medium) /\ tp.adv = Adv(medium)
       /\ phy.eee = medium.eee /\ tp.eee = medium.eee
       /\ tp.fc => medium.fc
       /\ phy.pause => medium.fc

(* A link has a mode that both ends advertise, and pauses only if the PHY  *)
(* offered to.                                                             *)
CarrierInv ==
  carrier # None =>
    /\ Mode(carrier.speed, carrier.full) \in phy.adv
    /\ Mode(carrier.speed, carrier.full) \in partner.modes
    /\ carrier.fc => phy.pause /\ carrier.full

IInv == TypeOK /\ SelectedInv /\ CarrierInv /\ ReportedIsNegotiated

-----------------------------------------------------------------------------
(* The tables.                                                             *)

(* What is true of a medium of mediumArray. *)
LEMMA MediaAre ==
  ASSUME NEW m \in Media
  PROVE  /\ m \in [speed : Speeds \cup {0}, full : BOOLEAN, fc : BOOLEAN,
                   eee : BOOLEAN]
         /\ m.speed = 0 => ~m.fc /\ ~m.eee
         /\ m.fc \/ m.eee => m.full
         /\ m.speed = 10 => ~m.fc /\ ~m.eee
         /\ m.speed \in {1000, 2500, 5000} => m.full
<1>1. CASE m = AutoMedium
  <2>1. m.speed = 0 /\ m.full /\ ~m.fc /\ ~m.eee
    BY <1>1, Zenon DEF AutoMedium
  <2>2. m \in [speed : Speeds \cup {0}, full : BOOLEAN, fc : BOOLEAN, eee : BOOLEAN]
    BY <1>1, Zenon DEF AutoMedium
  <2>3. QED BY <2>1, <2>2
<1>2. CASE m \in {n \in [speed : Speeds, full : BOOLEAN, fc : BOOLEAN, eee : BOOLEAN] :
                    /\ n.speed > 100 => n.full
                    /\ n.fc \/ n.eee => n.full /\ n.speed > 10}
  <2>1. /\ m \in [speed : Speeds, full : BOOLEAN, fc : BOOLEAN, eee : BOOLEAN]
        /\ m.speed > 100 => m.full
        /\ m.fc \/ m.eee => m.full /\ m.speed > 10
    BY <1>2, Zenon
  <2>2. m.speed \in {10, 100, 1000, 2500, 5000} /\ m.speed # 0
    BY <2>1 DEF Speeds
  <2>3. m \in [speed : Speeds \cup {0}, full : BOOLEAN, fc : BOOLEAN, eee : BOOLEAN]
    BY <2>1
  <2>4. (m.speed \in {1000, 2500, 5000} => m.full) /\ (m.fc \/ m.eee => m.full)
    BY <2>1
  <2>5. m.speed = 10 => ~m.fc /\ ~m.eee
    BY <2>1
  <2>6. QED BY <2>2, <2>3, <2>4, <2>5
<1> QED BY <1>1, <1>2 DEF Media

(* The adv column names modes of the medium, none of 5 GBit, and half      *)
(* duplex only up to 100 MBit.                                             *)
LEMMA AdvIs ==
  ASSUME NEW m \in Media, NEW s \in Speeds, NEW d \in BOOLEAN, Mode(s, d) \in Adv(m)
  PROVE  /\ s \in {10, 100, 1000, 2500}
         /\ s \in {1000, 2500} => d
         /\ m.speed # 0 => s = m.speed /\ d = m.full
BY MediaAre DEF Adv, AdvAll, Mode, Speeds

(* What is advertised are modes.                                           *)
LEMMA AdvModes ==
  ASSUME NEW m \in Media
  PROVE  Adv(m) \subseteq Modes
<1>1. ASSUME NEW x \in AdvAll
      PROVE  x \in Modes
  <2>1. /\ 10 \in Speeds /\ 100 \in Speeds /\ 1000 \in Speeds /\ 2500 \in Speeds
        /\ TRUE \in BOOLEAN /\ FALSE \in BOOLEAN
    BY DEF Speeds
  <2>2. \/ \E s \in {10, 100}, d \in BOOLEAN : x = [speed |-> s, full |-> d]
        \/ x = [speed |-> 1000, full |-> TRUE]
        \/ x = [speed |-> 2500, full |-> TRUE]
    BY DEF AdvAll, Mode
  <2>3. CASE \E s \in {10, 100}, d \in BOOLEAN : x = [speed |-> s, full |-> d]
    BY <2>1, <2>3 DEF Modes
  <2>4. CASE x = [speed |-> 1000, full |-> TRUE]
    BY <2>1, <2>4 DEF Modes
  <2>5. CASE x = [speed |-> 2500, full |-> TRUE]
    BY <2>1, <2>5 DEF Modes
  <2>6. QED BY <2>2, <2>3, <2>4, <2>5
<1>2. m.speed \in Speeds \cup {0} /\ m.full \in BOOLEAN
  BY MediaAre
<1>3. m.speed \in Speeds => {Mode(m.speed, m.full)} \subseteq Modes
  BY <1>2 DEF Mode, Modes
<1> QED BY <1>1, <1>2, <1>3 DEF Adv

(* It is what the medium stands for but for 5 GBit.                        *)
LEMMA AdvIsModes ==
  ASSUME NEW m \in Media
  PROVE  Adv(m) = ModesOf(m) \ {FiveGBit} /\ FiveGBit \notin Adv(m)
<1>1. m.speed \in {0, 10, 100, 1000, 2500, 5000} /\ m.full \in BOOLEAN
  BY MediaAre DEF Speeds
<1>2. FiveGBit \notin Adv(m)
  BY <1>1 DEF Adv, AdvAll, Mode, FiveGBit
<1>3. CASE m.speed = 5000
  <2>1. m.full
    BY <1>3, MediaAre
  <2>2. ModesOf(m) = {FiveGBit}
    BY <1>1, <1>3, <2>1 DEF ModesOf, FiveGBit
  <2>3. Adv(m) = {}
    BY <1>3 DEF Adv
  <2>4. QED BY <2>2, <2>3
<1>4. CASE m.speed # 5000
  <2>1. Adv(m) = ModesOf(m)
    BY <1>1, <1>4 DEF Adv, ModesOf
  <2>2. QED BY <1>2, <2>1
<1> QED BY <1>2, <1>3, <1>4
-----------------------------------------------------------------------------
(* Programming the PHY.                                                    *)

TpType == [speed : Speeds, full : BOOLEAN, fc : BOOLEAN, adv : SUBSET Modes,
           eee : BOOLEAN, eeeActive : BOOLEAN]
PhyType == [on : BOOLEAN, adv : SUBSET Modes, pause : BOOLEAN, eee : BOOLEAN]

(* What rtl812xMedium2Adv() may leave in tp. *)
Wanted == [speed : Speeds \cup {0}, full : BOOLEAN, fc : BOOLEAN, adv : SUBSET Modes,
           eee : BOOLEAN, eeeActive : BOOLEAN]

(* A speed that is none is replaced, and nothing else.                     *)
LEMMA ValidSpeedIs ==
  ASSUME NEW t \in Wanted
  PROVE  /\ ValidSpeed(t) \in TpType
         /\ ValidSpeed(t).fc = t.fc /\ ValidSpeed(t).adv = t.adv
         /\ ValidSpeed(t).eee = t.eee
<1>1. CASE t.speed \in Speeds
  <2>1. ValidSpeed(t) = t
    BY <1>1 DEF ValidSpeed
  <2>2. t \in TpType
    BY <1>1 DEF Wanted, TpType
  <2>3. QED BY <2>1, <2>2, Zenon
<1>2. CASE t.speed \notin Speeds
  <2>1. ValidSpeed(t) = [t EXCEPT !.speed = 2500, !.full = TRUE]
    BY <1>2 DEF ValidSpeed
  <2>2. 2500 \in Speeds
    BY DEF Speeds
  <2>3. /\ ValidSpeed(t).fc = t.fc /\ ValidSpeed(t).adv = t.adv
        /\ ValidSpeed(t).eee = t.eee
    BY <2>1 DEF Wanted
  <2>4. ASSUME NEW s \in Speeds, NEW d \in BOOLEAN
        PROVE  [t EXCEPT !.speed = s, !.full = d] \in TpType
    BY DEF Wanted, TpType
  <2>5. PICK s \in Speeds : s = 2500
    BY <2>2
  <2>6. PICK d \in BOOLEAN : d = TRUE
    BY Zenon
  <2>7. ValidSpeed(t) = [t EXCEPT !.speed = s, !.full = d]
    BY <2>1, <2>5, <2>6
  <2>8. ValidSpeed(t) \in TpType
    BY <2>4, <2>7
  <2>9. QED BY <2>3, <2>8, Zenon
<1> QED BY <1>1, <1>2, Zenon

(* The 5 GBit bit, which is left alone. *)
LEMMA UntouchedIs ==
  ASSUME NEW a
  PROVE  /\ (Untouched \cup a) \ {FiveGBit} = a \ {FiveGBit}
         /\ phy.adv \in SUBSET Modes /\ a \in SUBSET Modes => Untouched \cup a \in SUBSET Modes
BY DEF Untouched

(* rtl812xSetPhyMedium() programs what it is given and breaks the link. *)
LEMMA Programmed ==
  ASSUME NEW t \in Wanted, phy.adv \in SUBSET Modes, SetPhyMedium(t)
  PROVE  /\ tp' \in TpType /\ tp'.adv = t.adv /\ tp'.eee = t.eee /\ tp'.fc = t.fc
         /\ phy' \in PhyType /\ phy'.adv = Untouched \cup t.adv /\ phy'.eee = t.eee
         /\ phy'.pause = t.fc
         /\ carrier' = None
<1>1. /\ tp' = ValidSpeed(t) /\ carrier' = None
      /\ phy' = [on |-> TRUE, adv |-> Untouched \cup ValidSpeed(t).adv, pause |-> t.fc,
                 eee |-> t.eee]
  BY Zenon DEF SetPhyMedium, PhyAdv, EeeWanted
<1>2. t.fc \in BOOLEAN /\ t.eee \in BOOLEAN /\ Untouched \cup t.adv \in SUBSET Modes
  BY UntouchedIs DEF Wanted
<1>3. /\ phy' \in PhyType /\ phy'.adv = Untouched \cup t.adv /\ phy'.eee = t.eee
      /\ phy'.pause = t.fc
  BY <1>1, <1>2, ValidSpeedIs, Zenon DEF PhyType
<1> QED BY <1>1, <1>3, ValidSpeedIs, Zenon

(* rtl812xMedium2Adv() asks for what the medium says. *)
LEMMA MediumWanted ==
  ASSUME NEW m \in Media, tp \in TpType
  PROVE  /\ Medium2Adv(m) \in Wanted /\ Medium2Adv(m).adv = Adv(m)
         /\ Medium2Adv(m).eee = m.eee /\ Medium2Adv(m).fc = m.fc
<1>1. /\ m.speed \in Speeds \cup {0} /\ m.full \in BOOLEAN /\ m.fc \in BOOLEAN
      /\ m.eee \in BOOLEAN /\ Adv(m) \in SUBSET Modes /\ tp.eeeActive \in BOOLEAN
  BY MediaAre, AdvModes DEF TpType
<1> QED BY <1>1, Zenon DEF Medium2Adv, Wanted

(* What a link leaves in tp. *)
Linked ==
  [tp EXCEPT !.speed = StatusSpeed, !.full = StatusFull, !.fc = StatusFc,
             !.eee = EeeEnabled, !.eeeActive = EeeActive]

CarrierType == [speed : Speeds, full : BOOLEAN, fc : BOOLEAN]

(* It is well-typed, and takes the EEE setting back from the PHY.          *)
LEMMA LinkedIs ==
  ASSUME TypeOK, carrier \in CarrierType
  PROVE  /\ Linked \in TpType /\ Linked.adv = tp.adv
         /\ Linked.eee = phy.eee /\ Linked.fc = carrier.fc
         /\ Linked.speed = StatusSpeed
         /\ Linked.full = (carrier.full \/ StatusSpeed > 100)
         /\ Linked.eeeActive = EeeActive
<1>1. StatusSpeed \in Speeds
  BY DEF StatusSpeed, Speeds
<1>2. StatusFull \in BOOLEAN /\ EeeActive \in BOOLEAN /\ EeeEnabled \in BOOLEAN
      /\ StatusFc \in BOOLEAN
  BY DEF StatusFull, EeeActive, EeeEnabled, StatusFc, TypeOK, CarrierType
<1>3. tp \in TpType
  BY DEF TypeOK, TpType
<1>4. Linked \in TpType
  BY <1>1, <1>2, <1>3, Zenon DEF Linked, TpType
<1>5. /\ Linked.adv = tp.adv /\ Linked.speed = StatusSpeed
      /\ Linked.eee = EeeEnabled /\ Linked.fc = StatusFc
      /\ Linked.full = StatusFull /\ Linked.eeeActive = EeeActive
  BY <1>3 DEF Linked, TpType
<1> QED BY <1>4, <1>5, Zenon DEF StatusFull, EeeEnabled, StatusFc

(* Which media there are.                                                  *)
LEMMA MediaHas ==
  ASSUME NEW s \in Speeds, NEW f \in BOOLEAN, NEW c \in BOOLEAN, NEW e \in BOOLEAN,
         s > 100 => f, c \/ e => f /\ s > 10
  PROVE  [speed |-> s, full |-> f, fc |-> c, eee |-> e] \in Media
BY DEF Media

(* The entry of mediumArray for a link. *)
LEMMA MediumOfIs ==
  ASSUME NEW t \in TpType, t.speed > 100 => t.full
  PROVE  /\ MediumOf(t) \in Media
         /\ MediumOf(t).speed = t.speed /\ MediumOf(t).full = t.full
         /\ MediumOf(t).fc <=> t.fc /\ t.full /\ t.speed > 10
         /\ MediumOf(t).eee <=> t.eeeActive /\ t.full /\ t.speed > 10
<1>1. /\ t.speed \in Speeds /\ t.full \in BOOLEAN /\ t.fc \in BOOLEAN
      /\ t.eeeActive \in BOOLEAN
  BY DEF TpType
<1>2. PICK c \in BOOLEAN : c <=> t.fc /\ t.full /\ t.speed > 10
  OBVIOUS
<1>3. PICK e \in BOOLEAN : e <=> t.eeeActive /\ t.full /\ t.speed > 10
  OBVIOUS
<1>4. MediumOf(t) = [speed |-> t.speed, full |-> t.full, fc |-> c, eee |-> e]
  BY <1>1, <1>2, <1>3 DEF MediumOf
<1>5. MediumOf(t) \in Media
  BY <1>1, <1>2, <1>3, <1>4, MediaHas
<1>6. /\ MediumOf(t).speed = t.speed /\ MediumOf(t).full = t.full
      /\ MediumOf(t).fc = c /\ MediumOf(t).eee = e
  BY <1>4
<1> QED BY <1>2, <1>3, <1>5, <1>6

(* A mode is its speed and its duplex. *)
LEMMA ModeIs ==
  ASSUME NEW m \in Modes
  PROVE  m = Mode(m.speed, m.full)
BY DEF Mode, Modes

(* What autonegotiation settles on. *)
LEMMA Negotiated ==
  ASSUME TypeOK, Negotiate
  PROVE  /\ carrier' \in CarrierType
         /\ Mode(carrier'.speed, carrier'.full) \in phy.adv
         /\ Mode(carrier'.speed, carrier'.full) \in partner.modes
         /\ carrier'.fc => phy.pause /\ carrier'.full
<1>1. /\ phy.adv \subseteq Modes /\ phy.pause \in BOOLEAN /\ partner.pause \in BOOLEAN
  BY MediumAssumption DEF TypeOK
<1>2. PICK m \in phy.adv \cap partner.modes :
        carrier' = [speed |-> m.speed, full |-> m.full,
                    fc |-> m.full /\ phy.pause /\ partner.pause]
  BY Zenon DEF Negotiate
<1>3. m \in Modes /\ m.speed \in Speeds /\ m.full \in BOOLEAN /\ m = Mode(m.speed, m.full)
  BY <1>1, ModeIs DEF Modes
<1>4. PICK c \in BOOLEAN : c <=> m.full /\ phy.pause /\ partner.pause
  OBVIOUS
<1>5. carrier' = [speed |-> m.speed, full |-> m.full, fc |-> c]
  BY <1>1, <1>2, <1>3, <1>4
<1>6. carrier' \in CarrierType
  BY <1>3, <1>5 DEF CarrierType
<1>7. carrier'.speed = m.speed /\ carrier'.full = m.full /\ carrier'.fc = c
  BY <1>5
<1> QED BY <1>2, <1>3, <1>4, <1>6, <1>7

-----------------------------------------------------------------------------
(* Wake on LAN.                                                            *)

(* srtk5_set_wol_link_speed() advertises modes the NIC advertised before   *)
(* or knows.                                                               *)
LEMMA WolModesAre ==
  ASSUME TypeOK
  PROVE  WolModes \subseteq Modes
<1>1. tp.adv \subseteq Modes /\ phy.adv \subseteq Modes
  BY DEF TypeOK
<1>2. Slow(tp.adv) \subseteq tp.adv /\ LowestCommon \subseteq tp.adv
      /\ Untouched \subseteq phy.adv
  BY DEF Slow, LowestCommon, Slowest, Untouched
<1>3. CASE KnownModes = {} /\ Slow(tp.adv) # {}
  BY <1>1, <1>2, <1>3 DEF WolModes
<1>4. CASE KnownModes # {} /\ LowestCommon # {}
  BY <1>1, <1>2, <1>4 DEF WolModes
<1>5. CASE /\ ~(KnownModes = {} /\ Slow(tp.adv) # {})
           /\ ~(KnownModes # {} /\ LowestCommon # {})
  BY <1>1, <1>5 DEF WolModes
<1> QED BY <1>3, <1>4, <1>5

(* With a link it leaves a mode of the partner.                            *)
LEMMA WolModesMeet ==
  ASSUME TypeOK, CarrierInv, carrier # None
  PROVE  WolModes \cap partner.modes # {}
<1>1. /\ Mode(carrier.speed, carrier.full) \in phy.adv
      /\ Mode(carrier.speed, carrier.full) \in partner.modes
  BY Zenon DEF CarrierInv
<1>2. KnownModes = partner.modes /\ KnownModes # {}
  BY <1>1 DEF KnownModes
<1>3. CASE LowestCommon # {}
  <2>1. WolModes = Untouched \cup LowestCommon
    BY <1>2, <1>3 DEF WolModes
  <2>2. LowestCommon \subseteq partner.modes
    BY <1>2 DEF LowestCommon, Slowest
  <2>3. QED BY <1>3, <2>1, <2>2
<1>4. CASE LowestCommon = {}
  <2>1. WolModes = phy.adv
    BY <1>2, <1>4 DEF WolModes
  <2>2. QED BY <1>1, <2>1
<1> QED BY <1>3, <1>4

(* What disable() does to the PHY. *)
LEMMA Disabled ==
  ASSUME TypeOK, Disable
  PROVE  /\ phy' \in PhyType /\ phy'.pause = phy.pause
         /\ phy'.adv = phy.adv \/ phy'.adv = WolModes
         /\ carrier' = None \/ (carrier' = carrier /\ phy'.adv = phy.adv)
<1>1. phy \in PhyType
  BY DEF TypeOK, PhyType
<1>2. carrier' = None \/ (carrier' = carrier /\ phy'.adv = phy.adv)
  BY Zenon DEF Disable
<1>3. \/ phy' = [phy EXCEPT !.on = FALSE]
      \/ phy' = phy
      \/ phy' = [phy EXCEPT !.adv = WolModes]
  BY Zenon DEF Disable
<1>4. ASSUME NEW d \in BOOLEAN
      PROVE  [phy EXCEPT !.on = d] \in PhyType
  BY <1>1 DEF PhyType
<1>5. ASSUME NEW a \in SUBSET Modes
      PROVE  [phy EXCEPT !.adv = a] \in PhyType
  BY <1>1 DEF PhyType
<1>6. CASE phy' = [phy EXCEPT !.on = FALSE]
  <2>1. PICK d \in BOOLEAN : d = FALSE
    BY Zenon
  <2>2. phy' = [phy EXCEPT !.on = d]
    BY <1>6, <2>1
  <2>3. phy' \in PhyType
    BY <1>4, <2>2
  <2>4. phy'.pause = phy.pause /\ phy'.adv = phy.adv
    BY <1>1, <1>6 DEF PhyType
  <2>5. QED BY <1>2, <2>3, <2>4, Zenon
<1>7. CASE phy' = phy
  BY <1>1, <1>2, <1>7, Zenon
<1>8. CASE phy' = [phy EXCEPT !.adv = WolModes]
  <2>1. phy'.pause = phy.pause /\ phy'.adv = WolModes
    BY <1>1, <1>8 DEF PhyType
  <2>2. phy' \in PhyType
    BY <1>5, <1>8, WolModesAre
  <2>3. QED BY <1>2, <2>1, <2>2, Zenon
<1> QED BY <1>3, <1>6, <1>7, <1>8, Zenon

-----------------------------------------------------------------------------
(* What setLinkUp() reports is the link, and has an entry in mediumTable:  *)
(* with no speed the status word is not asked for, no flow control at 10   *)
(* MBit, and EEE only at the speed the medium was selected with.  A link   *)
(* of 5 GBit, which no bit that is asked for shows, becomes one of 10.     *)
LEMMA LinkReported ==
  ASSUME IInv, enabled, carrier # None
  PROVE  /\ Linked \in TpType
         /\ MediumOf(Linked) \in Media
         /\ Published(chip, MediumOf(Linked))
         /\ MediumOf(Linked).full = carrier.full
         /\ carrier.speed # 5000 =>
              MediumOf(Linked).speed = carrier.speed /\ MediumOf(Linked).fc = carrier.fc
         /\ carrier.speed = 5000 => MediumOf(Linked).speed = 10
<1>1. TypeOK /\ CarrierInv /\ SelectedInv
  BY Zenon DEF IInv
<1>2. carrier \in CarrierType /\ medium \in Media /\ chip \in Chips
  BY <1>1, Zenon DEF TypeOK, CarrierType
<1>3. carrier.speed \in Speeds /\ carrier.full \in BOOLEAN /\ carrier.fc \in BOOLEAN
  BY <1>2 DEF CarrierType
<1>4. Mode(carrier.speed, carrier.full) \in Adv(medium) \cup {FiveGBit}
  BY <1>1, Zenon DEF CarrierInv, SelectedInv
<1>5. \/ carrier.speed = 5000 /\ carrier.full
      \/ /\ carrier.speed \in {10, 100, 1000, 2500}
         /\ carrier.speed \in {1000, 2500} => carrier.full
         /\ medium.speed # 0 => carrier.speed = medium.speed
  <2>1. CASE Mode(carrier.speed, carrier.full) \in Adv(medium)
    BY <1>2, <1>3, <2>1, AdvIs
  <2>2. CASE Mode(carrier.speed, carrier.full) = FiveGBit
    BY <1>3, <2>2 DEF Mode, FiveGBit
  <2>3. QED BY <1>4, <2>1, <2>2
<1>6. StatusSpeed = IF carrier.speed = 5000 THEN 10 ELSE carrier.speed
  BY <1>5 DEF StatusSpeed
<1>7. /\ Linked \in TpType /\ Linked.fc = carrier.fc /\ Linked.speed = StatusSpeed
      /\ Linked.full = (carrier.full \/ StatusSpeed > 100)
      /\ Linked.eeeActive = EeeActive
  BY <1>1, <1>2, LinkedIs, Zenon
<1>8. Linked.full = carrier.full
  BY <1>3, <1>5, <1>6, <1>7
<1>9. Linked.speed > 100 => Linked.full
  BY <1>5, <1>6, <1>7, <1>8
<1>10. /\ MediumOf(Linked) \in Media
       /\ MediumOf(Linked).speed = Linked.speed /\ MediumOf(Linked).full = Linked.full
       /\ MediumOf(Linked).fc <=> Linked.fc /\ Linked.full /\ Linked.speed > 10
       /\ MediumOf(Linked).eee <=> Linked.eeeActive /\ Linked.full /\ Linked.speed > 10
  BY <1>7, <1>9, MediumOfIs
<1>11. medium.fc \/ medium.eee => medium.speed # 0 /\ medium.speed # 10
  BY <1>2, MediaAre
<1>12. carrier.speed # 5000 => MediumOf(Linked).fc = carrier.fc
  <2>1. carrier.fc => carrier.full /\ medium.fc
    BY <1>1, Zenon DEF CarrierInv, SelectedInv
  <2>2. carrier.speed # 5000 /\ carrier.fc => Linked.full /\ Linked.speed > 10
    BY <2>1, <1>5, <1>6, <1>7, <1>8, <1>11
  <2>3. MediumOf(Linked).fc \in BOOLEAN
    BY <1>10, MediaAre
  <2>4. QED BY <2>2, <2>3, <1>3, <1>7, <1>10
<1>13. MediumOf(Linked).eee => medium.eee
  <2>1. EeeActive => phy.eee
    BY DEF EeeActive
  <2>2. phy.eee = medium.eee
    BY <1>1, Zenon DEF SelectedInv
  <2>3. QED BY <2>1, <2>2, <1>7, <1>10
<1>14. Published(chip, MediumOf(Linked))
  <2>1. Published(chip, medium)
    BY <1>1, Zenon DEF SelectedInv
  <2>2. MediumOf(Linked).speed \in {10, 100, 1000, 2500}
    BY <1>5, <1>6, <1>7, <1>10
  <2>3. MediumOf(Linked).eee => MediumOf(Linked).speed = medium.speed
    BY <1>5, <1>6, <1>7, <1>10, <1>11, <1>13
  <2>4. CASE chip = "RTL8126"
    BY <2>4 DEF Published
  <2>5. CASE chip = "RTL8125B"
    BY <2>2, <2>5 DEF Published
  <2>6. CASE chip = "RTL8125A"
    <3>1. medium.speed < 2500 \/ (medium.speed = 2500 /\ ~medium.eee)
      BY <2>1, <2>6 DEF Published
    <3>2. \/ MediumOf(Linked).speed < 2500
          \/ MediumOf(Linked).speed = 2500 /\ ~MediumOf(Linked).eee
      BY <3>1, <2>2, <2>3, <1>13
    <3>3. QED BY <3>2, <2>6 DEF Published
  <2>7. QED BY <2>4, <2>5, <2>6, <1>2, MediumAssumption
<1> QED BY <1>6, <1>7, <1>8, <1>10, <1>12, <1>14

-----------------------------------------------------------------------------
(* The steps.                                                              *)

Rest == enabled \in BOOLEAN /\ wol \in BOOLEAN /\ pending \in BOOLEAN /\ linkUp \in BOOLEAN

(* The type invariant with its flags apart,                                *)
LEMMA TypeParts ==
  TypeOK <=> /\ chip \in Chips /\ eeeSpeeds \subseteq Speeds /\ medium \in Media
             /\ tp \in TpType /\ lpModes \subseteq Modes /\ phy \in PhyType
             /\ partner \in Partners /\ carrier \in CarrierType \cup {None}
             /\ reported \in Media \cup {None} /\ Rest
BY Zenon DEF TypeOK, TpType, PhyType, CarrierType, Rest

(* in the next state too.                                                  *)
LEMMA TypePartsNext ==
  TypeOK' <=> /\ chip' \in Chips /\ eeeSpeeds' \subseteq Speeds /\ medium' \in Media
              /\ tp' \in TpType /\ lpModes' \subseteq Modes /\ phy' \in PhyType
              /\ partner' \in Partners /\ carrier' \in CarrierType \cup {None}
              /\ reported' \in Media \cup {None} /\ Rest'
BY Zenon DEF TypeOK, TpType, PhyType, CarrierType, Rest

(* The flags keep their type. *)
LEMMA RestStep ==
  ASSUME TypeOK, [Next]_vars
  PROVE  Rest'
<1> USE DEF TypeOK, Rest
<1>1. CASE Negotiate
  BY <1>1, Zenon DEF Negotiate
<1>2. CASE LinkUp
  BY <1>2, Zenon DEF LinkUp
<1>3. CASE LinkDown
  BY <1>3, Zenon DEF LinkDown
<1>4. CASE Enable
  BY <1>4, Zenon DEF Enable, SetLinkDown, SetPhyMedium
<1>5. CASE Disable
  BY <1>5, Zenon DEF Disable
<1>6. CASE Restart
  BY <1>6, Zenon DEF Restart, SetPhyMedium
<1>7. ASSUME NEW m \in Media, SelectMedium(m) PROVE Rest'
  BY <1>7, Zenon DEF SelectMedium, SetLinkDown, SetPhyMedium
<1>8. ASSUME NEW p \in Partners, Plug(p) PROVE Rest'
  BY <1>8, Zenon DEF Plug
<1>9. ASSUME NEW b \in BOOLEAN, SetWakeOnMagicPacket(b) PROVE Rest'
  BY <1>9, Zenon DEF SetWakeOnMagicPacket
<1>10. CASE UNCHANGED vars
  BY <1>10, Zenon DEF vars
<1> QED BY <1>1, <1>2, <1>3, <1>4, <1>5, <1>6, <1>7, <1>8, <1>9, <1>10, Zenon DEF Next

(* An action that programs the PHY for the selected medium or, with the    *)
(* interface enabled, again from tp, breaks the link and reports none.     *)
LEMMA Reprogrammed ==
  ASSUME IInv, NEW t \in Wanted, SetPhyMedium(t), UNCHANGED <<chip, eeeSpeeds, partner>>,
         medium' \in Media, Published(chip, medium'), lpModes' \subseteq Modes,
         reported' = None, ~linkUp', Rest',
         enabled' => t.adv = Adv(medium') /\ t.eee = medium'.eee /\ (t.fc => medium'.fc)
  PROVE  IInv'
<1>1. /\ tp' \in TpType /\ tp'.adv = t.adv /\ tp'.eee = t.eee /\ tp'.fc = t.fc
      /\ phy' \in PhyType /\ phy'.adv = Untouched \cup t.adv /\ phy'.eee = t.eee
      /\ phy'.pause = t.fc
      /\ carrier' = None
  <2>1. phy.adv \in SUBSET Modes
    BY DEF IInv, TypeOK
  <2>2. QED BY <2>1, Programmed, Zenon
<1>2. TypeOK'
  BY <1>1, TypeParts, TypePartsNext, Zenon DEF IInv
<1>3. SelectedInv'
  <2>1. enabled' => phy'.adv \ {FiveGBit} = Adv(medium')
    BY <1>1, UntouchedIs, AdvIsModes
  <2>2. QED BY <1>1, <2>1, Zenon DEF SelectedInv
<1>4. CarrierInv' /\ ReportedIsNegotiated'
  BY <1>1, Zenon DEF CarrierInv, ReportedIsNegotiated
<1> QED BY <1>2, <1>3, <1>4, Zenon DEF IInv

(* The constructor selects autonegotiation.                                *)
LEMMA Initially == Init => IInv
<1> SUFFICES ASSUME Init PROVE IInv
  OBVIOUS
<1>1. AutoMedium \in Media
  BY Zenon DEF Media
<1>2. chip \in Chips /\ medium = AutoMedium /\ Published(chip, medium)
  <2>1. AutoMedium.speed = 0
    BY Zenon DEF AutoMedium
  <2>2. chip \in Chips /\ medium = AutoMedium
    BY Zenon DEF Init
  <2>3. CASE chip = "RTL8126"
    BY <2>2, <2>3 DEF Published
  <2>4. CASE chip = "RTL8125B"
    BY <2>1, <2>2, <2>4 DEF Published
  <2>5. CASE chip = "RTL8125A"
    BY <2>1, <2>2, <2>5 DEF Published
  <2>6. QED BY <2>2, <2>3, <2>4, <2>5, MediumAssumption
<1>3. eeeSpeeds \subseteq Speeds
  BY DEF Init, Speeds
<1>4. tp \in TpType
  <2>1. AdvAll \in SUBSET Modes
    BY <1>1, AdvModes, MediaAre DEF Adv, AutoMedium
  <2>2. PICK s \in Speeds : s = IF chip = "RTL8126" THEN 5000 ELSE 2500
    BY DEF Speeds
  <2>3. tp = [speed |-> s, full |-> TRUE, fc |-> TRUE, adv |-> AdvAll, eee |-> TRUE,
              eeeActive |-> FALSE]
    BY <2>2 DEF Init
  <2>4. QED BY <2>1, <2>3, Zenon DEF TpType
<1>5. phy \in PhyType
  <2>1. FiveGBit \in Modes
    <3>1. 5000 \in Speeds /\ TRUE \in BOOLEAN
      BY DEF Speeds
    <3>2. QED BY <3>1 DEF FiveGBit, Mode, Modes
  <2>2. PICK adv \in {{}} \cup (IF chip = "RTL8126" THEN {{FiveGBit}} ELSE {}) :
          phy = [on |-> FALSE, adv |-> adv, pause |-> FALSE, eee |-> FALSE]
    BY Zenon DEF Init
  <2>3. adv \in SUBSET Modes
    BY <2>1
  <2>4. QED BY <2>2, <2>3, Zenon DEF PhyType
<1>6. TypeOK
  <2>1. partner \in Partners /\ lpModes = {} /\ carrier = None /\ reported = None
    BY Zenon DEF Init
  <2>2. Rest
    BY Zenon DEF Init, Rest
  <2>3. QED BY <1>1, <1>2, <1>3, <1>4, <1>5, <2>1, <2>2, TypeParts, Zenon
<1>7. SelectedInv /\ CarrierInv /\ ReportedIsNegotiated
  BY <1>2, Zenon DEF Init, SelectedInv, CarrierInv, ReportedIsNegotiated
<1> QED BY <1>6, <1>7, Zenon DEF IInv

(* Every step keeps the inductive invariant. *)
LEMMA Step == IInv /\ [Next]_vars => IInv'
<1> SUFFICES ASSUME IInv, [Next]_vars PROVE IInv'
  OBVIOUS
<1>1. Rest' /\ TypeOK /\ SelectedInv /\ CarrierInv /\ ReportedIsNegotiated
  BY RestStep, Zenon DEF IInv
<1>2. tp \in TpType /\ phy \in PhyType /\ tp \in Wanted
  <2>1. tp \in TpType /\ phy \in PhyType
    BY <1>1, TypeParts, Zenon
  <2>2. QED BY <2>1 DEF TpType, Wanted
<1>3. CASE Negotiate
  <2>1. /\ pending' = TRUE
        /\ UNCHANGED <<fixed, enabled, medium, tp, lpModes, wol, phy, partner, linkUp,
                       reported>>
    BY <1>3, Zenon DEF Negotiate
  <2>2. TypeOK'
    BY <1>1, <1>3, <2>1, Negotiated, TypeParts, TypePartsNext, Zenon DEF fixed
  <2>3. SelectedInv'
    BY <1>1, <2>1, Zenon DEF SelectedInv, fixed
  <2>4. CarrierInv'
    BY <1>1, <1>3, <2>1, Negotiated, Zenon DEF CarrierInv
  <2>5. ReportedIsNegotiated'
    BY <1>1, <2>1 DEF ReportedIsNegotiated, fixed
  <2>6. QED BY <2>2, <2>3, <2>4, <2>5, Zenon DEF IInv
<1>4. CASE LinkUp
  <2>1. /\ enabled /\ carrier # None /\ ~pending' /\ tp' = Linked
        /\ lpModes' = partner.modes /\ reported' = MediumOf(Linked)
        /\ UNCHANGED <<fixed, enabled, medium, wol, phy, partner, carrier>>
    BY <1>4, Zenon DEF LinkUp, Linked
  <2>2. /\ Linked \in TpType /\ MediumOf(Linked) \in Media
        /\ Published(chip, MediumOf(Linked))
        /\ MediumOf(Linked).full = carrier.full
        /\ carrier.speed # 5000 =>
             MediumOf(Linked).speed = carrier.speed /\ MediumOf(Linked).fc = carrier.fc
        /\ carrier.speed = 5000 => MediumOf(Linked).speed = 10
    BY <2>1, LinkReported
  <2>3. carrier \in CarrierType
    BY <1>1, <2>1, TypeParts, Zenon
  <2>4. Linked.adv = tp.adv /\ Linked.eee = phy.eee /\ Linked.fc = carrier.fc
    BY <1>1, <2>3, LinkedIs, Zenon
  <2>5. partner.modes \subseteq Modes
    BY <1>1, MediumAssumption DEF TypeOK
  <2>6. TypeOK'
    BY <1>1, <2>1, <2>2, <2>5, TypeParts, TypePartsNext, Zenon DEF fixed
  <2>7. SelectedInv'
    BY <1>1, <2>1, <2>4, Zenon DEF SelectedInv, CarrierInv, fixed
  <2>8. CarrierInv'
    BY <1>1, <2>1, Zenon DEF CarrierInv
  <2>9. ReportedIsNegotiated'
    <3>1. /\ carrier' = carrier /\ chip' = chip /\ reported' = MediumOf(Linked)
          /\ carrier # None
      BY <2>1, Zenon DEF fixed
    <3>2. Published(chip', reported')
      BY <2>2, <3>1, Zenon
    <3>3. QED BY <2>2, <3>1, <3>2 DEF ReportedIsNegotiated
  <2>10. QED BY <2>6, <2>7, <2>8, <2>9, Zenon DEF IInv
<1>5. CASE LinkDown
  <2>1. /\ enabled /\ carrier = None /\ ~linkUp' /\ reported' = None /\ lpModes' = {}
        /\ tp' = ValidSpeed(tp)
        /\ phy' = [on |-> TRUE, adv |-> Untouched \cup ValidSpeed(tp).adv, pause |-> tp.fc,
                   eee |-> tp.eee]
        /\ UNCHANGED <<fixed, enabled, medium, wol, partner, carrier>>
    BY <1>5, Zenon DEF LinkDown, PhyAdv, EeeWanted
  <2>2. /\ tp' \in TpType /\ tp'.fc = tp.fc /\ tp'.adv = tp.adv /\ tp'.eee = tp.eee
    BY <1>2, <2>1, ValidSpeedIs, Zenon
  <2>3. /\ Untouched \cup tp.adv \in SUBSET Modes /\ tp.fc \in BOOLEAN
        /\ tp.eee \in BOOLEAN
    BY <1>2, UntouchedIs DEF TpType, PhyType
  <2>4. /\ phy' \in PhyType /\ phy'.adv = Untouched \cup tp.adv /\ phy'.eee = tp.eee
        /\ phy'.pause = tp.fc
    BY <2>1, <2>2, <2>3, Zenon DEF PhyType
  <2>5. TypeOK'
    BY <1>1, <2>1, <2>2, <2>4, TypeParts, TypePartsNext, Zenon DEF fixed
  <2>6. SelectedInv'
    <3>1. /\ medium \in Media /\ tp.adv = Adv(medium) /\ Published(chip, medium)
          /\ medium' = medium /\ chip' = chip /\ enabled' = enabled
      BY <1>1, <2>1, TypeParts, Zenon DEF SelectedInv, fixed
    <3>2. phy'.adv \ {FiveGBit} = Adv(medium')
      BY <2>4, <3>1, UntouchedIs, AdvIsModes
    <3>3. QED BY <1>1, <2>1, <2>2, <2>4, <3>1, <3>2, Zenon DEF SelectedInv
  <2>7. CarrierInv' /\ ReportedIsNegotiated'
    BY <2>1, Zenon DEF CarrierInv, ReportedIsNegotiated
  <2>8. QED BY <2>5, <2>6, <2>7, Zenon DEF IInv
<1>6. CASE Enable
  <2>1. /\ medium \in Media /\ Published(chip, medium)
    BY <1>1, TypeParts, Zenon DEF SelectedInv
  <2>2. /\ SetPhyMedium(Medium2Adv(medium)) /\ ~linkUp' /\ reported' = None
        /\ lpModes' = {} /\ UNCHANGED <<fixed, medium, partner>>
    BY <1>6, Zenon DEF Enable, SetLinkDown
  <2>3. /\ Medium2Adv(medium) \in Wanted /\ Medium2Adv(medium).adv = Adv(medium)
        /\ Medium2Adv(medium).eee = medium.eee /\ Medium2Adv(medium).fc = medium.fc
    BY <1>2, <2>1, MediumWanted, Zenon
  <2>4. QED BY <1>1, <2>1, <2>2, <2>3, Reprogrammed, Zenon DEF fixed
<1>7. CASE Disable
  <2>1. /\ phy' \in PhyType /\ phy'.pause = phy.pause
        /\ carrier' = None \/ (carrier' = carrier /\ phy'.adv = phy.adv)
    BY <1>1, <1>7, Disabled, Zenon
  <2>2. /\ ~enabled' /\ ~linkUp'
        /\ UNCHANGED <<fixed, medium, tp, lpModes, wol, partner, reported>>
    BY <1>7, Zenon DEF Disable
  <2>3. TypeOK'
    BY <1>1, <2>1, <2>2, TypeParts, TypePartsNext, Zenon DEF fixed
  <2>4. SelectedInv' /\ ReportedIsNegotiated'
    BY <1>1, <2>2 DEF SelectedInv, ReportedIsNegotiated, fixed
  <2>5. CarrierInv'
    BY <1>1, <2>1, <2>2, Zenon DEF CarrierInv
  <2>6. QED BY <2>3, <2>4, <2>5, Zenon DEF IInv
<1>8. CASE Restart
  <2>1. /\ enabled /\ SetPhyMedium(tp) /\ ~linkUp' /\ reported' = None
        /\ UNCHANGED <<fixed, enabled, medium, lpModes, wol, partner>>
    BY <1>8, Zenon DEF Restart
  <2>2. /\ medium \in Media /\ Published(chip, medium) /\ lpModes \subseteq Modes
        /\ tp.adv = Adv(medium) /\ tp.eee = medium.eee /\ (tp.fc => medium.fc)
    BY <1>1, <2>1, TypeParts, Zenon DEF SelectedInv
  <2>3. QED BY <1>1, <1>2, <2>1, <2>2, Reprogrammed, Zenon DEF fixed
<1>9. ASSUME NEW m \in Media, SelectMedium(m) PROVE IInv'
  <2>1. /\ Published(chip, m) /\ medium' = m
        /\ SetPhyMedium(Medium2Adv(m)) /\ ~linkUp' /\ reported' = None
        /\ lpModes' = {} /\ UNCHANGED <<fixed, partner>>
    BY <1>9, Zenon DEF SelectMedium, SetLinkDown
  <2>2. /\ Medium2Adv(m) \in Wanted /\ Medium2Adv(m).adv = Adv(m)
        /\ Medium2Adv(m).eee = m.eee /\ Medium2Adv(m).fc = m.fc
    BY <1>2, MediumWanted, Zenon
  <2>3. QED BY <1>1, <2>1, <2>2, Reprogrammed, Zenon DEF fixed
<1>10. ASSUME NEW p \in Partners, Plug(p) PROVE IInv'
  <2>1. /\ partner' = p /\ carrier' = None /\ pending' = (pending \/ carrier # None)
        /\ UNCHANGED <<fixed, enabled, medium, tp, lpModes, wol, phy, linkUp, reported>>
    BY <1>10, Zenon DEF Plug
  <2>2. TypeOK'
    BY <1>1, <2>1, TypeParts, TypePartsNext, Zenon DEF fixed
  <2>3. SelectedInv' /\ CarrierInv'
    BY <1>1, <2>1, Zenon DEF SelectedInv, CarrierInv, fixed
  <2>4. ReportedIsNegotiated'
    BY <1>1, <2>1 DEF ReportedIsNegotiated, fixed
  <2>5. QED BY <2>2, <2>3, <2>4, Zenon DEF IInv
<1>11. ASSUME NEW b \in BOOLEAN, SetWakeOnMagicPacket(b) PROVE IInv'
  <2>1. UNCHANGED <<fixed, enabled, medium, tp, lpModes, phy, partner, carrier, pending,
                    linkUp, reported>>
    BY <1>11, Zenon DEF SetWakeOnMagicPacket
  <2>2. TypeOK'
    BY <1>1, <2>1, TypeParts, TypePartsNext, Zenon DEF fixed
  <2>3. SelectedInv' /\ CarrierInv'
    BY <1>1, <2>1, Zenon DEF SelectedInv, CarrierInv, fixed
  <2>4. ReportedIsNegotiated'
    BY <1>1, <2>1 DEF ReportedIsNegotiated, fixed
  <2>5. QED BY <2>2, <2>3, <2>4, Zenon DEF IInv
<1>12. CASE UNCHANGED vars
  <2>1. TypeOK'
    BY <1>1, <1>12, TypeParts, TypePartsNext, Zenon DEF vars, fixed
  <2>2. SelectedInv' /\ CarrierInv'
    BY <1>1, <1>12, Zenon DEF SelectedInv, CarrierInv, vars, fixed
  <2>3. ReportedIsNegotiated'
    BY <1>1, <1>12 DEF ReportedIsNegotiated, vars, fixed
  <2>4. QED BY <2>1, <2>2, <2>3, Zenon DEF IInv
<1> QED BY <1>3, <1>4, <1>5, <1>6, <1>7, <1>8, <1>9, <1>10, <1>11, <1>12, Zenon DEF Next

-----------------------------------------------------------------------------
(* The inductive invariant holds. *)
THEOREM Invariant == Spec => []IInv
BY Initially, Step, PTL DEF Spec

(* The variables have their types, whoever the link partners are.          *)
THEOREM TypeCorrect == Spec => []TypeOK
<1>1. IInv => TypeOK
  BY Zenon DEF IInv
<1> QED BY <1>1, Invariant, PTL

(* While the interface is enabled, rtl812xSetPhyMedium() keeps the PHY at  *)
(* the selected medium, although every link overwrites what it reads; 5    *)
(* GBit, which it never programs, is not part of this.                     *)
THEOREM MediumIsKept == Spec => []AdvertisesSelected
<1>1. IInv => AdvertisesSelected
  <2>1. IInv => medium \in Media
    BY TypeParts, Zenon DEF IInv
  <2>2. QED BY <2>1, AdvIsModes, Zenon DEF IInv, SelectedInv, AdvertisesSelected
<1> QED BY <1>1, Invariant, PTL

(* setLinkUp() reports the link that was negotiated, as a medium that      *)
(* setupMediumDict() published; one of 5 GBit is reported as 10 MBit.      *)
THEOREM LinkIsReported == Spec => []ReportedIsNegotiated
<1>1. IInv => ReportedIsNegotiated
  BY Zenon DEF IInv
<1> QED BY <1>1, Invariant, PTL

(* srtk5_set_wol_link_speed() leaves a mode the partner has, whatever      *)
(* modes that is.                                                          *)
THEOREM WakeUpPossible == Spec => WolKeepsLinkPossible
<1>1. IInv /\ [Next]_vars =>
        [enabled /\ ~enabled' /\ wol /\ carrier # None
           => phy'.adv \cap partner.modes # {}]_vars
  <2> SUFFICES ASSUME IInv, Next, enabled, ~enabled', carrier # None
               PROVE  phy'.adv \cap partner.modes # {}
    BY Zenon
  <2>1. Disable
    <3>1. ASSUME NEW m \in Media, SelectMedium(m) PROVE FALSE
      BY <3>1, Zenon DEF SelectMedium
    <3>2. ASSUME NEW p \in Partners, Plug(p) PROVE FALSE
      BY <3>2, Zenon DEF Plug
    <3>3. ASSUME NEW b \in BOOLEAN, SetWakeOnMagicPacket(b) PROVE FALSE
      BY <3>3, Zenon DEF SetWakeOnMagicPacket
    <3>4. ~Negotiate /\ ~LinkUp /\ ~LinkDown /\ ~Enable /\ ~Restart
      BY Zenon DEF Negotiate, LinkUp, LinkDown, Enable, Restart
    <3>5. QED BY <3>1, <3>2, <3>3, <3>4, Zenon DEF Next
  <2>2. phy'.adv = phy.adv \/ phy'.adv = WolModes
    BY <2>1, Disabled, Zenon DEF IInv
  <2>3. phy.adv \cap partner.modes # {}
    BY Zenon DEF IInv, CarrierInv
  <2>4. WolModes \cap partner.modes # {}
    BY WolModesMeet, Zenon DEF IInv
  <2>5. QED BY <2>2, <2>3, <2>4, Zenon
<1> QED BY <1>1, Invariant, PTL DEF Spec, WolKeepsLinkPossible
============================================================================
