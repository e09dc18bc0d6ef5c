------------------------------ MODULE MCMedium ------------------------------
(* Medium with five link partners: an old half duplex hub, a 100 MBit      *)
(* switch without EEE, a GBit switch whose EEE is limited to 100 MBit, and *)
(* two multi-gigabit switches.                                             *)
EXTENDS Medium

AllChips == {"RTL8125A", "RTL8125B", "RTL8126"}

Partner(modes, pause, eee) == [modes |-> modes, pause |-> pause, eee |-> eee]

PartnersM ==
  { Partner({Mode(10, FALSE)}, FALSE, {}),
    Partner({Mode(10, TRUE), Mode(100, FALSE), Mode(100, TRUE)}, TRUE, {}),
    Partner(AdvAll \ {Mode(2500, TRUE)}, TRUE, {100}),
    Partner(AdvAll, TRUE, {100, 1000, 2500}),
    Partner(AdvAll \cup {Mode(5000, TRUE)}, FALSE, {100, 1000, 2500}) }
=============================================================================
