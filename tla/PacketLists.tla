---------------------------- MODULE PacketLists ----------------------------
(***************************************************************************)
(* What the pool promises: each of its lists is a queue of packets that is *)
(* never empty, filled at one end and emptied at the other by two threads  *)
(* that do not wait for each other, until all of it is given up at once.   *)
(***************************************************************************)
EXTENDS Naturals, Sequences

CONSTANTS Packets, Lists

VARIABLE list

Queues == {q \in Seq(Packets) : q # <<>>}

Init == list \in [Lists -> Queues]

Held == UNION {{list[l][i] : i \in DOMAIN list[l]} : l \in Lists}

Put(l, p) ==
  /\ p \notin Held /\ list[l] # <<>>
  /\ list' = [list EXCEPT ![l] = Append(@, p)]

Take(l) ==
  /\ Len(list[l]) > 1
  /\ list' = [list EXCEPT ![l] = Tail(@)]

GiveUp == list' = [l \in Lists |-> <<>>]

Next ==
  \/ \E l \in Lists : Take(l) \/ \E p \in Packets : Put(l, p)
  \/ GiveUp

Spec == Init /\ [][Next]_list
=============================================================================
