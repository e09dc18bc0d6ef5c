------------------------------ MODULE TxQueue ------------------------------
(***************************************************************************)
(* What the transmit side of the driver promises the network stack: the    *)
(* packets it takes are sent in the order they were taken, a packet goes   *)
(* back to the mbuf allocator once and only after it was sent, and a link  *)
(* that goes down returns every packet.                                    *)
(***************************************************************************)
EXTENDS Naturals, Sequences

CONSTANT Packets

VARIABLES
  queue,  (* packets handed to the NIC and not yet released, oldest first *)
  sent    (* how many of them, from the head, have left                   *)

vars == <<queue, sent>>

Init == queue = <<>> /\ sent = 0

Queued == {queue[i] : i \in 1 .. Len(queue)}

Accept(p) ==
  /\ p \notin Queued
  /\ queue' = Append(queue, p)
  /\ UNCHANGED sent

Transmit ==
  /\ sent < Len(queue)
  /\ sent' = sent + 1
  /\ UNCHANGED queue

Release ==
  /\ sent > 0
  /\ queue' = Tail(queue)
  /\ sent' = sent - 1

Flush == queue' = <<>> /\ sent' = 0

Next == Transmit \/ Release \/ Flush \/ \E p \in Packets : Accept(p)

Spec == Init /\ [][Next]_vars
=============================================================================
