------------------------------- MODULE RxPool -------------------------------
(***************************************************************************)
(* SimpleRTK5RxPool: two singly linked lists of spare mbufs that the       *)
(* receiver falls back on when the system has none.  getPacket() unlinks   *)
(* at the head, on the thread that runs rxInterrupt; refillPool() appends  *)
(* at the tail, on a thread call.  No lock protects the lists: the rule    *)
(* that the last packet is never taken keeps the two apart.                *)
(*                                                                         *)
(* One step is one access to a field the other thread uses.                *)
(***************************************************************************)
EXTENDS Integers, Sequences

CONSTANTS
  Packets,      (* the mbufs                                                *)
  NoPacket,     (* NULL                                                     *)
  Capacity,     (* mCapacity and cCapacity                                  *)
  RefillFails   (* can refillPool's mbuf_allocpacket fail?                  *)

(* The list of plain mbufs and the list of mbufs with a cluster. *)
Lists == {"m", "c"}

ASSUME RxPoolAssumption ==
  /\ NoPacket \notin Packets
  /\ Capacity \in [Lists -> Nat \ {0, 1}]
  /\ RefillFails \in BOOLEAN

(* mRefillTresh, cRefillTresh *)
RefillTresh(l) == Capacity[l] - Capacity[l] \div 2

VARIABLES
  head,             (* mPktHead, cPktHead                                   *)
  tail,             (* mPktTail, cPktTail                                   *)
  num,              (* mPktNum, cPktNum, updated atomically                 *)
  next,             (* mbuf_nextpkt of every packet                         *)
  avail,            (* packets that belong to the system                    *)
  refillScheduled,
  callPending,      (* the thread call refillCE is queued                   *)
  getPc, getList, getPkt,       (* getPacket: where, which list, m          *)
  refPc, refList, refPkt,       (* refillPool: where, which list, m         *)
  freePc                        (* free: "alive", "cancelled", "freed"      *)

listVars == <<head, tail, num, next>>
getVars  == <<getPc, getList, getPkt>>
refVars  == <<refPc, refList, refPkt>>
vars     == <<listVars, avail, refillScheduled, callPending, getVars, refVars,
              freePc>>

-----------------------------------------------------------------------------
(* initWithCapacity(): both lists are full, of different packets. *)
Distinct(s, t) ==
  /\ \A i, j \in DOMAIN s : s[i] = s[j] => i = j
  /\ \A i, j \in DOMAIN t : t[i] = t[j] => i = j
  /\ \A i \in DOMAIN s, j \in DOMAIN t : s[i] # t[j]

Successor(s, p) ==
  IF \E i \in DOMAIN s : s[i] = p /\ i + 1 \in DOMAIN s
  THEN s[(CHOOSE i \in DOMAIN s : s[i] = p) + 1] ELSE NoPacket

Init ==
  /\ \E s \in [1 .. Capacity["m"] -> Packets], t \in [1 .. Capacity["c"] -> Packets] :
       /\ Distinct(s, t)
       /\ head = [l \in Lists |-> IF l = "m" THEN s[1] ELSE t[1]]
       /\ tail = [l \in Lists |-> IF l = "m" THEN s[Capacity["m"]]
                                             ELSE t[Capacity["c"]]]
       /\ next = [p \in Packets |-> IF Successor(s, p) # NoPacket
                                    THEN Successor(s, p) ELSE Successor(t, p)]
       /\ avail = Packets \ ({s[i] : i \in DOMAIN s} \cup {t[i] : i \in DOMAIN t})
  /\ num = Capacity
  /\ refillScheduled = FALSE /\ callPending = FALSE
  /\ getPc = "idle" /\ getList = "m" /\ getPkt = NoPacket
  /\ refPc = "idle" /\ refList = "m" /\ refPkt = NoPacket
  /\ freePc = "alive"

-----------------------------------------------------------------------------
(* getPacket(), when mbuf_allocpacket has failed. *)

(* The last packet of a list is never taken. *)
MayTake(l) == num[l] > 1

GetPacket(l) ==
  /\ getPc = "idle" /\ freePc = "alive" /\ MayTake(l)
  /\ num' = [num EXCEPT ![l] = @ - 1]
  /\ getPc' = "unlink" /\ getList' = l
  /\ UNCHANGED <<head, tail, next, avail, refillScheduled, callPending, getPkt,
                 refVars, freePc>>

Unlink ==
  /\ getPc = "unlink"
  /\ getPkt' = head[getList]
  /\ head' = [head EXCEPT ![getList] = next[@]]
  /\ getPc' = "detach"
  /\ UNCHANGED <<tail, num, next, avail, refillScheduled, callPending, getList,
                 refVars, freePc>>

(* mbuf_setnextpkt(m, NULL). *)
Detach ==
  /\ getPc = "detach"
  /\ next' = [next EXCEPT ![getPkt] = NoPacket]
  /\ getPc' = "check"
  /\ UNCHANGED <<head, tail, num, avail, refillScheduled, callPending, getList,
                 getPkt, refVars, freePc>>

(* Is a refill needed, and not on its way already? *)
MustRefill == num[getList] < RefillTresh(getList) /\ ~refillScheduled

(* Schedule a refill if the list runs low; the packet goes up the stack,   *)
(* which will free it.                                                     *)
CheckRefill ==
  /\ getPc = "check"
  /\ refillScheduled' = (refillScheduled \/ MustRefill)
  /\ callPending' = (callPending \/ MustRefill)
  /\ avail' = avail \cup {getPkt}
  /\ getPkt' = NoPacket /\ getPc' = "idle" /\ getList' = "m"
  /\ UNCHANGED <<listVars, refVars, freePc>>

Getter ==
  \/ \E l \in Lists : GetPacket(l)
  \/ Unlink \/ Detach \/ CheckRefill

-----------------------------------------------------------------------------
(* refillPool(), on the thread call: first the mbufs, then the clusters.   *)

RefillStart ==
  /\ callPending /\ refPc = "idle"
  /\ callPending' = FALSE
  /\ refPc' = "loop" /\ refList' = "m"
  /\ UNCHANGED <<listVars, avail, refillScheduled, getVars, freePc, refPkt>>

RefillAlloc(p) ==
  /\ refPc = "loop" /\ num[refList] < Capacity[refList]
  /\ p \in avail
  /\ avail' = avail \ {p} /\ refPkt' = p
  /\ refPc' = "link"
  /\ UNCHANGED <<listVars, refillScheduled, callPending, getVars, freePc,
                 refList>>

(* mbuf_allocpacket fails: neither list is filled any further.            *)
RefillGiveUp ==
  /\ refPc = "loop" /\ num[refList] < Capacity[refList]
  /\ RefillFails
  /\ refPc' = "done"
  /\ UNCHANGED <<listVars, avail, refillScheduled, callPending, getVars,
                 freePc, refList, refPkt>>

LinkNothing == next' = next
(* mbuf_setnextpkt(tail, m). *)
LinkAtTail == next' = [next EXCEPT ![tail[refList]] = refPkt]

RefillLink ==
  /\ refPc = "link"
  /\ LinkAtTail
  /\ refPc' = "tail"
  /\ UNCHANGED <<head, tail, num, avail, refillScheduled, callPending, getVars,
                 freePc, refList, refPkt>>

RefillTail ==
  /\ refPc = "tail"
  /\ tail' = [tail EXCEPT ![refList] = refPkt]
  /\ refPc' = "count"
  /\ UNCHANGED <<head, num, next, avail, refillScheduled, callPending, getVars,
                 freePc, refList, refPkt>>

RefillCount ==
  /\ refPc = "count"
  /\ num' = [num EXCEPT ![refList] = @ + 1]
  /\ refPkt' = NoPacket /\ refPc' = "loop"
  /\ UNCHANGED <<head, tail, next, avail, refillScheduled, callPending,
                 getVars, freePc, refList>>

RefillNextList ==
  /\ refPc = "loop" /\ num[refList] >= Capacity[refList]
  /\ IF refList = "m" THEN refList' = "c" /\ refPc' = "loop"
                      ELSE refList' = refList /\ refPc' = "done"
  /\ UNCHANGED <<listVars, avail, refillScheduled, callPending, getVars,
                 freePc, refPkt>>

StayScheduled == refillScheduled' = refillScheduled
ClearScheduled == refillScheduled' = FALSE

RefillDone ==
  /\ refPc = "done"
  /\ ClearScheduled
  /\ refPc' = "idle" /\ refList' = "m"
  /\ UNCHANGED <<listVars, avail, callPending, getVars, freePc, refPkt>>

Refiller ==
  \/ RefillStart \/ RefillGiveUp \/ RefillLink \/ RefillTail \/ RefillCount
  \/ RefillNextList \/ RefillDone
  \/ \E p \in Packets : RefillAlloc(p)

-----------------------------------------------------------------------------
(* free(), when the last reference is released: the interface is disabled  *)
(* then and nobody calls getPacket() any more, but a refill may run.       *)

(* thread_call_cancel() takes the call from the queue, if it is there.     *)
FreeCancel ==
  /\ freePc = "alive" /\ getPc = "idle"
  /\ freePc' = "cancelled" /\ callPending' = FALSE
  /\ UNCHANGED <<listVars, avail, refillScheduled, getVars, refVars>>

RefillIgnored == TRUE                                             (* faulty *)
(* After IOSleep(1) a refill that was running is taken to be over: it does *)
(* not wait for memory (MBUF_DONTWAIT).                                    *)
RefillOver == refPc = "idle"

(* The packets from the head along next; a list is one longer than         *)
(* Capacity while getPacket has still to unlink a packet that refillPool   *)
(* has replaced.                                                           *)
Followed ==
  [s \in Seq(Packets) |->
     IF s = <<>> THEN s
     ELSE IF next[s[Len(s)]] = NoPacket THEN s ELSE Append(s, next[s[Len(s)]])]
ListOf(l) ==
  LET first[n \in 0 .. Capacity[l]] ==
        IF n > 0 THEN Followed[first[n - 1]]
        ELSE IF head[l] = NoPacket THEN <<>> ELSE <<head[l]>>
  IN  first[Capacity[l]]

(* What mbuf_freem_list() frees. *)
Listed(l) == LET s == ListOf(l) IN {s[i] : i \in DOMAIN s}

FreeLists ==
  /\ freePc = "cancelled" /\ RefillOver
  /\ freePc' = "freed"
  /\ avail' = avail \cup UNION {Listed(l) : l \in Lists}
  /\ head' = [l \in Lists |-> NoPacket] /\ tail' = [l \in Lists |-> NoPacket]
  /\ num' = [l \in Lists |-> 0]
  /\ UNCHANGED <<next, refillScheduled, callPending, getVars, refVars>>

Free == FreeCancel \/ FreeLists

Next == Getter \/ Refiller \/ Free

Spec == Init /\ [][Next]_vars

-----------------------------------------------------------------------------
(* Safety.                                                                 *)

(* The variables have their types; no list runs empty before free().       *)
TypeOK ==
  /\ freePc \in {"alive", "cancelled", "freed"}
  /\ head \in [Lists -> Packets \cup {NoPacket}]
  /\ tail \in [Lists -> Packets \cup {NoPacket}]
  /\ num \in [Lists -> Nat]
  /\ IF freePc = "freed"
     THEN \A l \in Lists : /\ head[l] = NoPacket /\ tail[l] = NoPacket
                           /\ num[l] = 0
     ELSE \A l \in Lists : /\ head[l] \in Packets /\ tail[l] \in Packets
                           /\ num[l] \in 1 .. Capacity[l]
  /\ next \in [Packets -> Packets \cup {NoPacket}]
  /\ avail \subseteq Packets
  /\ refillScheduled \in BOOLEAN /\ callPending \in BOOLEAN
  /\ getPc \in {"idle", "unlink", "detach", "check"} /\ getList \in Lists
  /\ getPkt \in Packets \cup {NoPacket}
  /\ refPc \in {"idle", "loop", "link", "tail", "count", "done"}
  /\ refList \in Lists /\ refPkt \in Packets \cup {NoPacket}

(* When the pool is gone every packet it took is back with the system: the *)
(* lists were whole, and neither getPacket() nor refillPool() was holding  *)
(* one that free() could not see.                                          *)
AllGivenBack == freePc = "freed" => avail = Packets

-----------------------------------------------------------------------------
(* What the lists are for: queues, each from its head along next.          *)
L == INSTANCE PacketLists WITH list <- [l \in Lists |-> ListOf(l)]

(* The linked lists behave as queues: no packet is lost, taken twice or    *)
(* taken out of order, although nothing locks them.                        *)
PacketListsSpec == L!Spec

-----------------------------------------------------------------------------
(* Liveness: the thread call runs, and getPacket is never preempted for    *)
(* ever.                                                                   *)
Fairness ==
  /\ WF_vars(Refiller)
  /\ WF_vars(Unlink) /\ WF_vars(Detach) /\ WF_vars(CheckRefill)

FairSpec == Spec /\ Fairness

(* Once the system has mbufs again and getPacket leaves the lists alone,   *)
(* a refill that was scheduled ends, and the next one can be scheduled,    *)
(* unless the pool is freed first.                                         *)
RefillEnds ==
  <>[](getPc = "idle") =>
    (refillScheduled ~> ~refillScheduled \/ freePc # "alive")
=============================================================================
