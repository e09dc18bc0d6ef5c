---------------------------- MODULE RxPool_proofs ----------------------------
(***************************************************************************)
(* The receive packet pool for every capacity of its lists and every set   *)
(* of packets: nothing is lost when it is freed, and its linked lists      *)
(* implement the queues of PacketLists.  IInv is the inductive invariant.  *)
(***************************************************************************)
EXTENDS RxPool, FiniteSetTheorems, SequenceTheorems, TLAPS

-----------------------------------------------------------------------------
(* The inductive invariant.                                                *)

(* Where the two threads are decides what their locals hold, and free()    *)
(* starts when getPacket() is called no more.                              *)
PcInv ==
  /\ getPc \in {"detach", "check"} <=> getPkt # NoPacket
  /\ refPc \in {"link", "tail", "count"} <=> refPkt # NoPacket
  /\ refPc \in {"link", "tail", "count"} => num[refList] < Capacity[refList]
  /\ freePc # "alive" => getPc = "idle" /\ ~callPending
  /\ freePc = "freed" => refPc = "idle"

(* How many packets of a list are not counted: one that getPacket() has    *)
(* counted off and not unlinked yet, one linked and not counted yet.       *)
Pending(l)   == IF getPc = "unlink" /\ getList = l THEN 1 ELSE 0
Uncounted(l) == IF refPc \in {"tail", "count"} /\ refList = l THEN 1 ELSE 0

(* s is what a list links from its head to its tail.                       *)
Linked(l, s) ==
  /\ Len(s) = num[l] + Pending(l) + Uncounted(l)
  /\ head[l] = s[1]
  /\ \A i \in 1 .. Len(s) - 1 : next[s[i]] = s[i + 1]
  /\ next[s[Len(s)]] = NoPacket
  /\ s[Len(s)] = IF refPc = "tail" /\ refList = l THEN refPkt ELSE tail[l]

(* No packet is twice in the lists q.                                      *)
Apart(q) ==
  \A l, k \in Lists : \A i \in DOMAIN q[l], j \in DOMAIN q[k] :
    q[l][i] = q[k][j] => l = k /\ i = j

InLists(q) == UNION {{q[l][i] : i \in DOMAIN q[l]} : l \in Lists}

(* The packet each thread holds outside of the lists. *)
Taken == IF getPkt = NoPacket THEN {} ELSE {getPkt}
Fresh == IF refPc = "link" THEN {refPkt} ELSE {}

(* A packet is in a list, with a thread or with the system, and only one   *)
(* that getPacket() is about to detach links to another.                   *)
Placed(q) ==
  /\ Taken \cap InLists(q) = {} /\ Fresh \cap (InLists(q) \cup Taken) = {}
  /\ avail = Packets \ (InLists(q) \cup Taken \cup Fresh)
  /\ \A p \in avail \cup Fresh : next[p] = NoPacket
  /\ getPc = "check" => next[getPkt] = NoPacket

PoolInv(q) ==
  /\ \A l \in Lists : Linked(l, q[l])
  /\ Apart(q) /\ Placed(q)

AllLists == [l \in Lists |-> ListOf(l)]

IInv ==
  /\ TypeOK /\ PcInv
  /\ IF freePc = "freed" THEN avail = Packets
     ELSE AllLists \in [Lists -> Seq(Packets)] /\ PoolInv(AllLists)

-----------------------------------------------------------------------------
(* The least-number principle, from the well-founded order of the finite   *)
(* sets 0 .. n, and induction from it.                                     *)

(* A set of numbers has a least one.                                       *)
LEMMA LeastNat ==
  ASSUME NEW S \in SUBSET Nat, S # {}
  PROVE  \E n \in S : \A m \in S : n <= m
<1> DEFINE T == {0 .. n : n \in S}
<1>1. T \subseteq FiniteSubsetsOf(Nat)
  <2>1. \A n \in S : 0 .. n \in SUBSET Nat /\ IsFiniteSet(0 .. n)
    BY FS_Interval
  <2>2. QED BY <2>1, Zenon DEF FiniteSubsetsOf
<1>2. T # {}
  OBVIOUS
<1>3. IsWellFoundedOn(StrictSubsetOrdering(Nat), FiniteSubsetsOf(Nat))
  BY FS_StrictSubsetOrderingWellFounded, Zenon
<1> HIDE DEF T
<1>4. PICK x \in T : \A y \in T : ~ (<<y, x>> \in StrictSubsetOrdering(Nat))
  BY <1>1, <1>2, <1>3, WFMin, Zenon
<1>5. PICK n \in S : x = 0 .. n
  BY DEF T
<1>6. SUFFICES ASSUME NEW m \in S, m < n PROVE FALSE
  BY <1>5
<1>7. /\ 0 .. m \in T /\ 0 .. m \in SUBSET Nat /\ 0 .. n \in SUBSET Nat
      /\ 0 .. m \subseteq 0 .. n /\ n \in 0 .. n /\ n \notin 0 .. m
  BY <1>6 DEF T
<1>8. <<0 .. m, 0 .. n>> \in StrictSubsetOrdering(Nat)
  <2>1. 0 .. m # 0 .. n
    BY <1>7, Zenon
  <2>2. QED BY <1>7, <2>1, Zenon DEF StrictSubsetOrdering
<1> QED BY <1>4, <1>5, <1>7, <1>8, Zenon

(* Induction over the numbers, with a set in the place of a predicate.     *)
LEMMA NatSetInduction ==
  ASSUME NEW T \in SUBSET Nat, 0 \in T, \A n \in T : n + 1 \in T
  PROVE  T = Nat
<1>1. SUFFICES ASSUME Nat \ T # {} PROVE FALSE
  OBVIOUS
<1>2. PICK n \in Nat \ T : \A m \in Nat \ T : n <= m
  <2>1. Nat \ T \in SUBSET Nat
    OBVIOUS
  <2>2. QED BY <1>1, <2>1, LeastNat, Zenon
<1>3. n # 0
  OBVIOUS
<1>4. n - 1 \in T
  BY <1>2, <1>3
<1> QED BY <1>2, <1>4

(* What a solution of ListOf's recursion is, ListOf returns.               *)
LEMMA ListUnique ==
  ASSUME NEW l \in Lists, NEW g,
         g = [n \in 0 .. Capacity[l] |->
                IF n > 0 THEN Followed[g[n - 1]]
                ELSE IF head[l] = NoPacket THEN <<>> ELSE <<head[l]>>]
  PROVE  ListOf(l) = g[Capacity[l]]
<1> USE RxPoolAssumption
<1> DEFINE D == 0 .. Capacity[l]
           step(f, n) == IF n > 0 THEN Followed[f[n - 1]]
                         ELSE IF head[l] = NoPacket THEN <<>> ELSE <<head[l]>>
           first == CHOOSE f : f = [n \in D |-> step(f, n)]
<1>1. g = [n \in D |-> step(g, n)]
  OBVIOUS
<1>2. Capacity[l] \in Nat
  OBVIOUS
<1>3. first = [n \in D |-> step(first, n)]
  <2>1. \E f : f = [n \in D |-> step(f, n)]
    BY <1>1
  <2>2. QED BY <2>1
<1>4. \A n \in D : first[n] = g[n]
  <2> HIDE DEF first
  <2> DEFINE T == {n \in Nat : n \in D => first[n] = g[n]}
  <2>1. 0 \in D /\ 0 \in T
    BY <1>1, <1>2, <1>3
  <2>2. ASSUME NEW n \in T PROVE n + 1 \in T
    <3>1. SUFFICES ASSUME n + 1 \in D PROVE first[n + 1] = g[n + 1]
      OBVIOUS
    <3>2. n \in D /\ first[n] = g[n] /\ n + 1 > 0 /\ (n + 1) - 1 = n
      BY <1>2, <2>2, <3>1
    <3>3. first[n + 1] = Followed[first[n]] /\ g[n + 1] = Followed[g[n]]
      BY <1>1, <1>2, <1>3, <3>1, <3>2
    <3>4. QED BY <3>2, <3>3
  <2>3. T \subseteq Nat
    OBVIOUS
  <2> HIDE DEF T
  <2>4. T = Nat
    BY <2>1, <2>2, <2>3, NatSetInduction, Zenon
  <2>5. ASSUME NEW n \in D PROVE first[n] = g[n]
    <3>1. n \in T
      BY <1>2, <2>4
    <3>2. QED BY <3>1, Zenon DEF T
  <2>6. QED BY <2>5
<1>5. ListOf(l) = first[Capacity[l]]
  BY DEF ListOf
<1> HIDE DEF first
<1> QED BY <1>2, <1>4, <1>5

(* ListOf returns the packets that are linked from the head of a list.     *)
LEMMA ListIsLinked ==
  ASSUME NEW l \in Lists, NEW s \in Seq(Packets), s # <<>>,
         Len(s) <= Capacity[l] + 1, head[l] = s[1],
         next \in [Packets -> Packets \cup {NoPacket}],
         \A i \in 1 .. Len(s) - 1 : next[s[i]] = s[i + 1],
         next[s[Len(s)]] = NoPacket
  PROVE  ListOf(l) = s
<1> USE RxPoolAssumption
<1> DEFINE D == 0 .. Capacity[l]
           step(f, n) == IF n > 0 THEN Followed[f[n - 1]]
                         ELSE IF head[l] = NoPacket THEN <<>> ELSE <<head[l]>>
           upto(n) == IF n < Len(s) THEN n + 1 ELSE Len(s)
           g == [n \in D |-> [i \in 1 .. upto(n) |-> s[i]]]
<1>1. /\ Capacity[l] \in Nat /\ Len(s) \in Nat /\ Len(s) >= 1
      /\ \A i \in 1 .. Len(s) : s[i] \in Packets
  OBVIOUS
<1>2. \A n \in D : /\ g[n] \in Seq(Packets) /\ Len(g[n]) = upto(n)
                    /\ \A i \in 1 .. upto(n) : g[n][i] = s[i]
  BY <1>1
<1>3. g[0] = <<head[l]>> /\ head[l] # NoPacket
  BY <1>1
<1>4. ASSUME NEW n \in D, n > 0 PROVE g[n] = Followed[g[n - 1]]
  <2>1. n - 1 \in D /\ g[n - 1] \in Seq(Packets) /\ Len(g[n - 1]) = upto(n - 1)
        /\ upto(n - 1) \in 1 .. Len(s) /\ g[n - 1][upto(n - 1)] = s[upto(n - 1)]
    BY <1>1, <1>2, <1>4
  <2> DEFINE t == g[n - 1]
  <2> HIDE DEF g
  <2>2. Followed[t] = IF next[s[upto(n - 1)]] = NoPacket THEN t
                      ELSE Append(t, next[s[upto(n - 1)]])
    BY <1>1, <2>1 DEF Followed
  <2>3. CASE n < Len(s)
    <3>1. /\ upto(n) = n + 1 /\ upto(n - 1) = n
          /\ next[s[n]] = s[n + 1] /\ s[n + 1] \in Packets
      BY <1>1, <1>4, <2>3
    <3>2. Followed[t] = Append(t, s[n + 1])
      BY <2>2, <3>1
    <3>3. g[n] = Append(t, s[n + 1])
      <4> DEFINE a == Append(t, s[n + 1])
      <4>1. /\ a \in Seq(Packets) /\ Len(a) = n + 1
            /\ \A i \in 1 .. n : a[i] = t[i]
            /\ a[n + 1] = s[n + 1]
        BY <2>1, <3>1
      <4>2. /\ g[n] \in Seq(Packets) /\ Len(g[n]) = n + 1
            /\ \A i \in 1 .. n + 1 : g[n][i] = s[i]
            /\ \A i \in 1 .. n : t[i] = s[i]
        BY <1>2, <1>4, <2>1, <3>1
      <4> HIDE DEF a, t
      <4>3. \A i \in 1 .. n + 1 : g[n][i] = a[i]
        BY <4>1, <4>2
      <4>4. g[n] = a
        BY <4>1, <4>2, <4>3, SeqEqual
      <4>5. QED BY <4>4 DEF a
    <3>4. QED BY <3>2, <3>3
  <2>4. CASE n >= Len(s)
    <3>1. upto(n) = Len(s) /\ upto(n - 1) = Len(s)
      BY <1>1, <1>4, <2>4
    <3>2. Followed[t] = t
      BY <2>2, <3>1
    <3>3. g[n] = g[n - 1]
      <4>1. \A i \in 1 .. Len(s) : g[n][i] = s[i] /\ g[n - 1][i] = s[i]
        BY <1>2, <1>4, <2>1, <3>1
      <4>2. /\ g[n] \in Seq(Packets) /\ Len(g[n]) = Len(s)
            /\ g[n - 1] \in Seq(Packets) /\ Len(g[n - 1]) = Len(s)
        BY <1>2, <1>4, <2>1, <3>1
      <4>3. QED BY <4>1, <4>2, SeqEqual
    <3>4. QED BY <3>2, <3>3
  <2>5. QED BY <1>1, <2>3, <2>4
<1>5. ASSUME NEW n \in D PROVE g[n] = step(g, n)
  <2> HIDE DEF g
  <2>1. CASE n > 0
    BY <1>4, <2>1
  <2>2. CASE n = 0
    BY <1>3, <2>2
  <2>3. QED BY <1>1, <2>1, <2>2
<1>6. g = [n \in D |-> step(g, n)]
  <2>1. g = [n \in D |-> g[n]]
    OBVIOUS
  <2> HIDE DEF g
  <2>2. QED BY <1>5, <2>1
<1>7. Capacity[l] \in D /\ upto(Capacity[l]) = Len(s)
  BY <1>1
<1>8. g[Capacity[l]] = s
  BY <1>1, <1>2, <1>7
<1> HIDE DEF g
<1>9. ListOf(l) = g[Capacity[l]]
  BY <1>6, ListUnique
<1> QED BY <1>8, <1>9

(* A list without a head is empty.                                         *)
LEMMA ListIsEmpty ==
  ASSUME NEW l \in Lists, head[l] = NoPacket
  PROVE  ListOf(l) = <<>>
<1> DEFINE g == [n \in 0 .. Capacity[l] |-> <<>>]
<1>1. Capacity[l] \in Nat
  BY RxPoolAssumption
<1>2. Followed[<<>>] = <<>>
  BY DEF Followed
<1>3. \A n \in 0 .. Capacity[l] : n > 0 => Followed[g[n - 1]] = <<>>
  BY <1>1, <1>2
<1>4. g = [n \in 0 .. Capacity[l] |->
             IF n > 0 THEN Followed[g[n - 1]]
             ELSE IF head[l] = NoPacket THEN <<>> ELSE <<head[l]>>]
  BY <1>1, <1>3
<1>5. g[Capacity[l]] = <<>>
  BY <1>1
<1> HIDE DEF g
<1> QED BY <1>4, <1>5, ListUnique

-----------------------------------------------------------------------------
(* The lists, seen as sequences.                                           *)

(* The sequences that the links spell out are the value of the refinement  *)
(* mapping.                                                                *)
LEMMA ListsAre ==
  \A q \in [Lists -> Seq(Packets)] :
    TypeOK /\ PcInv /\ freePc # "freed" /\ PoolInv(q) => AllLists = q
<1> SUFFICES ASSUME NEW q \in [Lists -> Seq(Packets)], TypeOK, PcInv,
                    freePc # "freed", PoolInv(q)
    PROVE AllLists = q
  OBVIOUS
<1>1. ASSUME NEW l \in Lists PROVE ListOf(l) = q[l]
  <2>1. q[l] \in Seq(Packets) /\ Linked(l, q[l])
    BY DEF PoolInv
  <2>2. Len(q[l]) >= 1 /\ Len(q[l]) <= Capacity[l] + 1
    BY <2>1, RxPoolAssumption
    DEF Linked, TypeOK, PcInv, Pending, Uncounted
  <2>3. q[l] # <<>>
    BY <2>1, <2>2
  <2>4. next \in [Packets -> Packets \cup {NoPacket}]
    BY DEF TypeOK
  <2>5. QED BY <2>1, <2>2, <2>3, <2>4, ListIsLinked DEF Linked
<1>2. QED BY <1>1 DEF AllLists

(* A list that is being used is not empty, and where its ends are.         *)
LEMMA LinkedShape ==
  ASSUME TypeOK, PcInv, freePc # "freed", NEW q \in [Lists -> Seq(Packets)],
         PoolInv(q), NEW l \in Lists
  PROVE  /\ q[l] \in Seq(Packets) /\ Len(q[l]) \in Nat /\ Len(q[l]) >= 1
         /\ DOMAIN q[l] = 1 .. Len(q[l])
         /\ \A i \in 1 .. Len(q[l]) : q[l][i] \in Packets /\ q[l][i] \in InLists(q)
         /\ num[l] \in Nat /\ num[l] >= 1 /\ num[l] <= Capacity[l]
         /\ Capacity[l] \in Nat
<1>1. q[l] \in Seq(Packets) /\ Linked(l, q[l])
  BY DEF PoolInv
<1>2. num[l] \in Nat /\ num[l] >= 1 /\ num[l] <= Capacity[l] /\ Capacity[l] \in Nat
  BY RxPoolAssumption DEF TypeOK
<1>3. Len(q[l]) \in Nat /\ Len(q[l]) >= 1
  BY <1>1, <1>2 DEF Linked, Pending, Uncounted
<1>4. DOMAIN q[l] = 1 .. Len(q[l]) /\ \A i \in 1 .. Len(q[l]) : q[l][i] \in Packets
  BY <1>1
<1>5. \A i \in 1 .. Len(q[l]) : q[l][i] \in InLists(q)
  BY <1>4 DEF InLists
<1> QED BY <1>1, <1>2, <1>3, <1>4, <1>5

-----------------------------------------------------------------------------
(* One lemma per action: what becomes of the lists q.                      *)

Working(q) == TypeOK /\ PcInv /\ freePc # "freed" /\ PoolInv(q)

(* The actions of the work loop, each for the sequences q that are linked  *)
(* before it; the step says which are linked after it.                     *)
LEMMA GetPacketInv ==
  ASSUME NEW q \in [Lists -> Seq(Packets)], Working(q),
         NEW l \in Lists, GetPacket(l)
  PROVE  Working(q)'
<1> USE RxPoolAssumption DEF GetPacket, MayTake, Working, refVars
<1>0. /\ num \in [Lists -> Nat] /\ num' = [num EXCEPT ![l] = @ - 1]
      /\ num' \in [Lists -> Nat]
      /\ \A k \in Lists : num'[k] \in 1 .. Capacity[k] /\ num'[k] <= num[k]
      /\ freePc # "freed" /\ freePc' = freePc
  <2>1. /\ num \in [Lists -> Nat] /\ Capacity \in [Lists -> Nat \ {0, 1}]
        /\ \A k \in Lists : num[k] \in 1 .. Capacity[k]
    BY DEF TypeOK
  <2>2. num' = [num EXCEPT ![l] = num[l] - 1] /\ num[l] > 1
    OBVIOUS
  <2>3. num' \in [Lists -> Nat]
    BY <2>1, <2>2
  <2>4. \A k \in Lists : num'[k] \in 1 .. Capacity[k] /\ num'[k] <= num[k]
    BY <2>1, <2>2
  <2>5. QED BY <2>1, <2>2, <2>3, <2>4
<1>1. TypeOK'
  BY <1>0 DEF TypeOK
<1>2. PcInv'
  <2>1. refList \in Lists /\ Capacity[refList] \in Nat
    BY DEF TypeOK
  <2>2. num[refList] < Capacity[refList] => num'[refList] < Capacity[refList]
    BY <1>0, <2>1
  <2> HIDE RxPoolAssumption
  <2>3. QED BY <2>2 DEF PcInv
<1>3. ASSUME NEW k \in Lists PROVE Linked(k, q[k])'
  <2>1. num' = [num EXCEPT ![l] = @ - 1] /\ num \in [Lists -> Nat]
    BY DEF TypeOK
  <2>2. num'[k] + Pending(k)' + Uncounted(k)' = num[k] + Pending(k) + Uncounted(k)
    BY <2>1 DEF Pending, Uncounted
  <2>3. Linked(k, q[k])
    BY DEF PoolInv
  <2>4. QED BY <2>2, <2>3 DEF Linked
<1>4. Apart(q)' /\ Placed(q)'
  BY DEF PoolInv, Apart, Placed, InLists, Taken, Fresh
<1> QED BY <1>1, <1>2, <1>3, <1>4 DEF PoolInv

LEMMA DetachInv ==
  ASSUME NEW q \in [Lists -> Seq(Packets)], Working(q), Detach
  PROVE  Working(q)'
<1> USE DEF Detach, Working, refVars
<1>1. TypeOK'
  BY DEF TypeOK
<1>2. PcInv'
  BY DEF PcInv
<1>3. ASSUME NEW k \in Lists PROVE Linked(k, q[k])'
  <2>1. getPkt \notin InLists(q) /\ getPkt # NoPacket
    BY DEF PoolInv, Placed, Taken, PcInv
  <2>2. \A i \in 1 .. Len(q[k]) : next'[q[k][i]] = next[q[k][i]]
    BY <2>1, LinkedShape DEF TypeOK
  <2>3. Len(q[k]) \in 1 .. Len(q[k])
        /\ \A i \in 1 .. Len(q[k]) - 1 : i \in 1 .. Len(q[k])
    BY LinkedShape
  <2>4. Linked(k, q[k])
    BY DEF PoolInv
  <2>5. QED BY <2>2, <2>3, <2>4 DEF Linked, Pending, Uncounted
<1>4. Apart(q)' /\ Placed(q)'
  <2>1. /\ InLists(q)' = InLists(q) /\ Taken' = Taken /\ Fresh' = Fresh
        /\ getPkt # NoPacket /\ Taken = {getPkt}
    BY DEF InLists, Taken, Fresh, PcInv
  <2>2. \A p \in avail' \cup Fresh' : next'[p] = next[p]
    BY <2>1 DEF PoolInv, Placed, Fresh, TypeOK, PcInv
  <2>3. next'[getPkt] = NoPacket
    BY <2>1 DEF TypeOK
  <2>4. QED BY <2>1, <2>2, <2>3 DEF PoolInv, Apart, Placed
<1> QED BY <1>1, <1>2, <1>3, <1>4 DEF PoolInv

LEMMA CheckRefillInv ==
  ASSUME NEW q \in [Lists -> Seq(Packets)], Working(q), CheckRefill
  PROVE  Working(q)'
<1> USE DEF CheckRefill, MustRefill, Working, refVars, listVars
<1>1. TypeOK'
  <2>1. getPkt \in Packets /\ "m" \in Lists
    BY DEF TypeOK, PcInv, Lists
  <2>2. avail' \subseteq Packets /\ refillScheduled' \in BOOLEAN
        /\ callPending' \in BOOLEAN
    BY <2>1 DEF TypeOK
  <2>3. QED BY <2>1, <2>2, Zenon DEF TypeOK
<1>2. PcInv'
  BY DEF PcInv
<1>3. \A k \in Lists : Linked(k, q[k])'
  BY DEF PoolInv, Linked, Pending, Uncounted
<1>4. Apart(q)' /\ Placed(q)'
  <2>1. /\ InLists(q)' = InLists(q) /\ Fresh' = Fresh /\ Taken' = {}
        /\ Taken = {getPkt} /\ getPkt \in Packets
    BY DEF InLists, Taken, Fresh, PcInv, TypeOK
  <2>2. QED BY <2>1 DEF PoolInv, Apart, Placed
<1> QED BY <1>1, <1>2, <1>3, <1>4 DEF PoolInv

(* These leave the lists and the packets alone. *)
LEMMA RefillFlowInv ==
  ASSUME NEW q \in [Lists -> Seq(Packets)], Working(q),
         RefillStart \/ RefillGiveUp \/ RefillNextList \/ RefillDone \/ FreeCancel
  PROVE  Working(q)'
<1> USE DEF RefillStart, RefillGiveUp, RefillNextList, RefillDone, FreeCancel,
            ClearScheduled, Working, refVars, getVars, listVars
<1>1. TypeOK'
  BY DEF TypeOK, Lists
<1>2. PcInv'
  BY DEF PcInv
<1>3. \A k \in Lists : Linked(k, q[k])'
  BY DEF PoolInv, Linked, Pending, Uncounted
<1>4. Apart(q)' /\ Placed(q)'
  BY DEF PoolInv, Apart, Placed, InLists, Taken, Fresh
<1>5. freePc' # "freed"
  OBVIOUS
<1> QED BY <1>1, <1>2, <1>3, <1>4, <1>5 DEF PoolInv

LEMMA RefillAllocInv ==
  ASSUME NEW q \in [Lists -> Seq(Packets)], Working(q),
         NEW p \in Packets, RefillAlloc(p)
  PROVE  Working(q)'
<1> USE RxPoolAssumption DEF RefillAlloc, Working, getVars, listVars
<1>1. TypeOK'
  BY DEF TypeOK
<1>2. PcInv'
  BY DEF PcInv
<1>3. \A k \in Lists : Linked(k, q[k])'
  BY DEF PoolInv, Linked, Pending, Uncounted
<1>4. Apart(q)' /\ Placed(q)'
  <2>1. /\ InLists(q)' = InLists(q) /\ Taken' = Taken /\ Fresh = {} /\ Fresh' = {p}
    BY DEF InLists, Taken, Fresh
  <2>2. QED BY <2>1 DEF PoolInv, Apart, Placed
<1> QED BY <1>1, <1>2, <1>3, <1>4 DEF PoolInv

LEMMA RefillTailInv ==
  ASSUME NEW q \in [Lists -> Seq(Packets)], Working(q), RefillTail
  PROVE  Working(q)'
<1> USE RxPoolAssumption DEF RefillTail, Working, getVars
<1>1. TypeOK'
  BY DEF TypeOK, PcInv
<1>2. PcInv'
  BY DEF PcInv
<1>3. ASSUME NEW k \in Lists PROVE Linked(k, q[k])'
  <2>1. Linked(k, q[k])
    BY DEF PoolInv
  <2>2. tail' = [tail EXCEPT ![refList] = refPkt]
        /\ tail \in [Lists -> Packets \cup {NoPacket}]
    BY DEF TypeOK
  <2>3. Pending(k)' = Pending(k) /\ Uncounted(k)' = Uncounted(k)
    BY DEF Pending, Uncounted
  <2>4. q[k][Len(q[k])] = tail'[k]
    BY <2>1, <2>2 DEF Linked
  <2>5. QED BY <2>1, <2>3, <2>4 DEF Linked
<1>4. Apart(q)' /\ Placed(q)'
  BY DEF PoolInv, Apart, Placed, InLists, Taken, Fresh
<1> QED BY <1>1, <1>2, <1>3, <1>4 DEF PoolInv

LEMMA RefillCountInv ==
  ASSUME NEW q \in [Lists -> Seq(Packets)], Working(q), RefillCount
  PROVE  Working(q)'
<1> USE RxPoolAssumption DEF RefillCount, Working, getVars
<1>0. /\ num \in [Lists -> Nat] /\ num' = [num EXCEPT ![refList] = @ + 1]
      /\ num' \in [Lists -> Nat]
      /\ \A k \in Lists : num'[k] \in 1 .. Capacity[k]
      /\ freePc # "freed" /\ freePc' = freePc
  <2>1. /\ num \in [Lists -> Nat] /\ Capacity \in [Lists -> Nat \ {0, 1}]
        /\ \A k \in Lists : num[k] \in 1 .. Capacity[k]
        /\ refList \in Lists
    BY DEF TypeOK
  <2>2. num' = [num EXCEPT ![refList] = num[refList] + 1]
        /\ num[refList] < Capacity[refList]
    BY DEF PcInv
  <2>3. num' \in [Lists -> Nat]
    BY <2>1, <2>2
  <2>4. \A k \in Lists : num'[k] \in 1 .. Capacity[k]
    BY <2>1, <2>2
  <2>5. QED BY <2>1, <2>2, <2>3, <2>4
<1>1. TypeOK'
  BY <1>0 DEF TypeOK
<1>2. PcInv'
  BY DEF PcInv, TypeOK
<1>3. ASSUME NEW k \in Lists PROVE Linked(k, q[k])'
  <2>1. num' = [num EXCEPT ![refList] = @ + 1] /\ num \in [Lists -> Nat]
    BY DEF TypeOK
  <2>2. num'[k] + Pending(k)' + Uncounted(k)' = num[k] + Pending(k) + Uncounted(k)
    BY <2>1 DEF Pending, Uncounted
  <2>3. Linked(k, q[k])
    BY DEF PoolInv
  <2>4. QED BY <2>2, <2>3 DEF Linked
<1>4. Apart(q)' /\ Placed(q)'
  BY DEF PoolInv, Apart, Placed, InLists, Taken, Fresh
<1> QED BY <1>1, <1>2, <1>3, <1>4 DEF PoolInv

(* getPacket() takes the first packet of a list that has another one. *)
LEMMA UnlinkInv ==
  ASSUME NEW q \in [Lists -> Seq(Packets)], Working(q), Unlink,
         NEW qq, qq = [q EXCEPT ![getList] = Tail(q[getList])]
  PROVE  /\ Working(qq)' /\ qq \in [Lists -> Seq(Packets)]
         /\ Len(q[getList]) > 1
<1> DEFINE l == getList
           s == q[l]
           t == Tail(s)
<1> USE RxPoolAssumption DEF Working
<1>1. /\ l \in Lists /\ getPc = "unlink" /\ getPkt = NoPacket /\ Taken = {}
      /\ head \in [Lists -> Packets \cup {NoPacket}]
      /\ next \in [Packets -> Packets \cup {NoPacket}]
  BY DEF Unlink, TypeOK, PcInv, Taken
<1>2. /\ s \in Seq(Packets) /\ Len(s) \in Nat /\ Len(s) > 1
      /\ DOMAIN s = 1 .. Len(s) /\ head[l] = s[1]
      /\ \A i \in 1 .. Len(s) : s[i] \in Packets /\ s[i] \in InLists(q)
      /\ \A i \in 1 .. Len(s) - 1 : next[s[i]] = s[i + 1]
      /\ next[s[Len(s)]] = NoPacket
      /\ Len(s) = num[l] + 1 + Uncounted(l)
  <2>1. Linked(l, s) /\ Pending(l) = 1
    BY <1>1 DEF PoolInv, Pending
  <2>2. num[l] >= 1 /\ num[l] \in Nat /\ Uncounted(l) \in {0, 1}
    BY <1>1, LinkedShape DEF Uncounted
  <2>3. /\ s \in Seq(Packets) /\ Len(s) \in Nat /\ DOMAIN s = 1 .. Len(s)
        /\ \A i \in 1 .. Len(s) : s[i] \in Packets /\ s[i] \in InLists(q)
    BY <1>1, LinkedShape
  <2> HIDE DEF s
  <2>4. /\ Len(s) = num[l] + 1 + Uncounted(l) /\ head[l] = s[1]
        /\ \A i \in 1 .. Len(s) - 1 : next[s[i]] = s[i + 1]
        /\ next[s[Len(s)]] = NoPacket
    BY <2>1 DEF Linked
  <2>5. Len(s) > 1
    BY <2>2, <2>3, <2>4
  <2>6. QED BY <2>3, <2>4, <2>5
<1>3. /\ t \in Seq(Packets) /\ Len(t) = Len(s) - 1 /\ DOMAIN t = 1 .. Len(s) - 1
      /\ \A i \in 1 .. Len(s) - 1 : t[i] = s[i + 1]
      /\ t[1] = s[2] /\ t[Len(t)] = s[Len(s)]
  BY <1>2
<1>4. /\ qq \in [Lists -> Seq(Packets)] /\ qq[l] = t
      /\ \A k \in Lists : k # l => qq[k] = q[k]
  BY <1>1, <1>3
<1>5. /\ getPkt' = s[1] /\ head' = [head EXCEPT ![l] = s[2]] /\ getPc' = "detach"
      /\ UNCHANGED <<tail, num, next, avail, refillScheduled, callPending,
                     getList, refPc, refList, refPkt, freePc>>
  <2>1. next[s[1]] = s[2]
    <3> HIDE DEF s, Working
    <3>1. 1 \in 1 .. Len(s) - 1 /\ 1 + 1 = 2
      BY <1>2
    <3>2. QED BY <1>2, <3>1
  <2>2. head' = [head EXCEPT ![getList] = next[head[getList]]]
    BY DEF Unlink
  <2>3. QED BY <1>1, <1>2, <2>1, <2>2 DEF Unlink, refVars
<1> HIDE DEF Working
<1>6. TypeOK'
  <2>1. TypeOK
    BY DEF Working
  <2>2. s[1] \in Packets /\ s[2] \in Packets
    BY <1>2
  <2>3. head' \in [Lists -> Packets \cup {NoPacket}]
        /\ \A k \in Lists : head'[k] = IF k = l THEN s[2] ELSE head[k]
    BY <1>1, <1>5, <2>2
  <2> HIDE DEF s, t
  <2>4. QED BY <1>5, <2>1, <2>2, <2>3 DEF TypeOK, Working
<1>7. PcInv'
  <2>1. s[1] # NoPacket
    BY <1>2
  <2>2. freePc = "alive"
    BY <1>1 DEF Working, PcInv
  <2> HIDE DEF s
  <2>3. QED BY <1>5, <2>1, <2>2 DEF PcInv, Working
<1> HIDE DEF t, s
<1>8. ASSUME NEW k \in Lists PROVE Linked(k, qq[k])'
  <2>1. Linked(k, q[k])
    BY DEF PoolInv, Working
  <2>2. Uncounted(k)' = Uncounted(k)
    BY <1>5 DEF Uncounted
  <2>3. CASE k # l
    <3>1. qq[k] = q[k] /\ Pending(k)' = Pending(k) /\ head'[k] = head[k]
      BY <1>1, <1>4, <1>5, <2>3 DEF Pending
    <3>2. QED BY <1>5, <2>1, <2>2, <3>1 DEF Linked
  <2>4. CASE k = l
    <3>1. qq[k] = t /\ Pending(k)' = 0 /\ head'[k] = t[1]
      BY <1>1, <1>3, <1>4, <1>5, <2>4 DEF Pending
    <3>2. Len(t) = num[k] + Uncounted(k)
      <4>1. num[k] \in Nat /\ Uncounted(k) \in {0, 1}
        BY DEF Working, TypeOK, Uncounted
      <4>2. QED BY <1>2, <1>3, <2>4, <4>1
    <3>3. \A i \in 1 .. Len(t) - 1 : next[t[i]] = t[i + 1]
      BY <1>2, <1>3
    <3>4. next[t[Len(t)]] = NoPacket
      BY <1>2, <1>3
    <3>5. t[Len(t)] = IF refPc = "tail" /\ refList = k THEN refPkt ELSE tail[k]
      BY <1>3, <2>1, <2>4 DEF Linked, s
    <3>6. Len(t) = num'[k] + Pending(k)' + Uncounted(k)'
      <4>1. num[k] \in Nat /\ Uncounted(k) \in {0, 1}
        BY DEF Working, TypeOK, Uncounted
      <4>2. QED BY <1>5, <2>2, <3>1, <3>2, <4>1
    <3>7. QED BY <1>5, <3>1, <3>3, <3>4, <3>5, <3>6 DEF Linked
  <2>5. QED BY <2>3, <2>4
<1>9. Apart(qq)
  <2>1. Apart(q)
    BY DEF PoolInv, Working
  <2>2. ASSUME NEW j \in Lists, NEW k \in Lists,
               NEW a \in DOMAIN qq[j], NEW b \in DOMAIN qq[k],
               qq[j][a] = qq[k][b]
        PROVE  j = k /\ a = b
    <3> DEFINE aa == IF j = l THEN a + 1 ELSE a
               bb == IF k = l THEN b + 1 ELSE b
    <3>1. aa \in DOMAIN q[j] /\ qq[j][a] = q[j][aa]
      BY <1>2, <1>3, <1>4 DEF s
    <3>2. bb \in DOMAIN q[k] /\ qq[k][b] = q[k][bb]
      BY <1>2, <1>3, <1>4 DEF s
    <3>3. j = k /\ aa = bb
      <4>1. q[j][aa] = q[k][bb]
        BY <2>2, <3>1, <3>2
      <4> HIDE DEF aa, bb
      <4>2. QED BY <2>1, <3>1, <3>2, <4>1 DEF Apart
    <3>4. a \in Int /\ b \in Int
      BY <1>3, <1>4, LinkedShape DEF Working
    <3>5. QED BY <3>3, <3>4
  <2>3. QED BY <2>2 DEF Apart
<1>10. /\ s[1] \notin InLists(qq)
       /\ InLists(q) = InLists(qq) \cup {s[1]}
  <2>1. Apart(q)
    BY DEF PoolInv, Working
  <2>2. ASSUME NEW p \in InLists(qq) PROVE p \in InLists(q) /\ p # s[1]
    <3>0. PICK k \in Lists : \E i \in DOMAIN qq[k] : p = qq[k][i]
      BY DEF InLists
    <3>1. PICK i \in DOMAIN qq[k] : p = qq[k][i]
      BY <3>0
    <3>2. CASE k = l
      <4>1. i + 1 \in DOMAIN s /\ p = s[i + 1] /\ i + 1 # 1 /\ 1 \in DOMAIN s
        BY <1>2, <1>3, <1>4, <3>1, <3>2
      <4>2. s[i + 1] # s[1]
        BY <1>1, <2>1, <4>1 DEF Apart, s
      <4>3. QED BY <1>2, <4>1, <4>2
    <3>3. CASE k # l
      <4>1. i \in DOMAIN q[k] /\ p = q[k][i] /\ 1 \in DOMAIN q[l]
        BY <1>2, <1>4, <3>1, <3>3 DEF s
      <4>2. q[k][i] # q[l][1]
        BY <1>1, <2>1, <3>3, <4>1, Zenon DEF Apart
      <4>3. QED BY <4>1, <4>2 DEF InLists, s
    <3>4. QED BY <3>2, <3>3
  <2>3. ASSUME NEW p \in InLists(q), p # s[1] PROVE p \in InLists(qq)
    <3>0. PICK k \in Lists : \E i \in DOMAIN q[k] : p = q[k][i]
      BY DEF InLists
    <3>1. PICK i \in DOMAIN q[k] : p = q[k][i]
      BY <3>0
    <3>2. CASE k = l
      <4>1. i # 1 /\ i \in 1 .. Len(s) /\ p = s[i]
        BY <1>2, <2>3, <3>1, <3>2 DEF s
      <4>2. i - 1 \in DOMAIN t /\ p = t[i - 1]
        BY <1>2, <1>3, <4>1
      <4>3. QED BY <1>1, <1>4, <4>2 DEF InLists
    <3>3. CASE k # l
      BY <1>4, <3>1, <3>3 DEF InLists
    <3>4. QED BY <3>2, <3>3
  <2>4. s[1] \in InLists(q)
    BY <1>2
  <2>5. QED BY <2>2, <2>3, <2>4
<1>11. Placed(qq)'
  <2>1. Taken' = {s[1]} /\ Fresh' = Fresh /\ InLists(qq)' = InLists(qq)
    BY <1>2, <1>5 DEF Taken, Fresh, InLists
  <2>2. Placed(q)
    BY DEF PoolInv, Working
  <2>3. QED BY <1>1, <1>5, <1>10, <2>1, <2>2 DEF Placed
<1>12. Apart(qq)'
  BY <1>9 DEF Apart
<1> QED BY <1>2, <1>4, <1>5, <1>6, <1>7, <1>8, <1>11, <1>12
        DEF Working, PoolInv, s

(* refillPool() appends a packet to a list that still has its last one. *)
LEMMA RefillLinkInv ==
  ASSUME NEW q \in [Lists -> Seq(Packets)], Working(q), RefillLink,
         NEW qq, qq = [q EXCEPT ![refList] = Append(q[refList], refPkt)]
  PROVE  /\ Working(qq)' /\ qq \in [Lists -> Seq(Packets)]
         /\ refPkt \in Packets \ InLists(q)
<1> DEFINE l == refList
           s == q[l]
           n == Len(s)
           t == Append(s, refPkt)
<1> USE RxPoolAssumption DEF Working
<1>1. /\ l \in Lists /\ refPc = "link" /\ refPkt \in Packets
      /\ tail \in [Lists -> Packets \cup {NoPacket}]
      /\ next \in [Packets -> Packets \cup {NoPacket}]
  BY DEF RefillLink, TypeOK, PcInv
<1>2. /\ Fresh = {refPkt} /\ refPkt \notin InLists(q) /\ next[refPkt] = NoPacket
      /\ refPkt \notin Taken
  BY <1>1 DEF PoolInv, Placed, Fresh
<1>3. /\ s \in Seq(Packets) /\ n \in Nat /\ n >= 1 /\ DOMAIN s = 1 .. n
      /\ \A i \in 1 .. n : s[i] \in Packets /\ s[i] \in InLists(q)
  BY <1>1, LinkedShape
<1>4. /\ n = num[l] + Pending(l) /\ head[l] = s[1]
      /\ \A i \in 1 .. n - 1 : next[s[i]] = s[i + 1]
      /\ s[n] = tail[l] /\ tail[l] \in InLists(q)
  <2>1. Linked(l, s) /\ Uncounted(l) = 0 /\ num[l] \in Nat /\ Pending(l) \in {0, 1}
    BY <1>1 DEF PoolInv, Uncounted, Pending, TypeOK
  <2> HIDE DEF s
  <2>2. QED BY <1>1, <1>3, <2>1 DEF Linked
<1>5. /\ t \in Seq(Packets) /\ Len(t) = n + 1 /\ DOMAIN t = 1 .. n + 1
      /\ \A i \in 1 .. n : t[i] = s[i]
      /\ t[1] = s[1] /\ t[n + 1] = refPkt
  BY <1>1, <1>3
<1>6. /\ qq \in [Lists -> Seq(Packets)] /\ qq[l] = t
      /\ \A k \in Lists : k # l => qq[k] = q[k]
  BY <1>1, <1>5
<1>7. /\ next' = [next EXCEPT ![tail[l]] = refPkt] /\ refPc' = "tail"
      /\ UNCHANGED <<head, tail, num, avail, refillScheduled, callPending,
                     getPc, getList, getPkt, freePc, refList, refPkt>>
  BY DEF RefillLink, LinkAtTail, getVars
<1> HIDE DEF Working
<1>8. TypeOK'
  <2>1. next' \in [Packets -> Packets \cup {NoPacket}]
    BY <1>1, <1>7
  <2>2. TypeOK
    BY DEF Working
  <2> HIDE DEF l
  <2>3. QED BY <1>7, <2>1, <2>2 DEF TypeOK
<1>9. PcInv'
  <2>1. PcInv
    BY DEF Working
  <2> HIDE DEF l
  <2>2. QED BY <1>1, <1>7, <2>1 DEF PcInv
<1> HIDE DEF t, s, n
<1>10. Apart(q)
  BY DEF Working, PoolInv
(* Only the last packet of the list is linked to another one. *)
<1>11. /\ next'[s[n]] = refPkt
       /\ \A p \in Packets : p # s[n] => next'[p] = next[p]
       /\ s[n] \in Packets /\ s[n] # refPkt
  BY <1>1, <1>2, <1>3, <1>4, <1>7
<1>12. ASSUME NEW k \in Lists PROVE Linked(k, qq[k])'
  <2>1. Linked(k, q[k])
    BY DEF PoolInv, Working
  <2>2. Pending(k)' = Pending(k)
    BY <1>7 DEF Pending
  <2>3. CASE k # l
    <3>1. qq[k] = q[k] /\ Uncounted(k)' = Uncounted(k)
      BY <1>1, <1>6, <1>7, <2>3 DEF Uncounted
    <3>2. /\ Len(q[k]) \in Nat /\ Len(q[k]) >= 1 /\ DOMAIN q[k] = 1 .. Len(q[k])
          /\ \A i \in 1 .. Len(q[k]) : q[k][i] \in Packets
      BY LinkedShape DEF Working
    <3>3. \A i \in 1 .. Len(q[k]) : q[k][i] # s[n]
      BY <1>1, <1>3, <1>10, <2>3, <3>2 DEF Apart, s
    <3>4. \A i \in 1 .. Len(q[k]) : next'[q[k][i]] = next[q[k][i]]
      BY <1>11, <3>2, <3>3
    <3>5. \A i \in 1 .. Len(q[k]) - 1 : next'[q[k][i]] = q[k][i + 1]
      BY <2>1, <3>2, <3>4 DEF Linked
    <3>6. next'[q[k][Len(q[k])]] = NoPacket
      BY <2>1, <3>2, <3>4 DEF Linked
    <3>7. q[k][Len(q[k])]
            = IF refPc' = "tail" /\ refList' = k THEN refPkt' ELSE tail'[k]
      BY <1>1, <1>7, <2>1, <2>3 DEF Linked
    <3>8. /\ Len(q[k]) = num'[k] + Pending(k)' + Uncounted(k)'
          /\ head'[k] = q[k][1]
      BY <1>7, <2>1, <2>2, <3>1 DEF Linked
    <3> HIDE DEF l
    <3>9. QED BY <3>1, <3>5, <3>6, <3>7, <3>8 DEF Linked
  <2>4. CASE k = l
    <3>1. qq[k] = t /\ Uncounted(k)' = 1 /\ head'[k] = t[1]
      BY <1>1, <1>4, <1>5, <1>6, <1>7, <2>4 DEF Uncounted
    <3>2. Len(t) = num'[k] + Pending(k)' + Uncounted(k)'
      <4>1. num[k] \in Nat /\ Pending(k) \in {0, 1}
        BY DEF Working, TypeOK, Pending
      <4>2. QED BY <1>4, <1>5, <1>7, <2>2, <2>4, <3>1, <4>1
    <3>3. \A i \in 1 .. n - 1 : s[i] # s[n]
      <4>1. \A i, j \in DOMAIN q[l] : q[l][i] = q[l][j] => i = j
        BY <1>1, <1>10 DEF Apart
      <4>2. n \in DOMAIN s /\ \A i \in 1 .. n - 1 : i \in DOMAIN s /\ i # n
        BY <1>3
      <4>3. QED BY <4>1, <4>2 DEF s
    <3>4. ASSUME NEW i \in 1 .. Len(t) - 1 PROVE next'[t[i]] = t[i + 1]
      <4>1. CASE i = n
        BY <1>3, <1>5, <1>11, <4>1
      <4>2. CASE i # n
        <5>1. i \in 1 .. n - 1 /\ i \in 1 .. n /\ i + 1 \in 1 .. n
          BY <1>3, <1>5, <4>2
        <5>2. t[i] = s[i] /\ t[i + 1] = s[i + 1] /\ s[i] \in Packets
              /\ s[i] # s[n] /\ next[s[i]] = s[i + 1]
          BY <1>3, <1>4, <1>5, <3>3, <5>1
        <5>3. QED BY <1>11, <5>2
      <4>3. QED BY <4>1, <4>2
    <3>5. next'[t[Len(t)]] = NoPacket
      BY <1>1, <1>2, <1>5, <1>11
    <3>6. t[Len(t)] = IF refPc' = "tail" /\ refList' = k THEN refPkt' ELSE tail'[k]
      BY <1>5, <1>7, <2>4
    <3>7. QED BY <3>1, <3>2, <3>4, <3>5, <3>6 DEF Linked
  <2>5. QED BY <2>3, <2>4
<1>13. Apart(qq)
  <2>1. ASSUME NEW j \in Lists, NEW k \in Lists,
               NEW a \in DOMAIN qq[j], NEW b \in DOMAIN qq[k],
               qq[j][a] = qq[k][b]
        PROVE  j = k /\ a = b
    <3>1. \/ a \in DOMAIN q[j] /\ qq[j][a] = q[j][a]
          \/ j = l /\ a = n + 1 /\ qq[j][a] = refPkt
      BY <1>3, <1>5, <1>6 DEF s
    <3>2. \/ b \in DOMAIN q[k] /\ qq[k][b] = q[k][b]
          \/ k = l /\ b = n + 1 /\ qq[k][b] = refPkt
      BY <1>3, <1>5, <1>6 DEF s
    <3>3. \A i \in Lists : \A c \in DOMAIN q[i] : q[i][c] # refPkt
      BY <1>2 DEF InLists
    <3>4. QED BY <1>10, <2>1, <3>1, <3>2, <3>3 DEF Apart
  <2>2. QED BY <2>1 DEF Apart
<1>14. InLists(qq) = InLists(q) \cup {refPkt}
  <2>1. ASSUME NEW p \in InLists(qq) PROVE p \in InLists(q) \cup {refPkt}
    <3>1. PICK k \in Lists : \E i \in DOMAIN qq[k] : p = qq[k][i]
      BY DEF InLists
    <3>2. PICK i \in DOMAIN qq[k] : p = qq[k][i]
      BY <3>1
    <3>3. p = refPkt \/ (i \in DOMAIN q[k] /\ p = q[k][i])
      BY <1>3, <1>5, <1>6, <3>2 DEF s
    <3>4. QED BY <3>3 DEF InLists
  <2>2. ASSUME NEW p \in InLists(q) PROVE p \in InLists(qq)
    <3>1. PICK k \in Lists : \E i \in DOMAIN q[k] : p = q[k][i]
      BY DEF InLists
    <3>2. PICK i \in DOMAIN q[k] : p = q[k][i]
      BY <3>1
    <3>3. i \in DOMAIN qq[k] /\ p = qq[k][i]
      BY <1>3, <1>5, <1>6, <3>2 DEF s
    <3>4. QED BY <3>3 DEF InLists
  <2>3. refPkt \in InLists(qq)
    <3>1. n + 1 \in DOMAIN qq[l] /\ qq[l][n + 1] = refPkt
      BY <1>3, <1>5, <1>6
    <3>2. QED BY <1>1, <3>1 DEF InLists
  <2>4. QED BY <2>1, <2>2, <2>3
<1>15. Placed(qq)'
  <2>1. /\ Taken' = Taken /\ Fresh' = {} /\ InLists(qq)' = InLists(qq)
        /\ avail' = avail /\ getPkt' = getPkt /\ getPc' = getPc
    BY <1>7 DEF Taken, Fresh, InLists
  <2>2. Placed(q) /\ PcInv
    BY DEF PoolInv, Working
  <2>3. s[n] \in InLists(q)
    BY <1>3
  <2>4. \A p \in avail : next'[p] = next[p]
    BY <1>11, <2>2, <2>3 DEF Placed
  <2>5. getPc = "check" => next'[getPkt] = next[getPkt]
    <3>1. SUFFICES ASSUME getPc = "check" PROVE next'[getPkt] = next[getPkt]
      OBVIOUS
    <3>2. getPkt \in Packets /\ getPkt \in Taken
      BY <2>2, <3>1 DEF PcInv, Working, TypeOK, Taken
    <3>3. getPkt # s[n]
      BY <2>2, <2>3, <3>2 DEF Placed
    <3>4. QED BY <1>11, <3>2, <3>3
  <2>6. QED BY <1>2, <1>14, <2>1, <2>2, <2>4, <2>5 DEF Placed
<1>16. Apart(qq)'
  BY <1>13 DEF Apart
<1>17. freePc' # "freed"
  BY <1>7 DEF Working
<1> QED BY <1>1, <1>2, <1>6, <1>8, <1>9, <1>12, <1>15, <1>16, <1>17
        DEF Working, PoolInv

(* free() gives back everything: it finds the lists whole, and no thread   *)
(* holds a packet.                                                         *)
LEMMA FreeListsInv ==
  ASSUME NEW q \in [Lists -> Seq(Packets)], Working(q), AllLists = q, FreeLists
  PROVE  /\ TypeOK' /\ PcInv' /\ freePc' = "freed" /\ avail' = Packets
         /\ \A l \in Lists : head'[l] = NoPacket
<1>1. /\ freePc = "cancelled" /\ refPc = "idle" /\ getPc = "idle" /\ ~callPending
      /\ getPkt = NoPacket /\ refPkt = NoPacket /\ Taken = {} /\ Fresh = {}
  BY DEF FreeLists, RefillOver, Working, PcInv, Taken, Fresh
<1>2. UNION {Listed(l) : l \in Lists} = InLists(q)
  <2>1. ASSUME NEW l \in Lists
        PROVE Listed(l) = {q[l][i] : i \in DOMAIN q[l]}
    <3>1. ListOf(l) = q[l]
      BY DEF AllLists
    <3>2. QED BY <3>1, Zenon DEF Listed
  <2>2. {Listed(l) : l \in Lists} = {{q[l][i] : i \in DOMAIN q[l]} : l \in Lists}
    BY <2>1
  <2>3. QED BY <2>2, Zenon DEF InLists
<1>3. avail' = Packets
  <2>1. InLists(q) \subseteq Packets
    BY LinkedShape DEF Working, InLists
  <2>2. QED BY <1>1, <1>2, <2>1 DEF FreeLists, Working, PoolInv, Placed
<1>4. TypeOK'
  BY <1>3, RxPoolAssumption
  DEF FreeLists, Working, TypeOK, getVars, refVars
<1>5. PcInv'
  BY <1>1 DEF FreeLists, PcInv, getVars, refVars
<1> QED BY <1>3, <1>4, <1>5 DEF FreeLists

(* initPool() builds two lists that are not empty.                         *)
LEMMA InitInv ==
  ASSUME Init
  PROVE  \E q \in [Lists -> Seq(Packets)] :
           Working(q) /\ \A l \in Lists : q[l] # <<>>
<1> USE RxPoolAssumption
<1> DEFINE a == Capacity["m"]
           b == Capacity["c"]
<1>1. /\ a \in Nat /\ a >= 2 /\ b \in Nat /\ b >= 2
      /\ "m" \in Lists /\ "c" \in Lists
      /\ \A l \in Lists : l = "m" \/ l = "c"
  BY DEF Lists
<1> HIDE DEF a, b
<1>2. PICK s \in [1 .. a -> Packets] : \E t \in [1 .. b -> Packets] :
        /\ Distinct(s, t)
        /\ head = [l \in Lists |-> IF l = "m" THEN s[1] ELSE t[1]]
        /\ tail = [l \in Lists |-> IF l = "m" THEN s[a] ELSE t[b]]
        /\ next = [p \in Packets |-> IF Successor(s, p) # NoPacket
                                     THEN Successor(s, p) ELSE Successor(t, p)]
        /\ avail = Packets \ ({s[i] : i \in DOMAIN s} \cup {t[i] : i \in DOMAIN t})
  BY Zenon DEF Init, a, b
<1>3. PICK t \in [1 .. b -> Packets] :
        /\ Distinct(s, t)
        /\ head = [l \in Lists |-> IF l = "m" THEN s[1] ELSE t[1]]
        /\ tail = [l \in Lists |-> IF l = "m" THEN s[a] ELSE t[b]]
        /\ next = [p \in Packets |-> IF Successor(s, p) # NoPacket
                                     THEN Successor(s, p) ELSE Successor(t, p)]
        /\ avail = Packets \ ({s[i] : i \in DOMAIN s} \cup {t[i] : i \in DOMAIN t})
  BY <1>2
<1>4. /\ s \in Seq(Packets) /\ Len(s) = a /\ DOMAIN s = 1 .. a
      /\ t \in Seq(Packets) /\ Len(t) = b /\ DOMAIN t = 1 .. b
  BY <1>1
<1>5. /\ \A i, j \in 1 .. a : s[i] = s[j] => i = j
      /\ \A i, j \in 1 .. b : t[i] = t[j] => i = j
      /\ \A i \in 1 .. a, j \in 1 .. b : s[i] # t[j]
  BY <1>3, <1>4 DEF Distinct
<1>6. \A i \in 1 .. a : Successor(s, s[i]) = IF i = a THEN NoPacket ELSE s[i + 1]
  <2>1. ASSUME NEW i \in 1 .. a
        PROVE Successor(s, s[i]) = IF i = a THEN NoPacket ELSE s[i + 1]
    <3>1. (CHOOSE j \in DOMAIN s : s[j] = s[i]) = i
      BY <1>4, <1>5
    <3>2. CASE i = a
      <4>1. ~ \E j \in DOMAIN s : s[j] = s[i] /\ j + 1 \in DOMAIN s
        BY <1>1, <1>4, <1>5, <3>2
      <4>2. QED BY <3>2, <4>1, Zenon DEF Successor
    <3>3. CASE i # a
      <4>1. i \in DOMAIN s /\ i + 1 \in DOMAIN s
        BY <1>1, <1>4, <3>3
      <4>2. \E j \in DOMAIN s : s[j] = s[i] /\ j + 1 \in DOMAIN s
        BY <4>1
      <4>3. Successor(s, s[i])
              = s[(CHOOSE j \in DOMAIN s : s[j] = s[i]) + 1]
        BY <4>2, Zenon DEF Successor
      <4>4. QED BY <3>1, <3>3, <4>3
    <3>4. QED BY <3>2, <3>3
  <2>2. QED BY <2>1
<1>7. \A i \in 1 .. b : Successor(t, t[i]) = IF i = b THEN NoPacket ELSE t[i + 1]
  <2>1. ASSUME NEW i \in 1 .. b
        PROVE Successor(t, t[i]) = IF i = b THEN NoPacket ELSE t[i + 1]
    <3>1. (CHOOSE j \in DOMAIN t : t[j] = t[i]) = i
      BY <1>4, <1>5
    <3>2. CASE i = b
      <4>1. ~ \E j \in DOMAIN t : t[j] = t[i] /\ j + 1 \in DOMAIN t
        BY <1>1, <1>4, <1>5, <3>2
      <4>2. QED BY <3>2, <4>1, Zenon DEF Successor
    <3>3. CASE i # b
      <4>1. i \in DOMAIN t /\ i + 1 \in DOMAIN t
        BY <1>1, <1>4, <3>3
      <4>2. \E j \in DOMAIN t : t[j] = t[i] /\ j + 1 \in DOMAIN t
        BY <4>1
      <4>3. Successor(t, t[i])
              = t[(CHOOSE j \in DOMAIN t : t[j] = t[i]) + 1]
        BY <4>2, Zenon DEF Successor
      <4>4. QED BY <3>1, <3>3, <4>3
    <3>4. QED BY <3>2, <3>3
  <2>2. QED BY <2>1
<1>8. /\ \A p : (\A i \in 1 .. a : s[i] # p) => Successor(s, p) = NoPacket
      /\ \A p : (\A i \in 1 .. b : t[i] # p) => Successor(t, p) = NoPacket
  BY <1>4 DEF Successor
<1>9. /\ \A i \in 1 .. a : s[i] \in Packets /\ s[i] # NoPacket
      /\ \A i \in 1 .. b : t[i] \in Packets /\ t[i] # NoPacket
  OBVIOUS
<1>10. /\ \A i \in 1 .. a - 1 : next[s[i]] = s[i + 1]
       /\ next[s[a]] = NoPacket
       /\ \A i \in 1 .. b - 1 : next[t[i]] = t[i + 1]
       /\ next[t[b]] = NoPacket
  <2>1. ASSUME NEW i \in 1 .. a
        PROVE next[s[i]] = IF i = a THEN NoPacket ELSE s[i + 1]
    <3>1. Successor(t, s[i]) = NoPacket
      BY <1>5, <1>8
    <3>2. next[s[i]] = IF Successor(s, s[i]) # NoPacket
                       THEN Successor(s, s[i]) ELSE Successor(t, s[i])
      BY <1>3, <1>9
    <3>3. Successor(s, s[i]) = IF i = a THEN NoPacket ELSE s[i + 1]
      BY <1>6
    <3>4. QED BY <3>1, <3>2, <3>3
  <2>2. ASSUME NEW i \in 1 .. b
        PROVE next[t[i]] = IF i = b THEN NoPacket ELSE t[i + 1]
    <3>1. Successor(s, t[i]) = NoPacket
      BY <1>5, <1>8
    <3>2. next[t[i]] = IF Successor(s, t[i]) # NoPacket
                       THEN Successor(s, t[i]) ELSE Successor(t, t[i])
      BY <1>3, <1>9
    <3>3. Successor(t, t[i]) = IF i = b THEN NoPacket ELSE t[i + 1]
      BY <1>7
    <3>4. QED BY <3>1, <3>2, <3>3
  <2>3. QED BY <1>1, <2>1, <2>2
<1>11. ASSUME NEW p \in avail PROVE next[p] = NoPacket
  <2>1. Successor(s, p) = NoPacket /\ Successor(t, p) = NoPacket
    BY <1>3, <1>4, <1>8
  <2>2. QED BY <1>3, <2>1
<1> DEFINE q == [l \in Lists |-> IF l = "m" THEN s ELSE t]
<1>12. q \in [Lists -> Seq(Packets)] /\ q["m"] = s /\ q["c"] = t
  BY <1>1, <1>4 DEF Lists
<1>13. TypeOK
  <2>1. /\ head \in [Lists -> Packets \cup {NoPacket}]
        /\ tail \in [Lists -> Packets \cup {NoPacket}]
        /\ \A l \in Lists : head[l] \in Packets /\ tail[l] \in Packets
    <3>1. s[1] \in Packets /\ s[a] \in Packets /\ t[1] \in Packets /\ t[b] \in Packets
      BY <1>1, <1>9
    <3>2. QED BY <1>3, <3>1
  <2>2. num \in [Lists -> Nat] /\ \A l \in Lists : num[l] \in 1 .. Capacity[l]
    BY DEF Init
  <2>3. next \in [Packets -> Packets \cup {NoPacket}]
    <3>1. \A p : Successor(s, p) \in Packets \cup {NoPacket}
      BY <1>4, <1>6, <1>8, <1>9
    <3>2. \A p : Successor(t, p) \in Packets \cup {NoPacket}
      BY <1>4, <1>7, <1>8, <1>9
    <3>3. QED BY <1>3, <3>1, <3>2
  <2>4. avail \subseteq Packets
    BY <1>3
  <2>5. QED BY <1>1, <2>1, <2>2, <2>3, <2>4 DEF Init, TypeOK
<1>14. PcInv /\ freePc = "alive"
  BY DEF Init, PcInv
<1>15. ASSUME NEW l \in Lists PROVE Linked(l, q[l])
  <2>1. Pending(l) = 0 /\ Uncounted(l) = 0 /\ num[l] = Capacity[l] /\ refPc = "idle"
    BY DEF Init, Pending, Uncounted
  <2> HIDE DEF q
  <2>2. CASE l = "m"
    <3>1. /\ q[l] = s /\ head[l] = s[1] /\ tail[l] = s[a] /\ Capacity[l] = a
      BY <1>1, <1>3, <1>12, <2>2 DEF a
    <3>2. QED BY <1>1, <1>4, <1>10, <2>1, <3>1 DEF Linked
  <2>3. CASE l = "c"
    <3>1. /\ q[l] = t /\ head[l] = t[1] /\ tail[l] = t[b] /\ Capacity[l] = b
      BY <1>1, <1>3, <1>12, <2>3 DEF b
    <3>2. QED BY <1>1, <1>4, <1>10, <2>1, <3>1 DEF Linked
  <2>4. QED BY <1>1, <2>2, <2>3
<1>16. Apart(q)
  BY <1>1, <1>4, <1>5, <1>12 DEF Apart
<1>17. InLists(q) = {s[i] : i \in DOMAIN s} \cup {t[i] : i \in DOMAIN t}
  BY <1>1, <1>12 DEF InLists
<1>18. Placed(q)
  <2>1. Taken = {} /\ Fresh = {} /\ getPc = "idle"
    BY DEF Init, Taken, Fresh
  <2>2. QED BY <1>3, <1>11, <1>17, <2>1 DEF Placed
<1>19. \A l \in Lists : q[l] # <<>>
  BY <1>1, <1>4, <1>12
<1> HIDE DEF q
<1> QED BY <1>12, <1>13, <1>14, <1>15, <1>16, <1>18, <1>19 DEF Working, PoolInv

-----------------------------------------------------------------------------
(* Every step keeps the invariant and is a step of the queues, or none.    *)

(* The same in the next state.                                             *)
LEMMA ListsArePrimed ==
  (\A q \in [Lists -> Seq(Packets)] :
     TypeOK /\ PcInv /\ freePc # "freed" /\ PoolInv(q) => AllLists = q)'
BY ListsAre, PTL

(* Lists without a head are empty sequences.                               *)
LEMMA ListsEmpty ==
  (\A l \in Lists : head[l] = NoPacket) => AllLists = [l \in Lists |-> <<>>]
BY ListIsEmpty DEF AllLists

(* The same in the next state.                                             *)
LEMMA ListsEmptyPrimed ==
  ((\A l \in Lists : head[l] = NoPacket) => AllLists = [l \in Lists |-> <<>>])'
BY ListsEmpty, PTL

(* The invariant names the sequences that are linked; any others that fit  *)
(* are the same.                                                           *)
LEMMA WorkingIInv ==
  ASSUME NEW q \in [Lists -> Seq(Packets)]
  PROVE  /\ Working(q) => IInv /\ AllLists = q
         /\ Working(q)' => IInv' /\ AllLists' = q
<1>1. Working(q) => AllLists = q
  BY ListsAre DEF Working
<1>2. Working(q)' => AllLists' = q
  BY ListsArePrimed DEF Working
<1>3. Working(q) => IInv
  BY <1>1 DEF Working, IInv
<1>4. Working(q)' => IInv'
  BY <1>2 DEF Working, IInv
<1> QED BY <1>1, <1>2, <1>3, <1>4

(* While the pool exists the mapping has the sequences that are linked.    *)
LEMMA AllListsType ==
  ASSUME IInv, freePc # "freed"
  PROVE  \E q \in [Lists -> Seq(Packets)] : Working(q) /\ AllLists = q
BY DEF IInv, Working

(* What a step does to the lists. *)
LEMMA StepIInv ==
  ASSUME IInv, [Next]_vars
  PROVE  IInv' /\ [L!Next]_AllLists
<1>1. CASE UNCHANGED vars
  <2>1. CASE freePc = "freed"
    <3>1. \A l \in Lists : head[l] = NoPacket /\ head'[l] = NoPacket
      BY <1>1, <2>1 DEF IInv, TypeOK, vars, listVars
    <3>2. AllLists' = AllLists
      BY <3>1, ListsEmpty, ListsEmptyPrimed
    <3>3. IInv'
      BY <1>1, <2>1
      DEF IInv, TypeOK, PcInv, vars, listVars, getVars, refVars
    <3>4. QED BY <3>2, <3>3
  <2>2. CASE freePc # "freed"
    <3>1. PICK q \in [Lists -> Seq(Packets)] : Working(q) /\ AllLists = q
      BY <2>2, AllListsType
    <3>2. TypeOK' /\ PcInv' /\ freePc' # "freed"
      BY <1>1, <3>1
      DEF Working, TypeOK, PcInv, vars, listVars, getVars, refVars
    <3>3. PoolInv(q)'
      BY <1>1, <3>1
      DEF Working, PoolInv, Linked, Pending, Uncounted, Apart, Placed, InLists,
          Taken, Fresh, vars, listVars, getVars, refVars
    <3>4. Working(q)'
      BY <3>2, <3>3 DEF Working
    <3>5. QED BY <3>1, <3>4, WorkingIInv
  <2>3. QED BY <2>1, <2>2
<1>2. CASE Next /\ freePc = "freed"
  BY <1>2
  DEF IInv, PcInv, Next, Getter, Refiller, Free, GetPacket, Unlink, Detach,
      CheckRefill, RefillStart, RefillAlloc, RefillGiveUp, RefillLink,
      RefillTail, RefillCount, RefillNextList, RefillDone, FreeCancel, FreeLists
<1>3. CASE Next /\ freePc # "freed"
  <2>1. PICK q \in [Lists -> Seq(Packets)] : Working(q) /\ AllLists = q
    BY <1>3, AllListsType
  <2>2. CASE /\ ~Unlink /\ ~RefillLink /\ ~FreeLists
    <3>1. Working(q)'
      BY <1>3, <2>1, <2>2, GetPacketInv, DetachInv, CheckRefillInv,
         RefillFlowInv, RefillAllocInv, RefillTailInv, RefillCountInv
      DEF Next, Getter, Refiller, Free
    <3>2. QED BY <2>1, <3>1, WorkingIInv
  <2>3. CASE Unlink
    <3>1. PICK qq : qq = [q EXCEPT ![getList] = Tail(q[getList])]
      OBVIOUS
    <3>2. /\ IInv' /\ AllLists' = qq /\ Len(q[getList]) > 1
          /\ getList \in Lists
      BY <2>1, <2>3, <3>1, UnlinkInv, WorkingIInv DEF Working, TypeOK
    <3>3. L!Take(getList)
      BY <2>1, <3>1, <3>2 DEF L!Take, AllLists
    <3>4. QED BY <3>2, <3>3 DEF L!Next
  <2>4. CASE RefillLink
    <3>1. PICK qq : qq = [q EXCEPT ![refList] = Append(q[refList], refPkt)]
      OBVIOUS
    <3>2. /\ IInv' /\ AllLists' = qq /\ refPkt \in Packets \ InLists(q)
          /\ refList \in Lists
      BY <2>1, <2>4, <3>1, RefillLinkInv, WorkingIInv DEF Working, TypeOK
    <3>3. L!Held = InLists(q)
      BY <2>1 DEF L!Held, InLists, AllLists
    <3>4. q[refList] # <<>>
      BY <2>1, <3>2, LinkedShape DEF Working
    <3>5. L!Put(refList, refPkt)
      BY <2>1, <3>1, <3>2, <3>3, <3>4 DEF L!Put, AllLists
    <3>6. QED BY <3>2, <3>5 DEF L!Next
  <2>5. CASE FreeLists
    <3>1. /\ TypeOK' /\ PcInv' /\ freePc' = "freed" /\ avail' = Packets
          /\ \A l \in Lists : head'[l] = NoPacket
      BY <2>1, <2>5, FreeListsInv
    <3>2. IInv'
      BY <3>1 DEF IInv
    <3>3. AllLists' = [l \in Lists |-> <<>>]
      BY <3>1, ListsEmptyPrimed
    <3>4. L!GiveUp
      BY <3>3 DEF L!GiveUp, AllLists
    <3>5. QED BY <3>2, <3>4 DEF L!Next
  <2>6. QED BY <2>2, <2>3, <2>4, <2>5
<1> QED BY <1>1, <1>2, <1>3

(* The initial state has the invariant and is one of PacketLists.          *)
LEMMA InitIInv == Init => IInv /\ L!Init
<1> SUFFICES ASSUME Init PROVE IInv /\ L!Init
  OBVIOUS
<1>1. PICK q \in [Lists -> Seq(Packets)] :
        Working(q) /\ \A l \in Lists : q[l] # <<>>
  BY InitInv
<1>2. IInv /\ AllLists = q
  BY <1>1, WorkingIInv
<1>3. q \in [Lists -> L!Queues]
  BY <1>1 DEF L!Queues
<1> QED BY <1>2, <1>3 DEF L!Init, AllLists

-----------------------------------------------------------------------------
(* The theorems.                                                           *)

(* IInv holds in every state. *)
THEOREM Invariant == Spec => []IInv
<1>1. Init => IInv
  BY InitIInv
<1>2. IInv /\ [Next]_vars => IInv'
  BY StepIInv
<1> QED BY <1>1, <1>2, PTL DEF Spec

(* Every variable keeps its type; no list runs empty before free().        *)
THEOREM TypeCorrect == Spec => []TypeOK
<1>1. IInv => TypeOK
  BY DEF IInv
<1> QED BY <1>1, Invariant, PTL

(* When free() is done every packet is back with the system.               *)
THEOREM NothingKept == Spec => []AllGivenBack
<1>1. IInv => AllGivenBack
  BY DEF IInv, AllGivenBack
<1> QED BY <1>1, Invariant, PTL

(* The linked lists, unlinked at the head by getPacket() and linked at the *)
(* tail by refillPool() without a lock, implement the queues of            *)
(* PacketLists.                                                            *)
THEOREM ListsAreQueues == Spec => PacketListsSpec
<1>1. Init => L!Init
  BY InitIInv
<1>2. IInv /\ [Next]_vars => [L!Next]_AllLists
  BY StepIInv
<1>3. [L!Next]_AllLists => [L!Next]_[l \in Lists |-> ListOf(l)]
  BY DEF AllLists
<1> QED BY <1>1, <1>2, <1>3, Invariant, PTL DEF Spec, PacketListsSpec, L!Spec
=============================================================================
