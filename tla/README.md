# SimpleRTK5 in TLA+

Specifications of SimpleRTK5, the macOS driver for Realtek RTL8125 and RTL8126
Ethernet controllers in `src/SimpleRTK5`, with the TLC configurations that check
them on small instances and TLAPS proofs for every size of the rings, of their
maps and of the receive pool, every threshold of the watchdog, every link partner
and every chip, of the order of the two threads that serve interrupts, and of the
code that is loaded into the microcontrollers, wherever the loading is stopped.

Short file names below mean files of `src/SimpleRTK5`: `Ethernet.cpp` is
`SimpleRTK5Ethernet.cpp`, `Hardware.cpp`, `Setup.cpp`, `VTD.cpp` and `RxPool.cpp`
likewise, and `rtl812x.c` is the code taken over from Realtek's Linux driver.

## 1. The system

A kext of one class, `SimpleRTK5`, between IOKit's network stack and a PCI
Express NIC. There is no lock in it: what keeps its threads apart is the work
loop, three bits of `stateFlags` (`__POLLING`, `__POLL_MODE`, `__LINK_UP`), one
atomic counter (`txNumFreeDesc`) and the ownership bit of each descriptor.

Threads that run its code:

| Thread | Runs |
|---|---|
| work loop | `interruptOccurred`, `timerAction`, every call of the stack that goes through the command gate (`enable`, `disable`, `selectMedium`, filters, power state) |
| output thread of the interface | `outputStart` |
| poller of the interface | `pollInputPackets`, `setInputPacketPollingEnable` |
| thread calls | `refillPool` (pool), `statUpdateThread` (statistics) |
| the NIC | reads and writes both rings by DMA, sets event bits, loses power |
| the link partner and the management firmware | change the link; hold the out-of-band mutex |

Components, their state, and what makes them correct:

| Component | State | Operations | Hard part | Correct if |
|---|---|---|---|---|
| Transmit ring (`Ethernet.cpp` 568-760, 1182-1228) | ring, `txBufArray`, `txNumFreeDesc`, two indices, `txTailPtr0`, `txClosePtr0` | `outputStart`, `txInterrupt`, `clearRxTxRings` | filler, NIC and reclaimer interleave; the index is published before descriptors are filled; pointers wrap at two moduli | no descriptor reused early, each packet sent in order and freed once, a stalled queue is woken |
| Receive ring (`Ethernet.cpp` 1279-1420) | ring, `rxBufArray`, the unfinished jumbo frame | `rxInterrupt`, `discardPacketFragment`, `clearRxTxRings` | a buffer cannot be replaced in mid-frame; the last fragment is only FCS | NIC never writes into a buffer that left the ring, no mbuf lost, frames not mixed |
| Receive pool (`RxPool.cpp`) | two singly linked lists, two atomic counts, `refillScheduled` | `getPacket`, `refillPool`, `free` | two threads on one list without a lock; freed after a fixed sleep | lists behave as queues, one refill at a time, a refill ends, all is given back |
| Watchdog (`Ethernet.cpp` 1480-1520, 1576-1611) | `deadlockWarn`, two counts, a one-shot timer | `timerAction`, `txHangCheck` | lost interrupts, restarts and link changes between ticks | hung transmitters are restarted, others are not, timer never lost |
| Interrupts and polling (`Ethernet.cpp` 1424-1575) | ISR, IMR, TIMER_INT0, `__POLLING`, `__POLL_MODE`, `intrMask` | handler, poll mode on/off, poll | mask and mode change on another thread in mid-handler | one server at a time, no work left without an event that announces it |
| Media and link (`Hardware.cpp` 1039-1370, `Setup.cpp`) | selected medium, and `tp` fields that hold wish and result alike | `selectMedium`, `rtl812xSetPhyMedium`, `rtl812xCheckLinkStatus`, link up/down, WoL speed | one variable, two meanings | PHY advertises what was selected, what is reported was negotiated |
| Receive filter (`Ethernet.cpp` 868-958) | RxConfig accept bits, MAR0/MAR4 | promiscuous, multicast mode and list | reconfiguration rewrites it | groups asked for are received |
| Lifecycle and power (`Ethernet.cpp` 149-565, `Hardware.cpp` 140-190) | every pointer and resource, `powerState`, PME# | `init`, `start`, `stop`, `free`, `enable`, `disable`, sleep, wake, shutdown | thirteen stages that can fail, each with its own unwinding | nothing leaks, no use after free, DMA only into memory that is held |
| Bring-up and power-down (`Hardware.cpp` 400-930, `rtl812x.c`) | registers of MAC, PHY and PCI configuration | `rtl812xEnable`, `rtl812xDisable`, `rtl812xHwConfig`, `LinkOnPatch` ... | what sleep left on decides what wake must redo | an enabled interface has a configured chip, a disabled one is quiet, a sleeping one can be woken |
| Out-of-band mutex, DASH (`rtl812x.c`) | `srtk5_oob_mutex`, driver start/stop notices | lock, unlock, notify | shared with firmware, bounded waits | given back after every call |
| PHY and MCU code (`rtl812x.c` 1990-11949) | code, data, hooks and versions in PHY and MAC RAM, the patch request | `srtk5_hw_phy_config`, `srtk5_init_hw_phy_mcu`, `srtk5_hw_mac_mcu_config` | a download that is cut short, a PHY that does not stop in time, versions that are trusted, fall-through cases | a unit never runs hooks into code that is not there; what is trusted is complete |
| AppleVTD (`VTD.cpp`) | a ring of memory descriptors for packets to send, one memory descriptor per batch of receive buffers | `txMapPacket`, `txUnmapPacket`, `rxMapBuffers`, `rxInterruptVTD`, setup and release | a second ring with its own count and size; buffers exchanged one by one and mapped by the batch; a map that fails | the NIC only has addresses that are mapped, for the packet or buffer that is recorded |
| EEPROM, statistics, parameters, `linux/` headers | | | | not modelled |

They interact through the rings (transmit and receive, watchdog), through
`stateFlags` (interrupts, poller, link), through `tp->speed/duplex/fcpause/eee`
(media and link) and through calls on the work loop (link change, watchdog
restart and the stack's calls all end in the bring-up code). `hazards` in
`PROJECT.json` lists, line by line, what can go wrong there.

## 2. Modules

| Module | Models | Built on |
|---|---|---|
| `TxRing` | transmit ring, step by step; `TxQueueSpec` states that it refines `TxQueue` | `INSTANCE TxQueue` |
| `TxQueue` | abstract: a FIFO of packets, released once and after sending | |
| `TxMap` | the transmit ring with AppleVTD: the ring's steps and what they do to the map; TLC checks ring and map with it | `TxRing` |
| `TxRing_proofs` | safety of the ring, and that it implements `TxQueue`, and that the map follows it | `TxMap` |
| `RxRing`, `MCRxRing` | receive ring and jumbo frames | |
| `RxRing_proofs` | safety of the receive ring | `RxRing` |
| `RxMap` | the receive ring with AppleVTD: `rxInterruptVTD` and the batches | |
| `RxMap_proofs` | its addresses are mapped and its batches complete | `RxMap` |
| `RxPool`, `MCRxPool` | pool, each access of the two threads a step, and its release; `PacketListsSpec` states that it refines `PacketLists` | `INSTANCE PacketLists` |
| `PacketLists` | abstract: two queues that are never empty until they are given up | |
| `RxPool_proofs` | nothing is kept, and the pool implements `PacketLists` | `RxPool` |
| `Watchdog` | timer, hang check and restart over a counted ring | |
| `Interrupts` | handler and poller, each register access a step, with enable, disable, restart and hang check on the work loop | |
| `Interrupts_proofs` | one server, a mask with a reason, work that is announced | `Interrupts` |
| `Medium`, `MCMedium` | media, PHY, autonegotiation, EEE, link reports | |
| `Medium_proofs` | what is advertised, reported and left for wake on LAN | `Medium` |
| `Chip` | registers of one controller and the procedures that write them, as operators from chip to chip | |
| `Lifecycle`, `MCLifecycle` | the object's life, composed with the chip | `Chip` |
| `Lifecycle_proofs` | what each procedure of the chip does, and every invariant of the object's life | `Lifecycle` |
| `PhyCode` | what is written to the PHY for each revision, as sequences of operations | |
| `McuDownload`, `MCMcuDownload` | both microcontrollers, and the driver that writes these sequences | `PhyCode` |
| `Recovery_proofs` | what the driver recovers from by itself: restarts come only after the quiet ticks, and a download that was cut short is repaired before the code runs | `Watchdog`, `McuDownload` |

How they correspond to the code, beyond the `map` in `PROJECT.json`:

**TxRing.** Variables have the driver's names. `outPc` is where `outputStart`
is: `loop` (the test of `txNumFreeDesc` and the dequeue), `map` (segments are
known, `OSAddAtomic` next), `publish` (`txNextDescIndex` and `txTailPtr0` move),
`fill` (one descriptor per step; the first gets `DescOwn` at once, like the
others), and
`result` (the second look at the counter that decides to stall). `rclPc` is
`txInterrupt`: it computes `numDone` with the code's two differences, one masked
and one 32 bits wide (`UIntMod`), reclaims one descriptor per step and wakes the
output thread last. A packet of several segments records its mbuf with its last
descriptor only. TSO and checksum commands are left out but for the fact that
such a packet may be dropped.

**TxMap.** An address in a descriptor is modelled by the packet it was made for,
so that "the NIC reads what is mapped" compares two packets. `MapStep` joins a step
of the ring with the call of `VTD.cpp` that the code makes in it: `Reserve` with
`txMapPacket`, `Reclaim` of a packet's last descriptor with `txUnmapPacket`,
`SetLinkDown` with the release of every map. The number of memory descriptors is a
variable that never changes, so that one run covers a map that suffices and one
that runs out. `starved` is history: a packet was accepted while no more than one
memory descriptor was free.

**RxRing.** One step is one iteration of `rxInterrupt` (only the NIC works
beside it, and it owns other descriptors). An mbuf is identified; its contents
are the fragment last written to it. `tiny` marks a last fragment of at most the
FCS. `csumMbuf` is the mbuf the checksum result was written to.

**RxMap.** Packets are left out; a slot has the buffer recorded for it, the
range its batch's memory descriptor refers to and the address in its descriptor,
each `Current`, `Old` (a buffer that has left the ring) or `NoAddr`. `rxPc` is
where `rxInterruptVTD` is, one iteration or one batch a step. `stale` is history
(the loop processed a descriptor the NIC had not filled since), and so is
`clearFailed` (a batch could not be mapped while the rings were cleared).
`kMaxNumMap`, one more than there are batches, bounds the count of batches to map.

**RxPool.** Every read or write of a field that the other thread uses is a
step, in the order of the code. `Capacity` is at least two, as the constructor's
callers have it. `freePc` is where `free()` is; it runs when nobody calls
`getPacket` any more, but beside a refill.

**Watchdog.** The ring is two counts, the descriptors in use and those of them
the NIC has sent. History variables count reclaimed descriptors, quiet ticks and the
descriptors sent by the last tick and not reclaimed since, independently of the code's
own counters.

**Interrupts.** Each read or write of ISR, IMR, TIMER_INT0 and of the atomic
bits is a step of the thread that makes it; the rings are reduced to "there is
work". Between two interrupts the work loop may disable and enable the
interface, restart the chip, and look for a hung transmitter. `raced` is
history: it becomes TRUE at the overlaps that `Race` lists (the handler starts
while poll mode is being changed, poll mode is changed while the handler runs,
the chip is reset while the poller runs). Three properties hold until then and
not after: the mask read before the overlap is written after it. The code does
not exclude the overlap, so that the model contains it; a restart or an enable
that no poller meets sets everything up anew and ends it. `evicted` is history
too: `disable()` gave up waiting and took `__POLLING` from a poller at work; it
ends when both threads are idle.

The handler runs because an interrupt was raised (`signalled`), some time after it
was: an event and its bit of IMR0 came together. It looks at the status only
(`Ethernet.cpp:1423-1429`), not at the mask, and with no status it writes IMR0 and is
done. So an interrupt raised under the RxTx mask may be handled when poll mode is
on already. That handler acknowledges RxOK and TxOK and serves nothing, as the rings
are the poller's now; `unserved` (history) are the events whose work the poller has
not got to since. Nothing overlaps there, so that it is not in `Race`: `WorkAnnounced`
and `WorkServed` name it as the one way in which work can be left behind without one.

**Medium.** `phy` is what the PHY advertises, `tp` the shared fields,
`carrier` what was negotiated with the partner, `reported` what the stack was
told. Autonegotiation is always on and giga lite always off in the code, so that
the forced modes are unreachable and left out. The driver reads the PHY's
advertisement, changes the bits it knows and writes it back; the 5 GBit bit of an
RTL8126 is not among them, so that the PHY keeps it as its reset left it, set or not
(`Untouched`).

**Chip and Lifecycle.** `Chip` has one record per controller, with the fields
the properties tell apart (PHY power, tables and code, gates, accept bits,
masks, locks, link power states, wake events), and one operator per procedure
that maps the record to the next one, nested as the calls are. `Lifecycle` gives
each pointer a state, `null`, `held` or `dangling`, and each call of IOKit one
action. Every stage of `start()` and of its setup functions can fail; each error
label releases what the label in the code releases. Bad accesses that follow are
recorded in `faults` and do not stop the model.

**PhyCode and McuDownload.** The PHY has seven units that run code, each with
eight hooks: a hook is aimed at a place in the ROM and enabled by a bit. `PhyCode`
gives for each revision (`mcfg`) the sequence of operations of its download and of
its table of parameters, in the order of the code: sections of images (code, aims,
enables), data, patch requests, key and lock, patch mode, the version word. The
words of an image are abstracted to its name. `McuDownload` executes them one a
step, with the conditions of the code on versions and kept links, and lets the
machine stop between any two: the next driver finds what the chip kept in standby.
The wait for the PHY is `kMaxPolls` polls instead of the code's 1000. `late` is
history (the last request was given up), and so is `cut` (stopped in a download
whose version word was there already).

Mutated forms of single definitions stand beside them in the modules (`WrapLate`
before `Wrap`, for instance). No action uses them; they document a plausible
mistake (most are marked `faulty`), and `mutants` in `PROJECT.json` names the
property that each of them breaks.

## 3. Runs

Run one with `tlc -config <cfg> <module>`.

| Run | Instance | Distinct states |
|---|---|---|
| `tx_ring` | 6 descriptors, at most 2 segments, 2 packets, 2 or 3 memory descriptors, pointer modulus 12 | 266 184 |
| `tx_map` | the same with 2 memory descriptors; ends in a counterexample | |
| `rx_ring` | 3 descriptors, 6 mbufs, frames of up to 3 fragments | 170 380 |
| `rx_ring_csum`, `rx_ring_alloc` | the same; each ends in a counterexample | |
| `rx_map` | 6 descriptors in 3 batches of 2 | about 3.2 million |
| `rx_pool` | lists of 3 and 2, 6 packets | 170 762 |
| `watchdog` | the code's thresholds 5 and 6, at most 3 descriptors in use | 6 937 |
| `interrupts` | no numeric bound | 765 939 |
| `medium` | 3 chips, all their media, 5 partners | 74 956 |
| `lifecycle` | 7 chips | 761 852 |
| `phy_mcu` | 12 revisions, 2 polls per patch request | 117 821 |

**tx_ring** checks that the counter, the indices and the close pointers account
for every descriptor between any two steps (`Accounting`), that `outputStart`
writes no descriptor that is still in use (`NoOverwrite`), that each packet is
recorded once (`EachMbufOnce`), that only sent descriptors are reclaimed
(`ReclaimOnlySent`), that with AppleVTD the mapped packets are those in the ring,
in the ring's order (`MapFollowsRing`), that the ring implements the FIFO of
`TxQueue`, that a stall ends and that every packet is released. With at most two
segments and a ring of six the stall threshold is met after one or two packets and
the ring wraps after three; with modulus 12 the pointers wrap at other moments than
the indices. Two packets are enough, because they come back as soon as they are
released: one may be mapped and filled while the other is sent and reclaimed.
Liveness rules out symmetry and a larger ring here; what the safety
properties say of larger rings is proved (section 4). Three memory descriptors are
half the ring, as in the code, and suffice for two packets; two run out, as the
code's do when every packet has one segment.

**tx_map** shows that then a packet is accepted without being mapped
(`ReadsMappedMemory`).

**rx_ring** checks that the NIC only ever writes into the buffers of the ring and
finds its end (`DmaToRingOnly`), that mbufs are conserved, and that what is
enqueued is a gapless part of one frame. Frames as long as the ring, frames that
wrap in it and failures at each fragment occur. Frame numbers modulo 2 are enough
to tell a frame from the next.

**rx_map** checks that, with AppleVTD, a descriptor the NIC owns has the mapped
address of the buffer on record and `RingEnd` is at the last (`NicAddressMapped`),
that the descriptors nobody owns are those between `rxMapNextIndex` and
`rxNextDescIndex` (`AwaitingIsWindow`), and that a batch is unmapped only when the
NIC has nothing left in it (`UnmapsOnlyDone`). Three batches tell the one that is
mapped, the one that is read and the one that is filled apart; batches of two have
a first and a last buffer, and the loop may begin and end in the middle of one.

**rx_pool** checks that the lists implement the queues of `PacketLists`, which
they do only if getPacket and refillPool never touch the same packet and there
is one refill at a time, that a refill ends, and that all packets are back with
the system once the pool is freed (`AllGivenBack`). The lists have the smallest
sizes at which the refill threshold lies below the capacity. Deadlock is not an
error there: once both lists are down to one packet and the refill has given up,
getPacket fails before it can schedule another; the pool stays unused until the
system has mbufs again.

**watchdog** checks that the chip is restarted only after the full row of quiet
ticks since the rings were cleared, that a hang ends (for which the timer must
never be lost while the link is up) and that it is not restarted for descriptors
whose interrupt was lost: by the restart all that the NIC had sent by the tick before
(`overdue`) has been reclaimed, which is what the check one tick earlier is for
(`LostInterruptMadeUp`). Three descriptors and a count modulo 6 tell every case of progress
from none; the code's 32-bit count cannot wrap between two ticks.

**interrupts** checks that handler and poller take turns, restarts and disabled
interfaces included, unless `disable()` evicts a poller (`OneServer`), that a mask
that silences traffic has its reason (`MaskedWithReason`), that work left is
announced by an event bit (`WorkAnnounced`), and that work is served
(`WorkServed`), the last three as long as the threads have not raced. What poll mode
leaves behind (`unserved`) is excepted from the last two: it is served with the next
packet of its kind.

**medium** checks that an enabled PHY advertises the selected medium and EEE as
selected although every link overwrites the fields they come from, that what is
reported has an entry in the dictionary and was negotiated (both but for 5 GBit, see
below), and that preparing
for wake on LAN leaves a mode the partner has. The partners are a half duplex
10 MBit hub, a 100 MBit switch, a GBit switch with EEE at 100 MBit only, and two
multi-gigabit switches.

**lifecycle** checks, over every failure of `start()` and every order of the
calls, that nothing but the mapper (which the code never releases) is leaked,
that the bad accesses are those of `KnownFaults` and no others, that locks and
mutex are given back, that a running chip has its memory, that an enabled
interface has a configured chip, ready to receive once it has a link
(`ConfiguredWhenEnabled`), that a disabled one is quiet and a sleeping one can be
woken (`QuietWhenDisabled`). The seven chips are one of
each kind the bring-up tells apart: DASH or not, magic packets or not, EEE+,
buffer patch, D0 speed-up, a revision without PHY code, and every set of wake
events. Deadlock is not an error: `freed` and `shut` are final.

**phy_mcu** checks that a PHY that runs has every enabled hook aimed by the image
whose code is in the unit (`HooksAimed`), the same of the MAC's microcontroller,
which is never stopped (`MacHooksAimed`), that code is written while the PHY is
stopped (`HeldForPatch`), that a version the driver trusts stands for complete code,
data and parameters and closed locks (`TrustedIsComplete`), that one revision's
code is in all units (`OneRevision`), and that a pass ends whether or not the PHY
answers (`PassEnds`). The twelve revisions have all scripts there are (13, 6 and 7
share those of 11, 3 and 5). Two polls are a wait that succeeds at once, one that
succeeds later, and one that is given up.

### What the code does otherwise than its text says

Three runs end in a counterexample, each for one property:

* `rx_ring_csum`: a last fragment that is only FCS is freed, and the checksum
  result is written to it a few lines later.
* `rx_ring_alloc`: a jumbo frame whose buffer could not be replaced is discarded
  up to there, and the rest of it is delivered as a complete packet.
* `tx_map`: with no more than one free memory descriptor `txMapPacket()` skips the
  mapping and reports success; the NIC gets the addresses of an earlier packet, and
  `txUnmapPacket()` later completes the descriptor of another one.

Other deviations are in the models as they are in the code. Those on which a
property depends are listed under `hazards`:

* `start()` returns TRUE after most failures; `statCall` and `mediumDict` are freed
  twice on error paths; `stop()` detaches the interface before the statistics thread
  is cancelled (`KnownFaults`).
* A link that goes down and up before it is examined makes the driver reset a ring
  in use (`LinkFlaps = TRUE`).
* The watchdog restarts the chip one tick after the check that was to prevent it
  has found completed descriptors: `deadlockWarn` is not cleared by what
  `txHangCheck()` reclaims (`Ethernet.cpp:1486-1490`, `1609`).
* 5 GBit: `src/README.md:28` promises it for the RTL8126. The 5 GBit media have no
  mode to advertise (`Setup.cpp:62-65`), so that selecting one advertises nothing
  but what the PHY has by itself; the bit in register 0xA5D4 is neither set nor cleared
  (`Hardware.cpp:1321-1358`); and a link that comes up at 5 GBit all the same is
  reported as 10 MBit, as `rtl812xCheckLinkStatus()` has no branch for it
  (`Hardware.cpp:1062-1084`, though `_5000bpsF` is defined in `rtl812x.h:468` and
  `setLinkUp()` has a case for it). The runs reach both; `AdvertisesSelected` and
  `ReportedIsNegotiated` hold for all other speeds and state these exceptions.
* An interrupt that was signalled before poll mode was turned on and is handled after
  loses its events: if poll mode ends before the poller has got to the work, it
  stays in the ring until the next packet (`unserved`).
* `setupRxMap()` writes `rxDescArray[i]`, the batch's index, where it means the
  buffer's (`VTD.cpp:66-71`); `clearRxTxRings()` writes all descriptors before
  the NIC runs. When it fails to map a batch it hands the descriptors out
  all the same (`clearFailed`).
* `rxInterruptVTD()` may come round to descriptors it has processed, since it hands
  them back only after its loop (`stale`).
* With AppleVTD the interrupt handler does not look at `SYSErr`.
* The MAC code 8125b_2 has hook 6 enabled and its address commented out
  (`rtl812x.c:5017`); the cases for methods 31 and 32 fall through to the next
  (`rtl812x.c:11931`); the image 8126a_1_1 writes its version before its rest
  (`rtl812x.c:9597`); a patch request that is not granted in time is not noticed
  (`rtl812x.c:222-237`).
* `srtk5_irq_mask_and_ack()` writes IMR0 where it means ISR0 (`rtl812x.c:1643-1646`),
  so that events from before a reset stay pending.

### Fairness

* Threads make progress: weak fairness for the steps of `outputStart` and
  `txInterrupt`, of a running `refillPool` and `getPacket`, of handler and poller.
  None of them waits for a lock.
* The interrupt handler gets its turn although the timer of the same work loop may
  be served first again and again: strong fairness for `IrqEnter`. An interrupt that
  was raised stays signalled until its handler runs.
* McuDownload: the driver's thread goes on; the PHY need not answer.
* The NIC sends what it was told to send, and a timer that is set expires: weak.
* `TxOkInterrupt` (TxRing) is strong: the TxOK bit stays in ISR while the handler
  runs for another reason, so that the reclaim is enabled again and again, not
  throughout. `LeaveLoop` is strong: the stack does not feed `outputStart` without
  end with packets that cannot be mapped.
* `PollStart` (Interrupts) is strong, since the poller cannot start while the
  handler holds `__POLLING`; so is draining the receive ring in poll mode.
* Watchdog: the timer and a pending TxOK are served; no fairness for the NIC,
  which may hang or lose the interrupt.

### Assumptions about what is outside the driver

* `LinkFlaps = FALSE` in the passing runs and in the theorems: when the link
  event is handled with the link up, it is found down first. The models have the
  other case behind the constant. In `RxMap` a second link-up resets
  `rxNextDescIndex` and not `rxMapNextIndex` (`Hardware.cpp:624`; the latter is reset
  in `Setup.cpp:749` only).
* A refill that runs when the pool is freed is over after the millisecond `free()`
  sleeps; it allocates without waiting.
* A PHY reset does not touch the code in the PHY; the PHY disable mode, a strap, is
  off. The chip keeps both microcontrollers' code while it has standby power.
* `TxRing` has one reclaimer at a time. `txHangCheck()` beside a poller in
  `txInterrupt()` is in `Interrupts`, where the ring is a Boolean.
* The NIC uses descriptors in order, clears `DescOwn` after it is done with the
  buffer, and wraps at `RingEnd`.
* IOKit disables an interface before the controller sleeps or stops, and does not
  enable one that is powered off.

## 4. Proofs

The `_proofs` modules hold for every value of the constants that satisfies the
named assumption of the module they extend. `LF` marks the theorems that also
assume `LinkFlaps = FALSE` (see above); TLC finds the properties violated without
it in `TxRing`, `RxRing`, `RxMap` and `Interrupts`: a ring in use is then cleared, or
one of its two indices.

| Theorem | States | For every |
|---|---|---|
| `TxRing_proofs!TypeCorrect` (LF) | `TypeOK` | ring size, segment limit, threshold, pointer modulus, set of packets |
| `TxRing_proofs!AccountingCorrect` (LF) | `Accounting` | same |
| `TxRing_proofs!NeverOverwrites` (LF) | `NoOverwrite` | same |
| `TxRing_proofs!MbufsAccounted` (LF) | `EachMbufOnce` | same |
| `TxRing_proofs!ReclaimsOnlySent` (LF) | `ReclaimOnlySent` | same |
| `TxRing_proofs!RingNeverFull` (LF) | `NeverFull`: one slot at least is in nobody's hands | same |
| `TxRing_proofs!RingIsQueue` (LF) | `TxQueueSpec`: the ring implements `TxQueue` | same |
| `TxRing_proofs!AccountingWithMap` (LF) | `Accounting` of `MapSpec` | number of memory descriptors |
| `TxRing_proofs!MapInStep` (LF) | `MapFollowsRing` | same |
| `RxRing_proofs!DmaSafe` (LF) | `DmaToRingOnly` | ring size, frame length, set of mbufs |
| `RxRing_proofs!NoMbufLost` (LF) | `MbufsConserved` | same |
| `RxRing_proofs!FramesNotMixed` (LF) | `OneFrameInOrder` | same |
| `RxMap_proofs!NicWritesMapped` (LF) | `NicAddressMapped` | number and size of the batches |
| `RxMap_proofs!WindowAwaits` (LF) | `AwaitingIsWindow` | same |
| `RxMap_proofs!CompletesOnlyDone` (LF) | `UnmapsOnlyDone` | same |
| `RxPool_proofs!NothingKept` | `AllGivenBack` | capacity of the lists, set of packets |
| `RxPool_proofs!ListsAreQueues` | `PacketListsSpec`: the pool implements `PacketLists` | same |
| `Recovery_proofs!RestartsAreEarned` | `RestartAfterQuietTicks` | threshold, ring size, width of the counter |
| `Recovery_proofs!NoRestartForLostInterrupt` | `LostInterruptMadeUp` | same, with the check one tick before the restart |
| `Interrupts_proofs!RingsHaveOneServer` | `OneServer` | no constant: every number of steps, link flaps included |
| `Interrupts_proofs!MaskHasReason` (LF) | `MaskedWithReason` | same |
| `Interrupts_proofs!WorkHasEvent` (LF) | `WorkAnnounced` | same |
| `Medium_proofs!MediumIsKept` | `AdvertisesSelected` | set of link partners |
| `Medium_proofs!LinkIsReported` | `ReportedIsNegotiated` | same |
| `Medium_proofs!WakeUpPossible` | `WolKeepsLinkPossible` | same |
| `Lifecycle_proofs!LocksClosed` | `HandshakesClosed` | set of chips |
| `Lifecycle_proofs!ComesUpComplete` | `ConfiguredWhenEnabled` | same |
| `Lifecycle_proofs!GoesDownQuiet` | `QuietWhenDisabled` | same |
| `Lifecycle_proofs!FreesEverything` | `NothingLeaked` | same |
| `Lifecycle_proofs!DmaIsBacked` | `DmaIntoHeldMemory` | same |
| `Lifecycle_proofs!FaultsAreKnown` | `KnownFaults` | same |
| `Recovery_proofs!DownloadTypes` | `Types`, of every variable | set of revisions, number of polls |
| `Recovery_proofs!VersionKnown` | `VersionInv`: what the driver takes the PHY to have and what the PHY shows | same |
| `Recovery_proofs!HooksStayAimed` | `HooksAimed` | same |
| `Recovery_proofs!MacHooksStayAimed` | `MacHooksAimed` | same |
| `Recovery_proofs!WrittenWhileHeld` | `HeldForPatch` | same |
| `Recovery_proofs!TrustedStaysComplete` | `TrustedIsComplete` | same |
| `Recovery_proofs!RevisionStaysOne` | `OneRevision` | same |

None of these properties is inductive alone. Each module defines `IInv` (in
`Lifecycle_proofs` there are two, `CoreInv` and `ResInv`; for `McuDownload` the parts
have names of their own), shows that it holds
initially and that every action preserves it (a lemma per action, with a step per
conjunct the action disturbs), and draws the theorems from it. The
invariant says what the code relies on and does not write down:

**TxRing.** `TxRingAssumption` is what the constants of `SimpleRTK5Ethernet.hpp`
satisfy: `kMinFreeDescs = kMaxSegs + 2` below the ring size, the wake threshold
between them and the ring size, a ring no larger than the pointer modulus, and an
integer width in which an unmasked difference that has wrapped is larger than any
distance of pointers. `IInv` conjoins

* `TypeOK` and `Accounting`, which bound each other: a free count in range is
  what keeps the two index distances from wrapping;
* `OutInv`: what `outputStart`'s locals mean at each `outPc`, and that packets are
  mapped only with more than `kMinFreeDescs` free, which gives the reservation;
* `NicInv`: the NIC is between the reclaimed and the filled end, and its close
  pointer, minus the driver's, is exactly what it sent since;
* `OwnInv`: the NIC owns exactly the descriptors from its index to the filled end,
  although the index that is published lies further;
* `BufInv`: mbufs are recorded only for descriptors filled and not reclaimed;
* `EachMbufOnce`.

The refinement maps the ring to the list of mbufs recorded from the reclaimed end
to the filled one (`RingQueue`), which `MbufsIn` collects by recursion. The library's
induction theorems have an operator as parameter; `NatSetInduction` is the same
principle for a set of numbers, from the well-founded order of finite sets that the
library has as a fact. With it `MbufsIn` is shown to satisfy its equations, and then
that appending a descriptor with an mbuf appends to the list, that releasing the
first one takes its head, and that other steps leave it alone, across the wrap of
the ring.

**TxMap.** `InStep`: as long as no packet went unmapped, the memory descriptors in
use, counted from `txNextMem2Free`, map the packets of the ring one after the
other. The two rings have sizes of their own, so that only their order can agree.

**RxRing.** `WindowInv`: the descriptors the host owns are those from
`rxNextDescIndex` to the NIC's index, none or all included. `ChainInv`: each fragment
in them is followed by the next of its frame, in the ring or by the one the NIC
writes next; `PacketInv` says the same of the unfinished frame in `rxPacket`, which is
why it may be continued by whatever the next descriptor holds. `OffInv`: a receiver
that is off has cleared rings.

**RxMap.** `OffInv` and `RecordInv`, and `CountInv`: in `rxInterruptVTD`'s loop at
least `numMap` whole batches, and what of the next one lies behind the index, await
mapping, which is why the batches mapped after the loop are those the NIC is done
with. It holds until the loop comes round (`stale`). The arithmetic of batches (division
and remainder by a size that is a constant) is a section of lemmas.

**RxPool.** What `getPacket` and `refillPool` hold between two accesses is stated by
`Linked`: a list links as many packets as are counted, and one more for each thread
that has counted off but not unlinked, or linked but not counted; its tail pointer
is the last packet but while `refillPool` is between its two writes. A count of one
when `getPacket` refuses keeps the last packet, and with it `head` and `tail` apart,
which makes both ends safe without a lock. `Placed` and `Apart` give every packet one
place. The refinement needs that the list followed from `head` over `next` (`ListOf`, a
recursive function) is the queue, by the same induction.

**Watchdog.** `deadlockWarn` counts exactly the quiet ticks; the counter differs
from its value at the last tick by what was reclaimed since, which with the
descriptors in use stays below the counter's width (`WatchdogAssumption`), so that equal
values mean no progress. Since the check (`deadlockWarn = kTxCheckTreshhold`) nothing is
overdue. The second theorem needs the restart to be the next tick, as in
`SimpleRTK5Ethernet.hpp:249`.

**Interrupts.** `ServerInv` (whoever leaves the rings last clears `__POLLING`) needs
nothing else. The mask and the work need, while the threads have not raced, what
each thread knows at each step: `PollModeInv`, `MaskInv` and `WorkInv` say which mask is in
IMR and which events are in ISR0, in the status the handler has read, or `unserved`; `LinkInv` and
`EnabledInv` hold throughout.

**Medium.** While the interface is enabled both `phy` and the shared fields `tp` hold
what the selected medium asks for, also after a link has overwritten the fields'
speed, duplex and flow control; flow control may be lost but never added
(`SelectedInv`). A link's mode is in what the PHY advertises and in what the partner
has (`CarrierInv`). The proof goes through every entry of `mediumTable` and every
speed the status register can show.

**Lifecycle.** A procedure of `Chip` is a nest of up to a dozen others on a record of
34 fields. `Writes(a, b, F)` says that `b` differs from `a` in fields of `F` only, and
keeps what only some chips have off on the others (`Consistent`). Each procedure has a
lemma with the fields it writes and what holds after it, proved from the lemmas of the
procedures it calls; a caller never expands a callee. On these rest

* `CoreInv`: between two calls a chip is `Regular`: its locks are closed, and a PHY that
  the next `enable()` may leave alone (`check_keep`, its code still there) is complete.
  This is what makes `resume_keep` sound, whoever disabled the interface and whether the
  power was lost. An enabled interface has a chip that is `BroughtUp`; only it has a
  link, and with a link the chip is `Linked`; since `disable()` it is `ChipQuiet`, and
  `CanWake` if wake on LAN is enabled.
* `ResInv`: what can only be undone through another pointer has that pointer (`Owned`:
  `complete()` needs the buffer, the clearing of a DMA command the command). Every label
  of `start()` and `free()` preserves it, because a setup function that fails has
  acquired nothing in the end (`UnwindIsNothing`); it is why `free()` finds everything
  after any failure. Rings and buffers are held as long as there is an interface, and
  with `CoreInv` only an interface has a running chip and a timer that starts the
  statistics thread.

Nothing is assumed of the chips: not even that the methods are those the probe finds.

**McuDownload.** The scripts of the revisions have up to a few dozen operations, strung
together from images, data and patch requests. No step of the proof executes one. What
the driver needs of a script is said by conditions on the order of its operations:

* `Whole`: code, its hooks' addresses and their enabling follow one another;
* `AllHeld`: code and data are written under a request that the script has set;
* `Ready`: before a request is withdrawn, every unit that the script has code for has
  been enabled, but for the units that not every image of methods 31 and 32 has;
* `Settles`: key lock, patch mode and request are taken back later in the same script;
* `Leaves`: an image whose unit is written again later is replaced by it;
* `Announces` and `AnnouncesOnce`: the version is the last write and occurs nowhere else
  (`AnnouncesOnce` fails for method 31, where the image `8126a_1_1` writes it).

Each condition holds of a concatenation if it holds of the parts (`WholeConcat`,
`AllHeldConcat` and so on), and of each section, each ending and each request, so that
it is proved of the images one after the other and of the revisions by adding them up
(`Loads`, `PassIs`, `Tables`). A new image needs its own lemma (`Image8126a_3_1Is` and
its likes) and the sum of its revision, and nothing else of the proof. `StepKinds` then names what a step does to
each field of the state, and on that rest the invariants:

* `MacInv`: the MAC's hooks are off from the first operation of its script to the last,
  and it shows the version only after the code.
* `PollInv` and `HeldInv`: where a request is in force in the script, the PHY shows it
  and has granted it, or it was given up. No write in between can lose it.
* `VersionInv`: `hw_has_wr_ram_code` implies that the PHY shows the version, and while a
  download is under way the PHY does not show it (method 31 excepted), so that the next
  driver can tell that it was stopped.
* `SectInv`, `TornInv` and `TrustAim` (`AimedInv`): a unit whose hooks do not fit its
  code belongs to the download of this revision, and the PHY is stopped or the request was
  given up. This is what survives a stop: the next driver finds no version, runs the
  whole download again, and `Ready` repairs the unit before the request goes.
* `CodeInv`: a unit has the code that was written last, open locks and modes are closed
  by the rest of this download or by the next one, and a PHY that shows the version,
  outside of a download and not `cut`, has all of `Final` and `AllData`.
* `RequestInv`, `TuneInv` and `KeptInv`: a request that a stopped download left set is
  withdrawn by the next one, or by the table after it; a link that is kept keeps the
  parameters, so that `resume_not_chg_speed` may leave the PHY alone.

Nothing is assumed but `DownloadAssumption`: the revisions are among those of the switch
and there is at least one poll. TLC checked the conjunction of these invariants on the
instance of `phy_mcu` first.

### Only model-checked

* Liveness: `StallEnds`, `PacketsReleased`, `RefillEnds`, `HangEnds`,
  `WorkServed`, `PassEnds`. Liveness under fairness and
  `ENABLED` are out of the prover's reach and stay so.
* The violations of `findings`: a counterexample needs no proof.


## 5. Not modelled

* The words of PHY and MCU code, data and parameters: `PhyCode` has their order,
  their units, hooks and versions. ePHY parameters are a field of `Chip`.
* TSO and checksum offload commands, VLAN tags, statistics counters, boot
  arguments, log messages.
* EEPROM access (bit-banged I/O, a straight sequence without a state of its own)
  and the vendored headers in `linux/`, which hold constants and types.
* What `rxInterruptVTD()` does with packets; it is the same as in `rxInterrupt()`.
* Single bits of the multicast hash: the model knows that both halves of the
  filter are written from the same word.
* The firmware's side of the out-of-band mutex: it is not in the repository, and
  the code goes on when it does not get the mutex.

## 6. Plan

1. The poller composed with the rings themselves: what the rings suffer when
   `setLinkDown()` empties them under a poller, beyond the order of servers that
   `Interrupts` has.
2. The filter with hash bits, and the management firmware as a second party that
   may keep the mutex.
