# Verification of the igb driver

This directory holds TLA+ models of the Windows 11 NetAdapterCx driver for the Intel I210 in
`src/`, the TLC configurations that check them, and TLAPS proofs. `PROJECT.json` lists the runs,
the source lines behind every definition, and, for every property, a change of a definition (a
*mutant*, marked in the modules) that makes the property fail.

## The system

| Component | Files | State | Operations |
|---|---|---|---|
| Transmit queue | `txqueue.cpp` | descriptor ring, `TxDescIndex`, a TCB per packet slot; packet and fragment rings shared with the client | create, start, stop, destroy, `EvtTxQueueAdvance` (post, then complete), arm and disarm, cancel |
| Receive queue | `rxqueue.cpp` | descriptor ring indexed like the fragment ring; the two shared rings | create, start, stop, destroy, `EvtRxQueueAdvance` (indicate, then post), arm and disarm, cancel |
| Interrupts | `interrupt.cpp` | per interrupt the fields `EICR` and `ICR` that hand causes from ISR to DPC; mask registers | initialise, ISR, DPC |
| Link | `link.cpp`, shared code | `get_link_status`, flow-control mode | reset, `IgbCheckLinkStatus` |
| Adapter | `adapter.cpp` | filter flags, multicast list, offload flags, RSS table and key | filter, offload and RSS callbacks, `IgbAdapterStart` |
| Device life cycle | `driver.cpp`, `device.cpp`, `power.cpp` | resources, `MsiInterrupts`, MMIO mapping | add, prepare and release hardware, D0 entry and exit |
| PHY/NVM semaphores | `e1000_i210.c`, `e1000_mac.c` | `SWSM`, `SW_FW_SYNC`, `clear_semaphore_once` | acquire, release |
| NVM | `e1000_i210.c`, `e1000_nvm.c` | shadow RAM, checksum word | read, write, validate, update |
| PHY | `e1000_phy.c` | MDIC, auto-negotiation registers | read, write, set up the link |
| MAC, 82575 family | `e1000_82575.c`, `e1000_mac.c`, `e1000_base.c` | address and hash tables, reset state, flow control | reset, init, update tables, resolve pause |
| Mailbox, VF | `e1000_mbx.c`, `e1000_vf.c` | mailbox registers, latched read-to-clear bits | read, write, check, reset |
| Management | `e1000_manage.c` | host interface memory | host command, load firmware |
| Dispatch, definitions, build | `e1000_api.c`, headers, project files | none | |

**How they interact.** The client, NetAdapterCx, calls one queue's callbacks one at a time, and those
of different queues, and the adapter's, at any time. A queue shares two rings with the client and a
descriptor ring with the device; offload callbacks write flags the posting loop reads. The device
raises causes; the ISR collects them in the interrupt's context and queues a DPC, which looks the
queue up in the adapter's table and notifies the client, or checks the link. Checking the link reads
the PHY, which the shared code brackets with the semaphores, whose other party is the firmware.

**What is hard.** A completion loop that believes a status bit the device wrote into memory the
driver reuses; ring indices that chase each other; a cancel in the middle of it; arming a
notification against a completion that just happened; ISR, DPC and masking on several processors;
stopping a queue while a DPC may still be about to notify it; semaphores with time-outs on every
step; messages through one buffer for both directions, with flags that reading clears; a PHY whose
registers depend on a page selected before; a preparation of the device of which any step may fail.
`PROJECT.json` lists each hazard at its line with the properties that cover it, or why none does.

**What makes each component correct**: TX — no descriptor in use is overwritten, what is returned was
sent once, every packet comes back. RX — frames are indicated in order and once, the device has only
posted buffers, reception never stalls. Interrupts — no cause is stranded, no wake-up lost, nobody is
notified after stop. Semaphores — exclusion, nothing left held, release returns. Link — the last
report is the link's state, both ends agree on flow control. Adapter — the device accepts what the
last filter asks for. Life cycle — every failure undoes what was done, a second prepare is like the
first. NVM — a valid checksum after an update, every word asked for. Mailbox — no message is lost or
taken for another. PHY — every register is accessed on its page and under the semaphore.

## The modules

### NetRing

Index arithmetic: `NetRingIncrementIndex`, sums reduced modulo a ring's size, distances, the
half-open stretches the driver (`[BeginIndex, EndIndex)`) and the unposted part (`[NextIndex,
EndIndex)`) are; `InOrder` is the sequence of what lies in the driver's stretch.

### HandOver

The abstract specification of a queue, for both directions: a client hands over items in order; each is
used once, in that order; none goes back unused while the queue is open, unless it was to be skipped,
and they go back in that order; a cancel gives everything back. `TxQueue` implements it with the packets
in `[BeginIndex, EndIndex)` of the packet ring, used when the last descriptor is taken off the ring
(`sent`) and skipped where `Ignore` is set; `RxQueue` with the buffers in that stretch of the fragment
ring, used when a frame fills one (`frames`). Both are open while the queue is started. The runs
`tx_queue` and `rx_queue` check `ImplementsHandOver`, that of `RxQueue` up to a frame that comes too
early, and both refinements are proved.

### TxQueue, MCTxQueue — `txqueue.cpp`

One action per life-cycle callback; `EvtTxQueueAdvance` starts the posting loop, `IgbPostPacket` and
`IgbSkipIgnored` are its iterations, `IgbFlushTransaction` its end with the tail write,
`IgbCompletePacket` and `IgbReturnPackets` the completion loop. The device (`DeviceTransmits`) and
the offload callbacks interleave with the iterations. A descriptor is abstracted to what the driver
and the device tell apart: zero, context, data (with fragment) or written back (DD). `sent` is
history.

Assumptions: one fragment per packet that is not ignored (`IGB_MAX_PHYS_BUF_COUNT` is 1 and the
capability says so); the client starts a queue with empty rings; it leaves the rings alone during a
callback and reuses freely what came back; a disabled device does nothing more.

| Run | Instance | Shows |
|---|---|---|
| `tx_queue` | packet ring 3, fragment ring 6; clients that tag and mark, switch an offload, or take a context descriptor per packet | the safety properties, that the queue is a `HandOver`, and that every packet comes back |
| `tx_stall` (violation) | rings 2 and 4, no offload | `IgbTransmitPackets` bails out for ever at the last index of an idle ring |
| `tx_overwrite` (violation) | rings 4 and 4 | the bail-out test does not protect descriptors in flight |

Bounds: two packets in flight of a packet ring of 3, each one or two descriptors, go round rings of 3
and 6 in every alignment, with wrap-around between context and data descriptor. The descriptor ring of
`tx_queue` meets `RingsFit`, without which `tx_overwrite` shows what happens; the code does not
establish it. `EveryPacketReturned` is stated for clients with which every packet takes a context descriptor,
because `tx_stall` shows that otherwise packets are held back for ever.

### RxQueue, MCRxQueue — `rxqueue.cpp`

`RxIndicateReceives`, `RxPostBuffers` one iteration a step, with their ends; `EvtRxQueueCancel` in its
three parts, with frames still arriving until the device has quiesced. `frames` is history: the
descriptors filled and not yet indicated. Both rings have one size, which the driver relies on
(`RxdArray` is sized by one and indexed by the other). The start of a queue gives the device zeroed
descriptors before the driver has posted any, so that a frame may come too early; the model has such
frames in every run, and the history `early` notes the first until the next start. One moves the head past
descriptors that are posted afterwards, and `FilledInOrder`, `DeviceHasOnlyPosted`, the refinement and
`ReceptionContinues` do not hold from there on: they are stated up to it and, after it, from the next
start. Run `rx_queue`, rings of 6: every fill level with every alignment, and a frame more than there are
packets; the queue is a `HandOver`.

### Interrupt, MCInterrupt — `interrupt.cpp` and the queues' arming callbacks

The cause registers latch whether or not masked; `DeviceSends` is a message (with MSI-X: cleared and,
for a receive queue, masked automatically) or the line. The ISR is up to three steps, one per
register read or queuing; the DPC takes the `EICR` field, notifies receive queues in bit order, takes
the `ICR` field, notifies the transmit queue and looks at the link. Each queue has a client that
polls, arms, polls again, waits, disarms, cancels and stops. `KeFlushQueuedDpcs` waits for messages,
ISRs and DPC instances of the queue's interrupt that are under way when it is called (`flush`), not
for later ones.

Merged steps: accesses nobody can tell apart from the one before them (a mask register written under
the interrupt's lock right after the cause was read). The flush read after a mask write is taken to
push messages ahead of it, as PCI Express orders them. `adapter->Lock` is modelled because Stop holds
it over the flush.

| Run | Instance | Shows |
|---|---|---|
| `int_safety` | one RX queue, the TX queue and both; both modes; two processors, DPCs that overlap or not | causes never stranded; MSI-X without overlap never notifies a stopped queue; a million states |
| `int_wakeup` | two processors; MSI-X with an RX queue, with the TX queue and a changing link, with the link alone and overlapping DPCs; shared with an RX queue and the link, with the TX queue, the link and overlapping DPCs | no lost wake-up, no lost link change, in either mode |
| `int_stale_cause` (violation) | shared, both queues | a masked cause read later reaches a queue that was stopped |

`NotifiesRegisteredMsix` is restricted to DPC instances that do not overlap. With overlap a second
instance, started after the flush began, can take the transmit cause from the one the flush waits
for; it is listed as a hazard.

### SwFwSync, ResourceLock — `e1000_i210.c`, `e1000_mac.c`

`SMBI` is set by being read as clear, `SWESMBI` latches unless the firmware is in, `SW_FW_SYNC` is
read and written in separate steps. Polling loops end in success or in their time-out. The wait for
`SWESMBI` ends while the firmware is stuck. The wait for `SMBI` may end whenever `SMBI` is set, whoever has
it: the holder may itself be waiting for a stuck firmware, as many rounds and slower ones, or be held up
by the scheduler. The first thread for which it ends clears both bits, `clear_semaphore_once` and the
bits in separate steps, so that a second one may clear them too. The history `robbed` notes that this
hit a thread that had `SMBI`. The outer loop of acquire is bounded by `Timeout`, 2 in the runs for 200.

| Run | Instance | Shows |
|---|---|---|
| `swfw_sync` | two threads, two resources, a firmware that takes one of them, `SMBI` abandoned by an earlier driver or not | exclusion and exact bits up to a robbery; nothing left behind, recovery and the end of every release, robbery or not; the refinement |
| `swfw_takeover` (violation) | the same, waits that end only while the holder waits for a stuck firmware (`Prompt`) | a time-out clears `SMBI` from under its holder, and two threads acquire one resource |

`Prompt` narrows the second run to the time-out that needs no scheduling delay; the first run and the
theorems do not assume it.

`ResourceLock` is the abstract specification: a resource is free, granted to one thread or used from
outside; a request is granted while the resource is free, and a call that was granted succeeds, one
that was not leaves nothing. `SwFwSync` implements it under the mapping next to `Lock`: a resource is
granted by the write that sets its bit, given back by the write that clears it, and its outside user
is the firmware's bit. The run checks `ImplementsLock`, which lets the step go that robs a thread, and
all that follows it; it is proved.

### Link — `link.cpp`, the link functions of the shared code

The set-up by `e1000_init_hw` (`e1000_setup_link_generic` with the copper and the SerDes half), the
check (`IgbCheckLinkStatus` step by step: two reads of the sticky `PHY_STATUS`, `get_link_status`,
the resolution of flow control, the report) in up to two DPC instances and at power-up, where
`IgbResetLink` clears causes first. The partner comes and goes with any abilities, negotiates or not; any PHY read may
fail, and so may the read of the NVM with which the set-up of a SerDes link begins. In D3 the MAC loses
`CTRL` and the watermarks, and neither power-up nor a check writes them again; the advertisement is lost or,
in a copper PHY that keeps its power, stays along with the link (`LosesPower`, `OwnChoice`).

`FlowControlAgrees` compares what is configured with IEEE 802.3's table for both ends, for partners that
negotiate; with the others the mode of the former link stays. It asks for watermarks until a set-up stopped,
met a link that was already up, or was lost in D3 (`unset`): the check after power-up may then have pause
frames sent with both watermarks at 0. `RealLinkReported` says that the last report is true; of the pause
mode, that it is what `CTRL` says, with copper, with a SerDes partner that negotiates, and with a forced
SerDes link that is not `unset`. What the properties leave out fails: overlapping checks, a failed read in
the last check, and the cases just named.

The driver zeroes `e1000_hw`, so that it always asks for `e1000_fc_none`; the other modes are in the
domain of the shared code, which the run covers.

### Device — `driver.cpp`, `device.cpp`, `power.cpp`, `adapter.cpp`

The life of the device: add, the seven parts of `IgbInitializeHardware` in order, each of which may
fail, power, release, a second life. `IgbGetResources` is over all lists of up to four resources, one
more than there may be interrupts. In D0 the client sets filters and starts queues, each in two
steps, as both read `RCTL` first and write it last. `ResourcesBalanced` and `FilterHonoured`, the latter
with a window of the address per `mc_filter_type` as the device documentation has it, against the
shifts of `e1000_hash_mc_addr_generic`.

`MCAdapter` has `Device` and `Link` for the run `adapter`. Each behaviour is of one part: the client's filters,
the resources of two lives, or the link through three changes of link or power. They share no variable but
`phase`; what power does to the link is in `Link`.

### Nvm, NvmContents, Manage, Mailbox, Phy, MCServices — the shared code's services

Each talks to one other party and shares no state with the rest, so one run, `services`, has them side
by side, one per behaviour.

* `Nvm`: read, write, validate and update on an I210's shadow RAM (chunks under the semaphore, the
  read function swapped and restored, the commit to the flash), on SPI EEPROMs (ready polling, pages,
  address widths) and Microwire EEPROMs. Words count modulo 4, the chunk is 2, the memory 8 words:
  every transfer length crosses a chunk and a page. Every access may time out.
* `NvmContents`: the part number in its two forms with lengths, block sizes and pointers of any value,
  and the search of the one-time programmable records. An I210 without a flash, for which reading the part
  number fails at once, is left out.
* `Manage`: the host interface command with answers in time, late or never, and firmware loading
  through the moving window. Answers to different commands are not told apart, by the driver either.
* `Mailbox`: both ends of one buffer, ownership bits, read-to-clear bits with the driver's copy, the
  requests of a virtual function, resets, control messages and time-outs. The driver of the physical
  function is not in the code; it is taken to answer one thing after the other.
* `Phy`: functions as sequences of accesses with alternatives, run against nine kinds of PHY by one or
  two threads, with the page, the semaphore and failing accesses. Loops are cut after two rounds,
  registers have no contents.

A window of the host interface holds dwords of a command or of an image, so that `Dwords` reaches to
the longer of the two. `PartsAssumption` says that the words of the part number are in the memory, that
`E1000_PBANUM_LENGTH` has room for ten digits and their end, and that a dword of the one-time
programmable memory is a record with a type and an address: the field is three bits wide.

Run `nvm_chunks` (violation): a read of two chunks returns the first one twice.

## Fairness

The code has no scheduler of its own; the specifications assume what Windows and the device promise.
A callback, an ISR or a DPC once begun goes on (weak fairness of its steps). An enabled transmit unit
works off its ring. The client polls a started queue; in `RxQueue` it also refills the rings, which it
can only do between two callbacks, hence strong fairness. An interrupt's lock that is released again
and again is got (strong fairness of the client's steps in `Interrupt`); so are `SMBI` and `SWESMBI`
in `SwFwSync`, where the firmware leaves in the end. `ReleaseReturns` is stated for a firmware that
is not stuck for ever and again. Nothing forces a client to start, stop or cancel, the link to change
or frames to be given. In `Link` a check that began goes on and an interrupt that is raised leads to a
DPC, which `Interrupt` shows.

The runs of the queues, the interrupts and the semaphores check for deadlock; those of `Link`,
`Device` and the services end when their bounds are used up.

## What is proved

Every theorem is for all values of the constants that the named `ASSUME`s of the modules allow; TLC
evaluates those on each run. Where a property is not inductive, the proof module states the
invariant that is, as a conjunction of named parts, shows that `Init` implies it and each action keeps
it, one lemma per action or group of actions, and derives the property from it.

`NetRingProofs` has the lemmas about ring arithmetic (`Dist`, stretches of a ring) that the proofs of
both queues cite, and those about `InOrder`: what the sequence becomes when the stretch grows at its end
(`InOrderAppend`), shrinks at its beginning (`InOrderDrop`) or changes at one index (`InOrderAt`).

`TxQueueProofs`: for all ring sizes of at least 2, all sets of clients (`RingSizes`), and `NumTxDesc`
capped at 65535 as in the code.

* `TypesHold`: `TypeOK` is inductive; besides typing it says that every index stays in its ring and
  `available` never goes below zero.
* `NeverOverwritten`: under `RingsFit`, `Spec => []InFlightDisjoint`. The property is not inductive:
  it says nothing of where `TxDescIndex` is. `Invariant` adds `LoopsInOrder` (between two bounds of
  the ring the loops never overtake each other) and `DescriptorsInOrder`: measured backwards from
  `TxDescIndex`, an in-flight packet has its descriptors among the last `Written(i)`, those of a
  later packet come after those of an earlier one, and `Written(i)` is at most two per packet up to
  the frontier. `RingsFit` keeps that below a full circle (`PostKeepsOrder`).
* `CanceledStaysQuiet`: `Spec => CanceledNeverPosted`, from `LoopsInOrder` (NextIndex lies in what
  cancel marks) and `CanceledMarked` (what lies in front of the loop in a canceled queue is marked).
* `FragmentsReleasedWithPackets`: `Spec => []FragmentsFollowPackets`, without `RingsFit`.
  `FragmentsInOrder` makes the fragments the driver holds those of its packets, in the packets' order;
  `FragmentsCounted` relates the loop's two indices.
* `AllPostedAreSeen`, `OnlyOwnedMemoryRead`, `ReturnedAfterSending` (an action property), under
  `RingsFit`: all three from `DeviceInvariant`, which measures the tail and the head backwards from
  `TxDescIndex`, too. Descriptors no further behind than the head have yet to be taken: each is the last
  of a packet in flight or a context descriptor before it (`DescriptorsWritten`); a packet whose last
  descriptor is further behind has DD there and was sent once, any other is as written and was not
  sent (`PacketsDescribed`); the tail is at `TxDescIndex` between two calls (`TailInOrder`).
* `TxQueueIsHandOver`: `Spec => ImplementsHandOver`, under `RingsFit`. Appending is `Give`, returning what
  is complete `GiveBack`, the device's step `Use` when it takes the last descriptor of a packet and a
  stutter otherwise; every other step leaves `Packets` alone (`HeldKept`), and outside a started queue
  the ring is empty (`NothingHeld`). That a packet is used after all in front of it is
  `DescriptorsInOrder`; that it is used once, `PacketsDescribed`.

`RxQueueProofs`: for every ring size from 2 to 4096, which the driver has for both rings.

* `TypesHold`; `IndicatedInOrder` (`FilledInOrder`), `OnlyPostedGiven` (`DeviceHasOnlyPosted`) and
  `AssertionHolds` (`FragmentAvailable`), without a hypothesis. `Invariant`: until a frame comes too early,
  the tail is one short of `NextIndex` and the head as far from `BeginIndex` as there are frames, so
  that it never reaches `NextIndex` (`HeadBeforeTail`); what it has passed is filled, in order, and
  the rest is as posted (`FilledUpToHead`). The next start establishes it again.
* `RxQueueIsHandOver`: `Spec => ImplementsHandOver`. No buffer has two frames (`FillsOnce`), as those in
  `frames` are at consecutive indices; a frame is the `Use` of the buffer at the head, an indication
  the `GiveBack` of the first one; `HoldsNothing` has the rings empty outside a started queue. A step that
  leaves `early` set is let go; the cancel and the start that follow are `HandOver`'s again.

`InterruptProofs`: for every set of receive queues and of processors (`ConstantsAssumption`), both modes.

* `TypesHold`, and `CausesNotStranded`: what is in a field has somebody who will take it
  (`FieldsCarried`), among them the ISR that is about to queue the DPC (`OtherRead`).
* `StoppedNotNotified`: `NotifiesRegisteredMsix`. For a receive queue's vector the flush waits for all
  that is under way and nothing new comes (`RxAwaited`). On the misc vector link changes go on, so that
  not everything is waited for; but messages, ISR, queue and instances take causes in that order, and what
  is ahead of something waited for is waited for (`AwaitedInOrder`), so that the last TXDW is
  (`TxAwaited`). That fails with two instances at once, for which the property is not stated.

`DeviceProofs`: for any numbers of interrupts, queues, resources and lives, and any multicast addresses,
of which the hash takes two bytes (`DeviceAssumption`).

* `ResourcesAreBalanced`: the invariant has what is left of the preparation at each of its steps, and
  `Counted`, which relates `MsiInterrupts` to the interrupts there are in a first life.
* `FilterIsHonoured`: `FilterInvariant` says that what a filter or a start has read of `RCTL` is
  still in it but for the bit the start cleared (`ReadIsKept`), and what the latest filter has left
  (`FilterSet`). That the hash equals the window of the address the device looks at is a lemma on each of
  the four types.

`LinkProofs`: for any number of changes (`LinkAssumption`), with registers lost in D3 and set-ups that stop.
`TypesHold`, and `StationsAgreeAboutFlow` from `Progress` (what a check that has met no change, failure or other check has established when it is at
each of its steps), `IdleIsSettled` and `Prepared` (what the set-up left).

`ServicesProofs`: for the services side by side as `MCServices` has them, for all their bounds
(`NvmAssumption`, `ServicesAssumption`, `PartsAssumption`).

* `MessagesAreHeard`, `MessagesAreAnnounced`: `Conversation` and `UnreadIsAnnounced` of the mailbox.
  `MailboxInvariant`: who has the ownership bit and nobody else fills or copies the buffer
  (`Ownership`); it holds one message unless it is being filled (`BufferWhole`); the latest request is the
  one in the buffer (`RequestInBuffer`); an acknowledgement or message flag left over from an earlier
  request is gone when the next is filled in (`FlagsAreNew`).
* `HostInterfaceIsTrue`: with bit C clear and SV set the window has the firmware's answer (`Answered`); of
  an image the dwords copied so far are in place and the base address is that of the block under way
  (`CopiedSoFar`). Division by a block length that is not known takes a few lemmas (`Divided`,
  `DivisionUnique`, `DivisionMonotonic`).
* `NothingIsLeftBehind`, `TransfersAreExact`: `NvmInvariant` has the memory held for a call with
  something to do (`HeldForTransfer`), and how far a read and a write have come (`ReadSoFar`,
  `WrittenSoFar`). For the pages of an EEPROM: a page's end is found (`PageEnds`), what goes out before it
  does not wrap (`WithinPage`), so that the right words change (`PageProgrammed`). The theorem has the
  hypothesis `PartFits`: an SPI EEPROM addressed with eight bits has no more than the two halves that
  A8 tells apart; the code takes the width from EECD (`e1000_82575.c:482`) and does not compare it with the
  size.
* `CommitsAddUp`: `CommittedAddsUp`, an action property. `MemoryHolds` keeps words in their range, and says
  that a commit that lost nothing finds the shadow RAM adding up. That the checksum word completes the
  sum is a statement about `SumFunctionOnSet`, a fold: the sum over a set with one more element is shown to
  be the sum plus that element, and a function changed at one place to change its sum by the difference.
* `ContentsAreConsistent`: `PbaInvariant` has that a length that was reported, and a part number that was
  read, are still those in the memory (`LengthKept`, `BlockKept`); `RecordFound` that what the search of
  the one-time programmable memory returned is reached from the first record over whole records. The
  search is a recursive function; it is shown to be well defined and, from the last record
  backwards, to return only what is reached (`SearchReaches`).
* `SemaphoresAreBalanced`, `PagesAreKept`: see below.
* `ServicesTyped`: `ServicesTypeOK`, from the invariants above, with a bound on the polls and the dwords
  of the host interface (`HostBounds`).

Induction. The library's theorems about it take an operator as a parameter, which the provers
cannot instantiate. `LeastNumber` and `InductionOver` say the same of a set: a set of natural numbers
that is not empty has a least element, so that one that has 0 and with n also n + 1 has all. They
follow from the theorem that `<` is well founded on the natural numbers, and carry the proofs about sums,
the search, and finite sets of addresses.

The PHY. A state of `Phy` is what a thread has left to do of a function, and an invariant has to say of
every such remainder that it may go on from the page that is selected. That is stated as a judgement:
`Runs(k, f, p, S, q, T)` says that on a PHY of kind `k` the function `f`, begun on page `p` with the registers
`S` read, makes every access on its page and after the read it needs, and ends on page `q` with `T` read. It is
defined as membership in a set of runs that is closed under what is left after a step (`Closed`), so
that no induction over the function is needed: to show it of a function is to give such a set. There is
one lemma for each way of putting functions together (`RunsOn`, `EitherRuns`, `OptionallyRuns`), one for each
access, and one for each function of the driver (`SetupKept`, `CheckKept`, `InitParamsKept`, ...): it
keeps page 0. `PhyInvariant` says of each thread in which phase of an access it is (`Outside`, `AtSelect`,
`AtTransfer`, `AtRelease`; `PllBegins` and `PllInside` for the workaround that has the semaphore throughout), that
it holds the semaphore in the phases where it should, and that what remains runs from the current
page. `SemaphoresAreBalanced` and `PagesAreKept` follow. Two threads take turns where every access selects
its page under the semaphore (`SelectsAlways`); where pages are the caller's business the model has
one caller. A call that went on after an error it did not look at is left out of the pages (`blind`), and
so is what follows a call that ended at another page (`left`).

`SwFwSyncProofs`: for all sets of threads and of resources, every number of attempts, and time-outs at any
moment, without a hypothesis.

* `TypesHold`, and `AcquiredIsExclusive`: `Spec => []ExclusiveUnlessRobbed`. `Invariant` adds that, until a
  thread is robbed, a set SMBI has exactly one holder unless it is abandoned, that while SWESMBI is set the
  firmware is out, that what a thread read of SW_FW_SYNC is still the register's value when it writes, and
  that the claims of two threads are disjoint and are the register's software bits. None of these is
  inductive without the others: the read-modify-write is atomic only because of both semaphores.
* `BitsAreClaims`: `Spec => []BitsMatchUnlessRobbed`. `SemaphoresAreReleased`: `Spec => []HeldOnlyInside`,
  after a robbery, too.
* `SwFwSyncIsLock`: `Spec => ImplementsLock`. With `Invariant` before and after, every step is one of
  `ResourceLock`'s, leaves its variables alone, or leaves a thread robbed: the calls are its `Acquire` and
  `Release`, `WriteSync` its `Grant` or `Drop` (`WriteRefines`), `PutDone` its `Succeed` or `Returns`, every
  way of giving up its `Refuse`.

Only model-checked:

* the liveness properties `EveryPacketReturned`, `ReceptionContinues`, `WaitingClientWakes`,
  `LinkChangeSeen`, `AbandonedIsCleared`, `ReleaseReturns` and `RealLinkReported`: fairness and
  ENABLED are out of the prover's reach.

Every safety and action property of the passing runs is a theorem, some under the hypotheses named
above: `RingsFit`, without which `tx_overwrite` shows what happens, and `PartFits`. Both are about sizes that
the code does not compare.

No module has a RECURSIVE operator.

## Findings

1. `tx_stall`: transmission stops for good when the descriptor index reaches the last entry.
2. `tx_overwrite`: descriptors in flight are overwritten when the rings are of equal size.
3. `int_stale_cause`: with a shared interrupt a stopped queue's table entry is used.
4. `nvm_chunks`: a read or write of the shadow RAM longer than 512 words starts every chunk at the
   same address. The driver's own calls are shorter.
5. `swfw_takeover`: the one-time clearing of `SMBI` takes it from a thread that waits for a stuck firmware;
   both then write `SW_FW_SYNC`, and two threads have one resource.

Met while modelling, without a statement in the repository to hold them against:

* `device.cpp:56`: `MsiInterrupts` is never reset, so that a second prepare uses vectors not given.
* `rxqueue.cpp:299`: the start of a queue and a filter undo each other's `RCTL`.
* `adapter.cpp:57`: broadcast acceptance is never taken back. `adapter.cpp:308`: the shift
  `(index & 2) << 3` leaves half of RETA unwritten. `rxqueue.cpp:115`: the VLAN tag is reported when
  the descriptor says there is none. `txqueue.cpp:323`: a packet without fragments would be written
  through a null pointer; the client sends none.
* `rxqueue.cpp:340`: a frame between the start of a queue and its first buffers is written to address 0 and
  moves the head past descriptors that are posted afterwards; the driver waits for ever at one of these.
* `power.cpp:18`: D0 entry restores neither filters nor addresses, nor `CTRL` and the watermarks, so that
  the check (`link.cpp:10`) may have pause frames sent with watermarks of 0.
* `e1000_82575.c:1619`: a SerDes link that does not negotiate is reported with a pause mode that `CTRL` lacks:
  after D3, after a failed read of `NVM_COMPAT`, after a negotiation that timed out. `e1000_mac.c:1388`: with
  a copper partner that does not negotiate the mode of the former link stays, at half duplex.
* `interrupt.cpp:215`: overlapping checks can leave a dead link reported as up. `link.cpp:46`: a
  failed PHY read is reported as a lost link, and nobody looks again.
* `e1000_i210.c:361`: a write that times out returns success. `e1000_i210.c:860`: the PLL workaround
  goes on without the semaphore. `e1000_phy.c:3047`: power-up and -down write what a failed read left.
* `e1000_vf.c:422`: the overflow flag of a long multicast list is overwritten. `e1000_manage.c:150`: a
  command that timed out leaves its bit set.
* The example for filter type 2 in the comment at `e1000_mac.c:547` (0x163) is not what the code
  computes (0x58D); the code agrees with the device.

## Not modelled

Fields of descriptors and of packet metadata (checksum, segmentation, VLAN); receive checksum and RSS
registers, whose handlers write what they are given and keep no state; the receive FIFO flush of the
82575; VLAN table, LEDs, statistics, PCI-X, PCIe and virtualisation settings; SerDes power-saving and
the media swap of the M88E1112; Kumeran, EMI, I2C bits and the PHYs of other families (82577, GG82563,
BM, IFE); the bits on EEPROM lines; manageability cookies; hot ejection (a register reading as all
ones); dispatch tables, declarations and build files.

## Plan

1. **Done**: rings, queues, interrupts, semaphores with their abstract specification, link, life cycle
   and filters, NVM, PHY, mailbox, management.
2. **Done**: abstract specifications of the semaphores and the queues, with proofs that they are
   implemented; proofs of every safety property that a run checks.
3. An abstract specification of the mailbox (one message each way, an answer to each request), with a
   proof that `Mailbox` implements it; invariants for receive queues with early frames, of what still
   holds there.
