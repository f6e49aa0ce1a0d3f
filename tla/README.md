# Verification of the SP11 MSHW0485 touchscreen driver

TLA+ models, TLC configurations and TLAPS proofs for the Linux driver of the
Surface Pro 11 touchscreen: the touch client `mshw0485_touch.c`, below it the
QSPI controller driver `spi-geni-qcom.c` and the DMA engine driver `gpi.c` (all
in `phase55/modules/`), and the HID-over-SPI transport `spi-hid-core.c` of the
earlier stack (`phase54/modules/`). Paths are relative to the repository root;
unqualified line numbers are in `mshw0485_touch.c`.

Contents: 1 inventory, 2 modules, 3 runs, 4 bounds, 5 fairness and deadlock,
6 what is proved, 7-13 the models one by one, 14 what the counterexamples say,
15 not modelled.

## 1. Inventory

| part | state it keeps | operations | hard behaviour | module |
|---|---|---|---|---|
| Touch client life cycle | `io_lock`, `mode_enabled`, `awaiting_ready_heat`, `recovery_path`, two `u8` streaks, `fatal_transport_error`, `stopping`, `recovery_work`, the edge counters | hard IRQ, IRQ thread, recovery work, suspend, resume, remove, probe | five contexts share flags, some written without the lock; edges can be lost; bounded retries over two paths | `G6tsLifecycle` |
| What the input core sees of it | gate, fingers, power | open, report, close, suspend, remove | a finger left down behind a closed gate | `TouchService` |
| Initialization chronology | `initialization_stage`, five `parity_*_required` flags, captured feature contents | the requests of `g6ts_full_reinitialize_locked` and `g6ts_windows_cold_attach_locked` | partial failure at any request; owner boundaries; answers to older requests | `G6tsInit` |
| HID-SPI framing | `last_class`, `last_content_id`, `last_content_len` | `g6ts_dma_read_response`, output, descriptor checks | a header that is not there yet (`ready_quiesce`) | `G6tsInit`, `G6tsLifecycle` (its outcomes) |
| Heat decoding | `heatmap`, `heat_seen`, `heat_queue`, `contacts` | `g6ts_extract_heatmap`, `g6ts_find_contacts` | 32-bit sums from the wire, flood fill, a full table | `G6tsHeat` |
| Assignment | `assign_work` | `g6ts_assign_tracks` | unequal numbers on both sides, ties, overflow | `G6tsAssign` against `G6tsMatching`, in `G6tsFrame` |
| Contact tracker | `tracks[]`, slots | `g6ts_update_track`, `g6ts_report_heat_contacts` | slots over several frames | `G6tsTracker` |
| GPI DMA engine, transfers | event and transfer rings, `desc_issued`, the deferred TX slot and its timer | prep, issue, event tasklet, timer, terminate | tasklet, timer and client run concurrently; late duplicate events | `GpiQspi` |
| GPI DMA engine, channels | `pm_state`, `ch_state`, `ev_state`, rings, `gpi_cmd`, `cmd_completion` | alloc, terminate, free | commands that time out and are executed later; unwinding | `GpiChannel` |
| GENI controller, GPI mode | the pair of completions on the stack, `xfer_completion` | paired read, generic transfer, error handling | a timeout races the completion | `GpiQspi` |
| GENI controller, FIFO and SE-DMA mode | `cur_xfer`, `rem_bytes`, five completions, `abort_failed`, status registers | `transfer_one`, `handle_err`, ISR, polled transfer | a handler held up between its status read and the lock | `GeniSe` |
| HID-over-SPI transport | `output_done`, `response`, `bus_error_count`, `attempts`, `power_state`, `hid` | IRQ thread, `reset_work`, `create_device_work`, requests, error handler | answers that come late; a device added from the wrong answer | `SpiHid` |
| Classifier, sysfs, earlier DMA drivers, BIOS-reference client, tools, scripts, device trees, tests | | | | section 15 |

How they interact: the panel pulls GPIO51; the hard IRQ counts the edge and
wakes the thread; the thread, holding `io_lock`, reads header and body (one SPI
message each, two DMA descriptors per message) until the line is released. A
Heat body goes through decoding, assignment and tracker under the same lock. A
reset or a host fault closes the input gate and queues `recovery_work`; the
worker holds `io_lock` through the whole initialization and opens the gate;
suspend and remove close the gate without the lock, then wait for the others.
Every message becomes a call of the controller, which either has two GPI
channels (and then waits on DMA callbacks) or falls back to FIFO and SE-DMA.

What makes each part correct: the life cycle never loses a recovery, never
leaves a finger down behind a closed gate, is silent once suspended or removed,
and its retries end; input opens only over a panel that heard the whole
chronology; a frame is accepted only when measured whole, its contacts are the
strongest blobs and its assignment is optimal; the tracker reports a slot for a
contact that is there, after enough evidence, and never passes it from one
finger to another; the DMA engine completes every descriptor at most once, with
its own events, and never after it was freed; a channel that counts as active
runs on memory that exists; the controller never lets what one transfer left
behind end another; the transport adds a HID device only from a report
descriptor and turns its interrupt off when the bus stays bad.

## 2. Modules

| module | extends / instantiates | models |
|---|---|---|
| `TouchService` | | abstract: what the client promises to the input core |
| `G6tsLifecycle` | | five contexts of the touch client |
| `G6tsService` | `G6tsLifecycle`, instance of `TouchService` | the refinement mapping |
| `G6tsInit` | | the requests of an initialization |
| `G6tsHeat` | | section parser and segmentation |
| `G6tsMatching` | | abstract: what an assignment is |
| `G6tsAssign` | | the potentials algorithm |
| `G6tsFrame` | `G6tsHeat`, instances of `G6tsAssign` and `G6tsMatching` | a frame up to its assignment; the algorithm against its promise |
| `G6tsTracker` | `G6tsMatching` | one frame of the tracker, with any optimal assignment |
| `GpiQspi` | | deferred completion, rings, terminate, with the controller that waits |
| `GpiChannel` | | commands, set-up and release of the two channels, with the controller that asks |
| `GeniSe` | | FIFO, SE-DMA and polled transfers, with the interrupt handler and the engine |
| `SpiHid` | | the HID-over-SPI transport |
| `*_proofs` | the module of that name (`G6tsLifecycle_proofs`: `G6tsService`) | the theorems of section 6 |
| `MC*` | the module of that name | values for TLC |

The plan they were written by: life cycle first, because everything the user
notices goes through it; then the DMA engine, because its failures look like
those of the panel; then what the life cycle abstracts (chronology, frame,
tracker); then the two controller modes and the channel life cycle below; then
the older transport. All of that is done. What would come next: the theorems
of `GpiQspi` up to the first event that really meets its TRE again, 43 calls late
on a ring of 64, where their hypothesis now ends at the lap, 21 calls; the
`phase54` revisions of the DMA drivers, which differ from the `phase55` ones modelled here in the parts
that were fixed.

## 3. Runs

| run | asks | answer |
|---|---|---|
| `lifecycle_host_fault` | Phase 81/82 profile with the storm breaker of Phase 78, fair: is the gate ever orphaned, a finger left down, an edge spent with a packet unread, a suspend or remove not final; after a storm, may a software attempt that was already queued or under way open input; does every recovery resolve; is it a `TouchService`? | no edge or recovery is lost, every recovery resolves, only the hardware path ends a storm: all hold |
| `lifecycle_parity` | Windows-parity profile with single-response cadence and storm breaker: the same question of the gate with refused recoveries and boundaries; do rapid resets escalate? | holds |
| `lifecycle_stranded` | is a packet ever left in the panel with input open and no edge to come? | yes (section 14) |
| `init` | seven profiles, request by request: what does open input mean, what does a pause say, whose answers count, do the retries settle? | all hold |
| `frame` | well-formed and malformed reports on a small grid: does the parser stay inside, are the contacts the right ones, is the assignment optimal, do the loops end? | all hold |
| `tracker` | the three profiles: is a reported slot a contact of this frame, with its evidence, and the same contact as before? | all hold |
| `gpi_qspi` | QUP notifications, grace timer, timeouts, failing commands, fair, the tasklet running anywhere in `gpi_terminate_all`: is the deferred descriptor going to be retired and, unless it has strayed (section 11), alive; is every call answered in time, every event handled? | holds |
| `gpi_late_events` | duplicate EOTs, errors, residues, EOBs: do rings agree; until a TX has strayed, do events stay with their call? | holds |
| `gpi_window` | is the deferred descriptor always alive, whenever the tasklet runs? | no (section 14) |
| `gpi_channel` | late, lost and refused commands over four uses: is an active channel operational, is freed memory left alone, is a release complete, what does a set-up that failed half-way leave? | all hold, with the named exceptions |
| `geni` | FIFO, SE-DMA and polled transfers with a late handler: who ended the transfer, who has it in hand, does it end? | all hold; `OwnCompletion` and the FIFO bound of `TypeOK` with the exception `resetLost` (section 12) |
| `spihid` | read errors, resets and late answers: is the interrupt off exactly at the limit, where does each HID device come from? | all hold |

Four properties are conjunctions of named parts: `Progress` is
`RecoveryResolves` and `DrainEnds`; `DeferralSound` is
`DeferredHasWakeup` and, until a TX has strayed, `DeferredIsLive` and
`RetireLive`; `RingSafe` is `RoomToIssue` and
`RingQuiet`; `CallsComplete` is `CallbackInTime`, `EventsProcessed` and
`TransferEnds`.

## 4. Bounds

The module parameters of the driver are constants, so a life-cycle run is one
profile; `G6tsInit` and `G6tsTracker` choose among profiles in their initial
states.

* Life cycle: `PanelQueue` packets unsolicited (1 is enough for a packet behind
  an asserted line, since a reply can queue behind it; 2 in
  `lifecycle_stranded`); drain, response, storm and recovery limits of 2, the
  smallest at which below, at and past the limit differ; one exchange per
  initialization (the worker passes through "send" and "await" once, and every
  failure of an exchange occurs in it). `U8` is the modulus of the two streaks,
  256 in the code; a run with liveness needs it above `RecoveryLimit + 2`,
  because a streak that wraps in a small modulus would look like a recovery that
  starts over. In both passing runs the storm streak can wrap: after 256 rapid
  resets in a row the count is 0 again, and `StormEscalates` and
  `StormEndsInHardware` speak of the count, not of the storm. The shipped Phase 82
  profile has no storm breaker. `lifecycle_host_fault` turns it on, which
  `g6ts_probe` accepts; with a limit of 2, a run of it in which no reset follows
  another rapidly is one of the profile without, so nothing of that is lost.
* `init`: `ResponseLimit` 2 (one stray answer and one too many),
  `RecoveryLimit` 3 (a retry that is neither the first nor the last), one panel
  reset and one suspend at any moment, two packets on the wire.
* `frame`: a grid of 2 by 3 (two blobs in a diagonal, a blob with a bend, a
  noisy row), every image of three degrees of touch, with well-formed reports;
  `U32` is 16 for a map of six cells, so that the sum of a destination and a
  count wraps; none to two tracks against none to two contacts, unequal in
  both directions; a contact table of two, so that it overflows.
* `tracker`: two slots on a line of three places, all limits at the smallest
  value at which they differ from their neighbours; evidence and age saturate at
  4, the highest confirmation threshold. The state of a slot does not depend on
  other slots except through the assignment, which two slots and two contacts
  make ambiguous.
* GPI: two calls (every hazard is between a call and the next one, or between a
  call and its own terminate, which runs twice in each call); two unread events
  (an EOT with its notification or duplicate); rings of 4, the smallest that
  holds a TX descriptor, so that the second call wraps.
  A late duplicate is told from the event of a later call by its TRE, so two
  calls also keep within one lap of the ring: with four calls over a ring of
  four, a duplicate of the first has the TRE of the fourth, and `EventsStayOwn`
  is violated. In the driver's ring of 64 that needs an event that is 43 calls
  late, without a reset of the channel in between. One call is enough for a TX to
  stray, and the second runs with what that leaves.
* `gpi_channel`: four uses, two commands of the past in the hardware, one lost
  command or failed allocation. `MaxLate = 2` is a hypothesis about the hardware
  and not only a bound: with three commands that were never answered still on
  their way, a STOP that is executed late undoes the START after next, and
  `ActiveIsOperational` is false.
* `geni`: two transfers of up to three words over FIFOs of two, so that a
  transfer needs the watermark interrupt; lengths of zero, below and above the
  FIFO. Three transfers over FIFOs of three were needed to see what a DMA reset
  that timed out does to the fill level of a later transfer; the proof of
  section 6 is what led there, and `TypeOK` names the exception.
* `spihid`: an error limit of 2 (100 in the code), two reset attempts (the count
  goes on past them, as in the code, up to the width of its `u8`), three retries
  (3 and 10 in the code), three reports waiting at the device, one reset of its
  own or one user request, a supported and an unsupported device.

## 5. Fairness and deadlock

`FairSpec` of `G6tsLifecycle`: the interrupt, its thread and the worker are
scheduled by the kernel, the panel's line is released after the last read, and
a suspend, resume or remove that has begun goes on. The panel owes no packet and
no reply, the user no suspend or resume; every wait of the worker has a timeout.

`FairSpec` of `GpiQspi`: the kernel delivers the interrupt, runs the softirqs,
the timer and the controller thread; all of the thread's waits have a timeout.
The hardware owes nothing.

`G6tsInit`: weak fairness of the worker. `G6tsFrame`: of the frame's code, which
runs without a pause. `GeniSe`: strong fairness of the pump (a lock it competes
for, waits that all time out) and weak fairness of a handler that has begun;
neither engine nor interrupt need ever come. `SpiHid`, `GpiChannel` and
`G6tsTracker` are checked for safety only and state none.

Deadlock is not checked in `gpi_*`, `geni`, `gpi_channel` and `spihid`: these
models stop after the last call, or when the events of their bounds are used up.
In the other runs it is.

## 6. What is proved

Every theorem is checked by TLAPS for every value of the constants that the
named assumptions admit; TLC evaluates those assumptions in the runs.

| theorem | statement | from |
|---|---|---|
| `G6tsLifecycle_proofs` | `TypeCorrect`, `Invariance`, `NeverOrphaned`, `ContactsReleased`, `SilentUntilReady`, `SuspendQuiet`, `RemoveFinal`, `StormBroken`, `StormEndsCold`, `DrainComplete`; `Refinement`: `Spec => Service!Spec` | `ProfileAssumption` (profiles that `g6ts_probe` accepts), `LimitAssumption` |
| `G6tsFrame_proofs` | `NothingIsWrittenOutside`, `TheMapIsMeasured`, `TheContactsAreTheStrongestBlobs`; `TheAssignmentIsOptimal` | `GridAssumption`; the last also `CostAssumption`, `PredictionAssumption` |
| `G6tsTracker_proofs` | `NoGhostContact`, `Admission`, `SlotsKept` | `SlotAssumption`, `EvidenceAssumption`, `FrameAssumption` |
| `SpiHid_proofs` | `TypeCorrect`, `StormBounded`, `OriginOfReport` | `LimitAssumption`, `BoundAssumption` |
| `GpiQspi_proofs` | `TypeCorrect`, `DeferralWoken`; `DeferralIsSound`; `SafeWithinALap`, `CallbacksInTime`, `EventsOwn` | `RingAssumption`, `BoundAssumption`; of the behaviour, the third also `[]~ErrorOnDeferred`, the last three `[]InLap` |
| `G6tsInit_proofs` | `InputOnlyBehindChronology`, `PausesStandAtTheirBoundary`, `SuccessOnOwnAnswers` | `ProfileAssumption`, `BoundAssumption` |
| `GpiChannel_proofs` | `ActiveRuns`, `FreedRingsAreNotRun`, `WhatIsLeft`, `ReleasesEverything` | `BoundAssumption` |
| `GeniSe_proofs` | `FifosHold`, `CompletedByItsOwnEnd`, `TransfersStayInHand` | `TransferAssumption` |

**Life cycle.** None of the safety properties is inductive alone. `IInv` adds
`LockInv` (who holds `io_lock`; the gate stays closed and contacts released
while the worker holds it; it is still closed while the thread is about to queue
the work) and `CoreInv` (what each step of suspend and remove has already
established: interrupt off, thread quiet, work unqueued, worker idle). The
orphan property needs both: a suspend that fails may only return to "bound"
through the step that queues the work, and a thread that closed the gate has not
passed its queueing. A report in the hands of the thread after the gate was shut
(section 7) is followed by the same invariant: it is there only while a suspend
has not yet waited for the thread, or a remove not yet taken `io_lock`.
`StormInv` says that a software attempt that may still succeed has counted no
storm, because a reset that is read during it ends it; `StormEndsCold` is that
and the test of the path at its start. Each conjunct is proved actor by actor; frame lemmas say
which variables an actor leaves alone. `DrainComplete` is stated under
`HostFaultRecovery` and not `WindowsReadCadence`, which is where it holds: the
cadence reads one response per interrupt on purpose, and without host-fault
recovery a failed read leaves the packet.

**Refinement.** A step of the life cycle maps to a step of `TouchService` or
leaves gate, fingers and power alone. `IInv` gives nearly all of it; missing is
that the line stays dead once a resume has failed and while it is freed, which
`QuietInv` adds. The proof takes thread, worker and driver core in turn.

**Parser and flood fill.** `HeatInv` has four parts. `ParseInv`: between two
runs the map holds what was measured where something was written, and 0
elsewhere; a complete map is the image. `QueueInv`: no cell is queued twice,
which is why `heat_queue` never needs more than one entry per cell. `SearchInv`:
what was seen before the blob in hand is a union of whole blobs, and the table
holds those that pass the filters, each once, or the strongest `MaxContacts`.
`GrowInv`: the queue is in one piece, and the active neighbours of every cell it
has served were seen. So a queue that has been served is a blob: an active
neighbour outside it would lie in a blob that was done, and two blobs that meet
are one (`QueueIsBlob`, `BlobsMeet`). `RankedAppend` and `RankedFull` say that
replacing the weakest keeps the strongest, in whatever order they come. Sums over
sets of cells and minima are folds; what the proofs need of them is shown by
induction over finite sets, as the least element of a set of counterexamples
(`FinSetWF`), which needs no operator as a parameter.

**Assignment.** `AlgInv` is the invariant of the Hungarian algorithm at the grain
of its rounds; TLC finds no violation of it in the run `frame`. `MatchInv`: every
row that is in has a column of its own. `DualInv`: the potentials never exceed a
cost and a matched pair meets it; a column that holds no row has potential 0, so
the potential of a row never exceeds `InvalidCost`, and what the virtual column 0
loses in a row is no more than what the row gains, which bounds it by `InvalidCost`
times the size of the matrix. `PathInv`: there is an order of the visits along
which `way` leads from each column reached back to column 0, over pairs that meet
their cost (`TreeInv`), and `minv` is the least slack to the rows reached
(`RelaxInv`). It holds across `Shift` as well, which walks that way backwards with
one column let go of at a time. `FreeColumn` says that the inner loop always has
somewhere to go. `LinkInv` says that the matrix is the one of the frame, since
nothing else moves while the rounds run. That the answer is one of
`G6tsMatching!Optimal` is linear duality: a dummy row and a dummy column that are
matched meet at cost 0, and against their potentials those of a slot and of a
contact become prices, not below 0, that no near pair saves more than and that
each pair of the answer meets (`PricesOfDummies`, `PricesDecide`). If no dummy
pair is matched, every contact and every slot is matched with a dummy and no near
pair saves anything (`NothingToSave`).

**Tracker.** One lemma, `SlotStep`, says what a frame can do to one slot,
whatever optimal assignment is chosen: it is cleared, carries its track on, or
gets a new one. `TInv` (`TypeOK`, the admission window of each active track,
`ReportedIsSeen`) is inductive by that lemma, and the action property
`SlotKeepsContact` follows from it. Assignments enter only as pairings, so the
optimality of the algorithm is not needed.

**HID-over-SPI.** `RegisteredHasReport` is not inductive: the device is parsed
from `rd_buf`, filled from `resp_buf`, filled from whatever answer comes next.
`IInv` follows the answers back to the queue of the device. `LockInv` says who
sends requests; `BufferInv` that type and buffer agree unless a reset came in
between; `QueueInv` is the argument itself: answers come in the order of the
requests, so while `reset_work` asks for the report descriptor there is nothing
behind one but another, or the announcement of a reset; an answer that overtakes
the copy can then only be of the same kind. It rests on `reset_work` holding
`shid->lock` from the first request to the copy.

**Deferred completion.** `DeferralWoken` has no hypothesis at all: whenever a TX
is deferred, its timer is pending or at work, or the tasklet will look at it
again. That it is alive is `SafeInv`, which is inductive until a TX strays.
`TerminateInv` says that from the clearing of the slot to the last reset no TX is
deferred, or one has strayed: before the TX channel is marked the tasklet can
only defer one in the window, and afterwards it discards what it finds for that
channel. So, short of a stray, `gpi_terminate_all` frees lists only while the
slot is empty. `RetireInv` says that a TX is retired out of the slot, which stays
empty until the descriptor is unlinked; an error that is reported behind a
deferral would retire the head of the list instead, hence the hypothesis
`[]~ErrorOnDeferred`, which is about the hardware: it reports one end per
descriptor, so that such an error needs a duplicate so late that it was taken for
the end of a descriptor that then fails. Errors elsewhere, EOBs, late duplicates, residues and notifications
are all admitted, at any ring size and for any number of calls, late by any
number of laps. The next paragraph drops this hypothesis at the price of another.

**Within a lap of the ring.** `SafeWithinALap`, `CallbacksInTime` and `EventsOwn`
admit everything the hardware may do, errors included, under `[]InLap`: no TX
event that is unread or still owed is so many calls old that the ring has come
round to its TREs (`3 * (n - of) < RingSize`). This is a hypothesis about the
hardware that nothing in the code ensures; section 4 says what happens without
it. It is met by every behaviour of up to `RingSize / 3` calls, 21 in the
driver, and by longer ones whose late events are no later than that. What these
theorems say of callbacks, events and rings is, as in the properties themselves,
until a TX strays. The invariant, `OwnInv`, says that whatever is
on a list, in the hardware or in the slot of an active channel is the descriptor
of the call in progress, unless the tasklet is just retiring its predecessor
(`InHandInv`, `ListInv`, `SlotInv`, `HwInv`). An EOT says no more than a TRE, so
`Near` keeps where the events of older calls point: at one of the two TREs around
a write pointer that lies `j` descriptors back; `OtherTre` shows that within a
lap this is not the terminal TRE of the newest one, and `Attributed` that the
test `OfTerminalTre` of the code therefore rejects it. `ErrInv` and `OrderInv`
say that an error is the only answer of its descriptor and that no EOB follows an
end. `RpInv` gives `RingQuiet`: with nothing in hand the read pointer has caught
up, or the call has failed and the channels will be reset.

**Chronology.** Open input has to follow from answers, and an answer does not say
which request it is for. `IInv` therefore counts what is under way: `PipeInv`
says which answers the panel still owes or has sent, per path and step. After a
power cycle there are none but the one that is waited for; on the software path
one older answer may come first, and an attempt that takes it (`borrowed`) has
the wrong class next and cannot get past the report descriptor. That is the
argument for `SucceedsOnOwnAnswers`. `HeardInv` and `ConfigInv` relate what the
panel heard and holds to the step the attempt is at, unless a reset of the panel
is still unread on the wire. The lemmas about the wire (an append, a packet
taken, what a reset wipes out) are stated once and used by every handler.

**Channels.** The first half of `IInv` is about the driver's own book and holds
whatever the hardware answers: whose ring is whose, what a half-done list of
commands has established (`Works`, `Done`), what the client holds at each place
(`HoldingsInv`, unless a set-up has failed). The second half, `StepInv`, is about
the hardware and holds while every command has been answered: then at most the
command that is waited for is in the hardware, and what is reported is its
effect; a channel that counts as active is run from its ring (`RunsInv`).
`ReleasedIsClean` needs the first half and what `LeftInv` adds about set-ups that
fail half-way (theorem `WhatIsLeft`): at each place of the client, either RX
has no ring, and then nothing of an earlier use is there, or the driver serves
the channels it has. `ReleasesEverything` thus speaks of every behaviour, the
failed set-ups included, and after one of them says less, as section 12 does.
`NoFreedRing` needs the second half. `ActiveRuns` states `ActiveIsOperational` while no command was left
unanswered, and that events are served in any case; with unanswered commands it
is left to TLC (section 4 on `MaxLate`).

**Controller.** `IInv` has a part that holds of the driver as it is (types,
`HandlerInv` for the lock, `OwnerInv` for whose transfer `cur_xfer` is,
`PolledInv`) and a part, `Kept`, that holds until a DMA reset times out. The
ghost variables say where each word of a transfer is; `FifoInv` and `DmaInv`
say that a status bit, in the register or as a handler that was held up has seen
it, is true of the transfer under way; `RestInv` says what may be left in the
registers and in such a handler between transfers, which in FIFO mode is an RX
watermark and nothing else; `StopInv` and `ResetInv` carry that through cancel,
abort and reset: the late handler that has seen the cancel bit has seen, and
clears, everything before it. `TransfersStayInHand` needs only the first part.

Only model-checked: everything temporal with fairness (`Progress`,
`CallsComplete`, `TransferEnds`, `FrameEnds`, `RecoverySettles`), which the
prover does not do; the GPI properties when an event is a lap late, where they
do not hold in general (section 4), and `RingSafe` after a TX has strayed; the half of `ActiveIsOperational` that
concerns unanswered commands. Every other property of a passing run has its
theorem, under the hypotheses named above.

## 7. Touch client: G6tsLifecycle, TouchService, G6tsService

Variables carry the names of the fields of `struct g6ts`. What differs:

* `edge_unseen` is `interrupt_edges > handled_interrupt_edges`, the only use
  of the two counters.
* `contacts` says that Linux input holds a contact or `BTN_TOUCH`.
* `fifo`, `tail` and `latched` are the panel and the interrupt chip: packets
  the panel holds, GPIO51 still asserted for a moment after the last packet was
  read (what `ready_quiesce` is about), and an edge not yet delivered. A packet
  queued while the line is up may or may not make another edge.
* `work_pending` and `cancelling` are the state of the delayed work: queueing a
  work that is queued, or that `cancel_delayed_work_sync` waits for, does
  nothing. Delays are abstracted to "some time later".
* `pcT`, `pcW`, `pcP` say where the interrupt thread, the worker and the driver
  core are. A step is what runs between two points where another context can
  observe or change something: taking or releasing `io_lock`, one complete
  HID-SPI read with the test of `mode_enabled` at its end (2311), the report that
  follows it, which looks at that flag no more, a flag written without the lock,
  the test of `stopping` and the queueing of the work, `disable_irq`'s two halves,
  `cancel_delayed_work_sync`'s two, the release of the interrupt and of `ts`.
* `pcT` is "heat" or "touch" while the thread has such a report in hand.
* `parity_boundary` is the disjunction of the five `parity_*_required` flags.
* An initialization is a power cycle (hardware path), the reset response, and
  `Exchanges` request/reply pairs; each can fail as in the code, skips streamed
  reports up to `ResponseLimit` (`G6TS_FEATURE_RESPONSE_LIMIT`), and is ended
  by a panel reset. The requests themselves are `G6tsInit`'s.

| code | action |
|---|---|
| `g6ts_interrupt_edge` 920 | `InterruptEdge` |
| `g6ts_interrupt_thread` 2392 | `IrqEnter`, `IrqLock`, `IrqReadReset`, `IrqReadReport`, `IrqReport`, `IrqReadFault`, `IrqQuiesced`, `IrqDrained`, `IrqOverflow`, `IrqSchedule` |
| `g6ts_note_panel_reset_locked` 2317, `g6ts_note_host_fault_locked` 2357, `g6ts_handle_data_report` 2187 | `NotePanelReset`, `NoteHostFault`, `HandleData` |
| `g6ts_recovery_work` 3161 | `WkStart`, `WkRefused`, `WkBegin`, `WkFinish`, `WkFail`, `WkReschedule` |
| `g6ts_full_reinitialize_locked` 2931 | `WkPowerCycle`, `WkReadReset`, `WkSend`, `WkReadReply`, `WkReadPanelReset`, `WkReadFails`, `WkFinishRefused` |
| `g6ts_suspend` 3347, `g6ts_resume` 3371, `g6ts_remove` 3334 | `SuspendStart` ... `CoreSchedule`, `Resume`, `RemoveStart` ... `RemovePowerOff`, `ReleaseTs` |
| `recovery_work` queued or waiting when `ts` is freed | `WkStray` |

Assumed of the environment: the driver core serialises suspend, resume and
remove; after a failed resume only remove follows; `disable_irq` and `free_irq`
wait for the handler and its thread; the panel sends only while powered.

`TouchService` is the abstract specification: a gate (closed, waiting for the
first frame, open, or shut with one report on its way), whether a finger is down,
and how far the driver core is. A gate that closes for a reset or a recovery
takes the fingers up with it; a suspend or a remove shuts it without waiting, so
that one report may still come (`LastReport`), and takes them up when that one is
through (`GoesDown`, `Clears`). It has no panel, interrupt, mutex, worker or retry, and no source lines of its own.
`G6tsService` maps `mode_enabled` and `awaiting_ready_heat` to the gate,
`contacts` to the finger and `pcP` to the core. That a resume shows as
`Wakes` before the worker has opened anything is the point of the mapping.

Not promised by any property: that nothing outlives `ts`. The thread may pass
its test of `stopping` before remove sets it and queue the work after remove has
cancelled it (3340). The work waits 100 ms; meanwhile remove returns and devm
frees the interrupt and then `ts` (allocated at 3248), which holds the work
itself. `WkStray` is what follows: the kernel runs, or the worker locks, freed
memory. The model ends there, and `NoAttemptAfterRemove` says what is left to
say: up to the release of `ts` no attempt is made, and that one queued work, or a
worker that waits for the lock, is all that can outlive it. No document of the
repository claims more. A worker that finishes while suspend waits for it
leaves `mode_enabled` set on a suspended device; the interrupt is disabled, and
the next recovery closes it. A host fault clears the storm streak (2380) when it
schedules the cold recovery, while `docs/PHASE78_RESET_STORM_BREAKER.md` says
that only its success does: resets that go on after it are counted anew.

## 8. Chronology: G6tsInit

`Chronology` is the sequence of requests of the chosen profile: the Linux
sequence (bare or with `mode_config_fix`) or the Windows-parity attach, each
with its stage, the reply it waits for, what is checked of it, and the owner
whose value it needs. A packet is `[reply, len, content, own]`; `own` is a
ghost that tells an answer to this request from one to an older request with the
same class and id. Owners are `feedback`, `config`, `cfu` and `heat`; a panel
whose answer to the firmware offer calls for a payload, a replay or a busy wait
leaves the path at the boundary `branch`, as in the code. Bytes of requests, delays and log lines are left out.

| code | action |
|---|---|
| `g6ts_recovery_work` 3161 | `WorkStarts`, `AttemptFails`, `AttemptSucceeds`, `RefusesSoftware` |
| `g6ts_full_reinitialize_locked` 2931, `g6ts_windows_cold_attach_locked` | `PowerCycle`, `ReadReset`, `Sends`, `SendFails`, `Unsupported`, `PausesAtOwner`, `Completes` |
| the response loops | `ReadAccepts`, `ReadRejects`, `ReadSkips`, `ReadMeetsReset`, `ReadRefusesOffer`, `ReadFails`, `ReadGivesUp` |
| interrupt thread, suspend and resume between attempts | `IrqReads`, `SuspendResume` |

`SucceedsOnOwnAnswers` is the property a test would hardly reach: classes and
ids repeat, a late answer may be taken for a newer one within an attempt, and
what saves the driver is that such an attempt cannot come to a successful end.

## 9. A frame: G6tsHeat, G6tsAssign, G6tsMatching, G6tsFrame

`G6tsHeat` has the parser (`ParseMetadata`, `ParseOther`, `ParseHeat`,
`CopyRun`, `HeatEnds`, `ContainerEnds`) and the segmentation (`SeedBlob`,
`GrowBlob`, `CloseBlob`). `fits` of a section says that its length fields agree
with the bytes present, which is where the code returns early. `outside` records
a byte written beyond the map. The properties define a blob without a search and
compare.

`G6tsAssign` is `g6ts_assign_tracks`, one round of a loop per step.
`G6tsMatching` says what an assignment promises; its source lines are those whose
result it describes. `AssignsOptimally` also holds the certificate the loops
carry (`PotentialsFeasible`), and that no int of the workspace comes near
`INT_MAX`. `CostAssumption` is what the three cost constants must satisfy for a
gated-out pair to be worse than two unmatched ones and for a matrix of them to
stay within an int: 1000000, 3000000 and ten contacts do, by far.
`PredictionAssumption` says that there are as many tracks as places for contacts
and that a prediction is clamped to the logical range.

## 10. The tracker: G6tsTracker

One frame is one step, as in the code, which runs it under `io_lock` without a
callback in between: assignment, matched updates, unmatched tracks, new tracks,
collection. `Release` is `g6ts_release_contacts`. The glass has one dimension,
because the assignment and the split test see only distances. The three profiles
are the legacy tracker, `behavior_v2` and `windows_orchestrator` with its class
hysteresis. The classifier's result is an input: a class and whether its
margins are wide.

## 11. DMA transfers: GpiQspi

Line numbers here are in `phase55/modules/gpi.c` unless `spi-geni-qcom.c` is
named. Four contexts run concurrently: the controller thread (`pcC`), the event
tasklet (`pcK`), the timer handler (`firing`) and the hardware.

* `slot`, `grace`, `armed` are `qspi_deferred_vd` with its result,
  `qspi_deferred_grace_elapsed` and the pending timer. The handler is two
  steps, because it tests the slot and sets the flag without a lock.
* `issued` is `vc.desc_issued`; a descriptor is its call number and its doorbell
  pointer. `rp` and `wp` are element indices of the ring.
* `evq` is the unread part of the event ring; `snap` counts the events before
  the read pointer the tasklet last took from the hardware.
* `outcome` stands for the completions of the call in progress: the two of the
  pair on the stack, or `xfer_completion` and `msg->status`.
* `of` in an event is a ghost: the call the hardware means.
* The tasklet holds `pm_lock` for reading throughout, so the steps that take it
  for writing (`TPrepare`, `TReset`, `TStart`) wait for `pcK = "idle"`.

| code | action |
|---|---|
| `gpi_process_ieob` 961, `gpi_handle_irq` 1046 | `Irq`, `CommandIrq` |
| `gpi_ev_tasklet` 1484, `gpi_process_events` 1379 | `TkStart`, `TkEvent`, `TkRetire`, `TkClear`, `TkReread`, `TkFinish` |
| `gpi_process_xfer_compl_event` 1224 | `XferDiscard`, `XferEob`, `XferDefer`, `XferDuplicate`, `XferComplete` |
| `gpi_qspi_complete_deferred` 674 | `CompleteDeferred` |
| `gpi_qspi_deferred_timer` 1507 | `TimerRead`, `TimerWrite` |
| `gpi_prep_slave_sg` 2240, `gpi_issue_pending` 2305 | `Start`, `IssueRx`, `IssueTx` |
| `gpi_terminate_all` 1850 and what it calls | `TClear`, `TPrepare`, `TReset`, `TStart`, `TCommandFails` |
| `spi_geni_sp11_qspi_submit_read_pair`, `spi_geni_sp11_qspi_transfer_one_message` (`spi-geni-qcom.c` 601, 796) | `Start`, `WaitRx`, `WaitTx`, `ReadStatus` |

Assumed of the hardware: it works off a channel in order and says so with one
EOT or one error; it may send EOBs at the CONFIG and GO TREs, which ask for
them; the response of a read comes after its command; after a TX EOT it may or
may not send a QUP notification and a duplicate of the EOT at the same or the next
TRE (comment at 1278), one of each and at any later time; a RESET that is acknowledged
cancels what it still owes for the channel. A channel whose command was not
acknowledged may go on sending. The SPI core serialises the calls.

No lock keeps the tasklet out of `gpi_terminate_all` between
`gpi_qspi_clear_deferred` (1860), which takes no `pm_lock`, and the write of
`PREPARE_TERMINATE` on the TX channel (1875), and none does in the model. When
the tasklet defers a TX there, the ghost `strayed` records it; `gpi_window` shows
what it leads to. From then on `DeferredIsLive`, `RetireLive`, `CallbackInTime`
and `EventsStayOwn` claim nothing more: the slot may name freed memory, and what
the tasklet does with it is not defined. Up to there they claim everything, with
the tasklet running anywhere, and `DeferredHasWakeup`, `RingSafe`,
`EventsProcessed` and `TransferEnds` have no such exception.

Not modelled: `ieob_set` (on the QSPI path it only chooses a log line),
immediate-data events (no QSPI TRE makes one), `gpi_pause` and `gpi_resume` (the
controller does not call them), UART and I2C. A stale grace flag, set by a
handler that read the slot of an earlier call, is possible in the model: it ends
the grace period of the next TX early, which no property here forbids. A QUP
notification later than the grace period of its own transfer retires the TX of
the next one (1461); whether the hardware is ever that late is not known from
the repository.

## 12. Below the transfer: GpiChannel and GeniSe

`GpiChannel` (lines of `gpi.c`): each call of the client is a list of commands
(`todo`) sent one by one under `ctrl_lock`. `gpi_send_cmd` 880 is `Send`,
`Answered`, `Unanswered`; `gpi_handle_irq` 1046 is `Interrupt`;
`gpi_alloc_chan_resources` 2524 is `RequestTaken`, `RequestRefused`, `SetUp`,
`SetUpEnds` and `Undo`; `gpi_terminate_all` 1850 `Terminate` and
`TerminateEnds`; `gpi_free_chan_resources` 2453 `Release`, `Frees`,
`FreesEvents`. The client (`spi-geni-qcom.c` 1027-1074, 354) grabs TX then RX,
gives up when RX fails, drops both, and on a timeout terminates both. The
hardware works commands off in order, late ones included, or loses one. It tells
of a channel, not of a command, which is why a late answer can complete a later
command.

A set-up that fails (`gpi_ch_init`, 2541) undoes its commands but leaves the
ring and the `CONFIG_STATE` of the channel whose request it was, RX as a rule; the
DMA core releases nothing for a channel it was refused, and the client gives back
TX alone. The next use starts
from there: it allocates another ring for RX, and the first is lost.
`ReleasedIsClean` says what holds all the same: whenever the client has nothing,
either RX has no ring, and then no channel, event ring or interrupt is left
either, or a set-up has failed; without one, every ring ever allocated is freed.
Comments of the code say more ("free all allocated memory", 2480): after such a
failure it is not so.

Two exceptions are part of the other properties, because the code does not
promise more: after a set-up that failed half-way (`"set_up"` in `mishaps`) the
other channel may count as active without an event ring; after a command without an
answer (`"answer"`) a release frees the ring of a channel the hardware may still
run.

`GeniSe` (lines of `spi-geni-qcom.c`): the message pump (`setup_se_xfer` 1311,
`handle_se_timeout` 279, the polled `qcom_geni_spi_biosref_xfer` 1777), the
handler (`geni_spi_isr` 1455) and the engine share registers. The handler's
status read, its work under the lock, its completions and its clearing of the
status are four steps. Assumed of the engine: cancel, abort and reset take
effect at once (the comment at 388-393 calls a handler that does not run "the
only known case" of a failed abort); an error status ends the command; words
left in the FIFOs of a stopped command are gone; watermark bits are levels, the
last-word bit an edge. `geni_se_select_mode` clears every status register, as
the kernel's does. The polled transfer disables the interrupt, waits for the
handler, and gives interrupt and mode back, but leaves the RX watermark at 0; the
model keeps that, and later FIFO transfers are interrupted at every word.

`OwnCompletion` and the FIFO bound in `TypeOK` have the exception `resetLost`: a
DMA reset that timed out is only logged, and its late completion may be counted
for the next transfer, which then ends too early, finds words unmoved when it is
polled, or leaves words in the FIFO that the one after it fills. `StaysInHand`
has no exception.

Not modelled: target mode, word length, clock and chip-select registers,
runtime power management.

## 13. HID over SPI: SpiHid

Lines of `phase54/modules/spi-hid-core.c`. The interrupt thread
(`IrqReads`, `IrqHeaderFails`), `reset_work` (`ResetStarts` ... `ResetCopies`),
`create_device_work` and `refresh_device_work`, the requests of user space
(`UserLocks`, `UserRuns`) and the error handler (`ErrorStops`, `ErrorCancels`,
`ErrorAsserts`, and the release of the reset). `shid->lock` is taken only by the
requesters; the interrupt thread writes the response without it, so `resp_type`,
`resp_len` and `resp_buf` are read in separate steps. The device answers in the
order it is asked and announces its resets.

A device descriptor clears `attempts` and answers a request even when it is too
short to be parsed (374). `attempts` is a `u8` that the error handler increments
past the limit as well, after comparing the old value (282). Because the descriptor that
queues `create_device_work` has cleared it, that work is never at the limit when
its device is refused, and `spi_hid_stop_hid`, which would wait for the work it
is called from (266), is not reached from it: with a limit of two and the bounds of
`spihid`, TLC finds no state in which it is, while the same wait of `reset_work` for the other works
does occur.

Left out: probe failures, remove, forwarding of input reports, which leaves no
trace in the state.

## 14. What the counterexamples say

* `NoStrandedPacket` (`lifecycle_stranded`): `g6ts_interrupt_thread` returns
  when input is closed (2398) and the edge is spent; the worker opens input
  (3154) without another look at the line. A packet that came in between waits
  for an edge that the panel need not make. The comment at 2420 names this very
  danger for the drain loop. While the stream goes on a further packet usually
  makes an edge; the model shows that nothing in the driver ensures it.
* `DeferredIsLive` (`gpi_window`): the tasklet defers the TX between the
  clearing of the slot and `PREPARE_TERMINATE`; the reset frees the descriptor
  and the slot refers to it until the second terminate clears it. Setting
  `PREPARE_TERMINATE` before the slot is cleared closes the window.

## 15. Not modelled

* The contact classifier: fixed-point scores over generated tables; data, not
  control. Its result is an input of `G6tsTracker`.
* Sysfs diagnostics: read-only counters that no control depends on.
* `phase54/modules/gpi.c` and `spi-geni-qcom.c`, and the copies in `src/`:
  earlier revisions of the two files modelled here.
* `src/g6ts_biosref.c`, the polled client of the first stack: a single thread
  over the polled transfer, which is modelled in `GeniSe`.
* Byte layout of HID-SPI headers and descriptors; clock, power and pin control.
* Offline tools, packaging scripts, boot assets, device trees and tests. The
  profiles of the runs are those the packaging sets; documents and tests are
  quoted where they state what the code should do.
