# A TLA+ verification project for CDTAPI

CDTAPI is a C11 library for DekTec's SDI, ASI and ST 2110 cards. Programs attach to a
device, open an input or an output channel on one of its ports, and read or write frames
and transport streams through a buffer that the card fills or empties by DMA. On top of
the channels lie FIFOs of frames, NMOS-controlled FIFOs, and a client of DekTec's service.

This directory holds TLA+ models of the parts of the library where order and concurrency
decide whether it is right, the TLC configurations that check them, and proofs for TLAPS.
`PROJECT.json` lists, machine-readably, the components, the runs, the lines every
definition models, the hazards and the theorems.

1. [Inventory](#1-inventory)
2. [Conventions and runs](#2-conventions-and-runs)
3. [The worker pool](#3-the-worker-pool)
4. [The input channel](#4-the-input-channel)
5. [The SDI transmitter](#5-the-sdi-transmitter)
6. [The SDI receiver](#6-the-sdi-receiver)
7. [The ASI encoder](#7-the-asi-encoder)
8. [The ASI transmitter](#8-the-asi-transmitter)
9. [The ASI receiver](#9-the-asi-receiver)
10. [Receiving ST 2110 video](#10-receiving-st-2110-video)
11. [The transmit FIFO](#11-the-transmit-fifo)
12. [Where the code and what is said of it differ](#12-where-the-code-and-what-is-said-of-it-differ)
13. [What is proved](#13-what-is-proved)
14. [What is not modelled](#14-what-is-not-modelled)
15. [Plan](#15-plan)

## 1. Inventory

| Component | State | Operations | What is hard | What must hold |
|---|---|---|---|---|
| Worker pool, job runner (`Core/DtWorkerPool.c`) | reference counts, set-up, queue of jobs, joined threads, threads with a `Go` event, a runner per channel | set up (three ways), give, size, run, join, dismiss, free | jobs lie on their caller's stack; wake-ups; the last thread to leave; the last reference stops the threads | a job outlives its pieces; every piece runs once and the call returns; references are the holders; a sized pool stays as it is |
| Input channel (`Channel/DtInpChannel.c`) | `Attached`, `WaitingDetaches`, `Reading`, pool, side | attach, detach, free, read, lend, control, configure | reads wait without the lock; several detaches; crossing SDI/ASI | a channel is not detached or freed under a read; a lent frame stays; a detached channel holds nothing; free returns |
| Output channel (`Channel/DtOutpChannel.c`) | `Attached`, `WaitingDetaches`, `Writing`, pool, side | the same, for writes | the same, and detaches that wait until all is sent | one write at a time; no call loses its side |
| SDI receiver (`Channel/DtSdiRx.c`) | ring of coded frames, read offset, lent frame, level-B pairing | find, deliver, lend, restart | the card overtakes the reader; frames cut short; pairing of fields | frames whole, in order, of the pair they belong to |
| ASI receiver (`Channel/DtAsiRx.c`, `Ts/DtTsTrp.c`) | ring of packets, load, list of what was skipped, rest of a packet | start, stop, clear, scan, search, deliver | scan and delivery decode at different times; packets cut or spoilt; the search | a packet counted is delivered, once and whole; the stream is found again; reads return |
| SDI transmitter (`Channel/DtSdiTx.c`) | DMA buffer, write offset, frame IDs, frame being written, lent frame, keeper thread | hold, send, stop, write, lend, commit, wait until sent | a thread inserts black frames while writes are half-way | frames whole and in sequence; a lent frame keeps its place; stops return |
| ASI transmitter (`Channel/DtAsiTx.c`) | FIFO of bytes, DMA buffer, encoder, converter thread, slave ports | write, hold, send, convert, drain | the thread encodes without the lock; stuffing; loads near a data word | bytes go out once and in order; a drain ends |
| Ring (`Core/DtRing.c`) | offsets, load, room | read, write, overflow | an offset that catches up | never more than its size |
| Device (`Device/DtDevice.c`, `DtFunc.c`) | handle, ports, exclusive access | attach, detach, acquire | failing half-way | nothing is held after a failure |
| Clock, AV input | none | queries | - | - |
| Receive and transmit FIFOs (`AvFifo/`) | pools and queues of frames, pipe to a driver, share of a port | attach, start, stop, clear, get, write, read, return | one thread per FIFO; frames out at a stop; a buffer written round its end | a frame is in one place; no word is overwritten; stops return |
| ST 2110 assembly (`AvFifo/DtSt2110*.c`) | the frame being assembled, what is learned of the stream, last sequence number | packet in, frame out | lost, late and repeated packets; a stream that changes | a frame is whole or dropped; frames come again |
| Service client, PTP slave (`Service/`) | connection, requests, shared status | request, reply, reconnect | replies late or lost | a reply is for its request |
| NMOS FIFOs (`Nmos/`) | staged and active parameters, FIFO | activate, reconcile | activation while running | the FIFO runs what is active |
| ASI encoder (`Ts/DtAsiEnc.c`) | place in a packet, K28 sent, rate's accumulator, the clock of time stamps | set mode, set rate, start, encode | input and room end anywhere; times wrap | cuts do not show; packets whole, at their rate or time |
| SDI coding, pixel conversion, video tables | none, or one frame | encode, decode | widths, boundaries | the inverse of each other |
| OS layer, driver commands | handles | thin calls | - | - |

How they interact: a channel holds one *side* (`DtRx` or `DtTx`, a table of functions)
and calls it with the channel's lock taken; a side that waits releases that lock and
takes it again, reading `WaitingDetaches` through a pointer. Sides divide their work over
the pool through a job runner. A FIFO owns its channel or pipe; an NMOS FIFO owns FIFOs.

The behaviours that are hard to test are listed, at their lines, under `hazards` in
`PROJECT.json`, each with the properties that would catch it or the reason none does.

## 2. Conventions and runs

* A step is a section of code under a lock, an atomic operation, or a wait. What happens
  between two of them, on one thread, is not split.
* A call that changes nothing (a refusal, a query) is no step.
* `pc` says where a thread is in the code; its values are records whose field `at`,
  `step` or the like names the place, with the locals that survive it.
* A definition whose comment begins "Mutant of" is not part of a specification. It is a
  change of the definition named that a mistake in the code would make; the property
  listed with it in `PROJECT.json` fails under it.
* `MC*.tla` give constants their sets; a `.cfg` is one run. `*_proofs.tla` hold proofs.

| Run | cfg | Bounds | Expected |
|---|---|---|---|
| pool_joined | `WorkerPoolJoined.cfg` | 2 runners, 2 joining threads, 2 pieces | pass |
| pool_live | `WorkerPoolLive.cfg` | 1 runner, 1 joining thread, 2 own threads | pass |
| inp_channel | `InpChannel.cfg` | 4 threads, 2 tries, ring of 2 | pass |
| inp_cross_fails | `InpChannelCrossFails.cfg` | `CrossFailsInRead = TRUE` | violation |
| sdi_tx | `SdiTx.cfg` | 2 threads, 2 frames of 2 lines, 6 IDs | pass |
| sdi_tx_padding | `SdiTxShortPadding.cfg` | `Liberties = {"short"}` | violation |
| sdi_rx | `SdiRx.cfg` | ring of 8, frames of 3, 6 IDs, 2 standards | pass |
| asi_enc | `AsiEnc.cfg` | streams of 8 bytes, packets of 2 and 3, 15 modes | pass |
| asi_tx | `AsiTx.cfg` | buffer of 8, FIFO of 10, burst FIFO of 4, packets of 2 | pass |
| asi_rx | `AsiRx.cfg` | ring of 18, packets of 3, FIFO of 5, 2 modes, 2 faults | pass |
| av_rx | `AvRx.cfg` | 2 formats, queue of 1, 2 faults | pass |
| av_tx | `AvTx.cfg` | 3 frames, queue of 1, buffer of 6 | pass |

Each run takes under three minutes with two workers. The larger ones have about a million
states.

## 3. The worker pool

`WorkerPool.tla` models all of `DtWorkerPool.c`: the atomic counters `NumRefs` and
`NumRunnersSized`; `StartThreads`, `SetDispatch`, `ExpectThreads` (each is `IsInUse`, then
`StopThreads`, then `Apply`, then for own threads one `StartThread` at a time); joining
and dismissing; the queue; and of every runner `DtJobRunner_SetPool` and
`DtJobRunner_Run` in its four ways: in the caller, piece after piece; dispatched; queued
for own threads; queued for joined threads. A thread takes a piece under the lock
(`TakePiece`), runs it (`RunFunc`), counts it (`CountPiece`) and, when it was the last,
sets the caller's event (`SetDone`); those are separate steps because the job is a local
of the caller, who may return as soon as the event is set. Events are auto-reset: `go`
and `done` are sets of the events that are set. `ran` is history: the pieces whose
function has returned.

`Piecework.tla` says what a job runner promises: a call hands out pieces, each is run
once, and the call returns when, and only when, none is left. `WorkerPool` implements it
(`RunsEveryPieceOnce`), liveness included.

* `pool_joined` checks, with two channels and two joining threads, that a job outlives
  its pieces (`JobOutlivesItsPieces`), that no job is queued when its last thread has
  left (`QueuedJobHasAThread`), and that the reference count is the number of holders
  (`RefsCountHolders`).
* `pool_live` checks, with one channel but every way of setting the pool up, the
  refinement, and that set-up calls return (`SetUpReturns`).

Bounds: two threads and two pieces are the fewest for a job to be shared; two runners
for a queue of two, and for a thread to finish one job while it takes the other's piece.
`MaxThreads = 2` is the least number the library divides for. Liveness is checked with
one joining thread: with two, a program that dismisses and joins for ever can keep both
threads away from a queued job, which is the program's doing.

Fairness: weak fairness of every thread of the pool that has a step to take, of a caller
in `DtJobRunner_Run` and of a set-up call in progress, which is what a scheduler that
runs every ready thread gives; none of the program's own calls.

`SetupsWait = TRUE` says that a program does not give a channel the pool while another
thread sets the pool up. The code does not prevent it: see section 12.

## 4. The input channel

`InpChannel.tla` models `DtInpChannel.c` with what its sides (`DtSdiRx.c`, `DtAsiRx.c`)
do to the channel's state: attach with its failures, detach with its pauses and its
giving up, free, the worker pool, the control state, a new standard on the same side, the
crossing between SDI and ASI with its failure, and reads. `ReadFrame2`, `Read` and
`AcquireFrame` share a loop: look, and deliver, fail or wait. A wait is a wait of the
driver or a pause; the lock is free during it. What a look discards (a frame cut short,
half of a level-B pair) is a smaller `load`: the frames themselves are data.

`ChannelUse.tla` says what a program relies on: a channel that is allocated, attached and
detached, and used by at most one read at a time, is neither detached nor freed while
the read uses it. `InpChannel` implements it (`KeepsItsUse`).

`inp_channel` checks it with one thread more than the code's cases need: a read, two
detaches that wait for it and a fourth that reconfigures. `Tries = 2` (10 in the code) lets a
detach pause again and give up; `MaxLoad = 2` tells a ring that is empty, one that holds
the lent frame, and one that holds more. `FreeReturns` needs weak fairness of waits,
pauses and the end of a free: each wait of the code has a time-out or is woken. A detach
may give up, so only a free is promised to end.

`CrossFailsInRead = FALSE` says that a crossing does not fail while a read waits; the
code allows it, and `inp_cross_fails` shows what follows.

## 5. The SDI transmitter

`SdiTx.tla` models `DtSdiTx.c` and what `DtOutpChannel.c` puts around it: the admission
of calls, the one write at a time, and detach and free.

State: `tx` is the side: the control state, the write stage, the frame being written,
the lending run, the write offset and next frame ID, and what the last format event said.
`tx.ring` is the DMA buffer as `Frames` places; a place holds a frame ID, the lines of
one frame that lie there in order, and for level B the field. Lines that do not belong
with those before them count as none, so a torn frame is not whole. `tx.load` and
`tx.card` are the frames in the buffer and behind it, in the card. `keeper` is
`Sdi->KeeperThread`, `running` the threads that have not returned: they differ between
`StopSignalKeeper` and the join.

| Action | Code |
|---|---|
| `KeeperLooks` | one round of `SignalKeeperThread`: note the event or the time-out, perhaps `InsertBlack` |
| `Hold`, `HoldToSend`, `Stop`, `JoinEnds` | `ChangeTxControl`, split where `StopSignalKeeper` joins without the lock |
| `Write`, `WriteFrame`, `NextLine`, `FindRoom`, `WaitFails` | `Write`, `WriteOneFrame` and `WriteLevelB`, split where `WaitForRoom` waits and after every line or batch of lines |
| `AcquireFrame`, `Build`, `CommitLentFrame` | `LendFrame` and `CommitLentFrame`, and the program that builds the frame |
| `Detach`, `GiveUpDetach`, `PauseEnds`, `DrainLooks`, `DrainGivesUp` | `Detach` with its pauses, and `WaitUntilSent` |
| `ApplyIoConfig` | `ConfigureChannel`: a new standard, while idle |
| `CardTakes`, `CardSends` | external: the card's DMA and formatter |

The run `sdi_tx` checks:

* `CommittedFramesAreWhole`: whatever the write was doing when the thread put a black
  frame in, every frame the card may take has all its lines and the ID of its turn;
* `WorkKeepsItsPlace` (`PartHasItsRoom`, `LentFrameKeepsItsPlace`): the frame being
  written, or lent, lies at the write offset with the next ID, with room for all of it,
  and they exclude each other; in a lending run only the program's frame moves the offset
  (`OnlyTheLentFrameGoes`);
* `CallsKeepApart` (`OneKeeper`, `CallFindsItsSide`, `OneWrite`): one thread, one write,
  and no call that released the lock finds its side gone;
* `UnsentIsNoLess`: the count of unsent frames, derived from 16-bit IDs and the last
  event, is never below the truth, or black frames would go between the program's and a
  detach would cut the end off;
* `CallsReturn` (`JoinReturns`, `FreeReturns`): a stop gets its thread back; a free gets its write back.

Bounds. `Frames = 2` is `DT_SDITX_BUF_MIN_FRAMES`, the least a channel works with, and
where `InsertBlack` must choose between moving a part and forgetting it. `Lines = 2`
tells a frame not begun, part written, and complete but for its padding. `CardFrames = 1`
lets a frame be in the card and not go out; a frame may also go out while it is still in
the buffer. `Ids = 6` is the least even number the assumption allows, so IDs wrap within
every trace of interest. At most one frame that went out is not yet known from an event:
more would only raise the count of unsent frames. Two threads give a write and a stop, or
a write and a free; two keepers, a new thread while the old has not returned. The pauses
of a detach are not counted: it may give up after any of them.

Fairness: weak fairness of the keeper's rounds (its wait has a time-out) and of a call in
progress; none of the program's calls, and none of the card, so nothing rests on room
ever coming.

`Liberties` names what the run leaves out, because the code does not stand it; each
property below then fails, and TLC shows how:

| Liberty | What it allows | Fails | Run |
|---|---|---|---|
| `"short"` | the bytes of a `Write` end in the padding of a frame | `PaddingIsTaken` | sdi_tx_padding |
| `"overlap"` | a stop or detach starts while another has not returned | `CallFindsItsSide` | set it in `SdiTx.cfg` |
| `"restart"` | idle and hold again while an `AcquireFrame` waits | `LentFrameKeepsItsPlace` | set it in `SdiTx.cfg` |
| `"refusal"` | the driver refuses the offset of a black frame put before a part | `CommittedFramesAreWhole` | set it in `SdiTx.cfg` |

## 6. The SDI receiver

`SdiRx.tla` models `DtSdiRx.c` over `DtRing.c`, and the card with its driver as
`OAL/Sim/SimChSdiRx.c`, the emulator of the tests, has them.

State: `card` is the card and its driver: the write offset, the read offset it knows,
the quarter of the frame it is in. `ring` holds what the units of the ring are: a header,
a unit of a line of a frame, or something spoilt. `rx` is the side: its offsets, whether
it is in sync, the frame ID it expects, the latched overflow, a lent frame and the
field 1 held. `out` and `hist` are history: what the last step read, and which frames were
lost since the one before.

| Action | Code |
|---|---|
| `CardEvent(fault)` | external, `NextEvent` with `StartFrame` and `WriteLines`: a quarter of a frame is written, cut short when there is no room, its header spoilt or its frame skipped |
| `LookToCopy` | `FindFrame` (with `NoteLostFrames`, `FindHeader`, `SyncWriteOffset`) and the first half of `ReadOne` |
| `FinishCopy`, `FinishPicture` | the second half of `ReadOne`; `FinishFrame`; `DeliverLevelB` |
| `LendFrame`, `ReturnFrame` | lending a frame in place |
| `WaitTimesOut`, `AfterWait` | `Wait` and `AfterWait`; an event out of sync discards all |
| `Stop`, `Start`, `ClearFifo`, `GetFifoLoad`, `ApplyIoConfig` | the control calls |

`sdi_rx` checks:

* `RingIsShared`: what a read delivers and what is lent is in one piece, whatever the card
  wrote meanwhile (`FramesAreInOnePiece`), and the card keeps the room of all that was
  read (`CardHasRoom`). The latter is delicate: the driver passes over a reader whose
  offset is the write offset, so the channel tells it one unit back (`Told`);
* `FieldsFollow`: field 2 of a level-B frame comes right after the field 1 whose arrival
  time is given, and the frame's other picture is that field 1's. There is one exception,
  which the model keeps in `stale`: the look for that field 1 let an earlier one go, after
  the second buffer had been chosen for what it would find (`DtSdiRx.c:983`), and the
  earlier picture is paired. A buffer chosen in another way, by the last picture's field
  for one (`BufferForLast`), breaks the property. The exception occurs in this run, so
  `PairIsOneFrame`, which is without it, fails there (section 12);
* `OverflowIsNoted`: frames lost for lack of room between two that are read set the flag,
  unless frames were given up for another reason meanwhile.

Bounds: a ring of 8 units holds two frames of 3 and is full with one unit more. Two
quarters tell a frame cut in its middle from one cut at its end. `Ids = 6` with
`Ahead = 3` lets IDs wrap and keeps old and new ones apart. `Faulty` names the IDs of the
frames that may be spoilt, one of each field. A unit is the alignment of the stream, and
a header has that size.

Abstractions: every picture carries its payload ID; the overflow flag is the latched one
and is cleared after each frame; units given back count as blank; a read after a wait is
one that starts; a failing driver and the query of flags are left out.

Stated, and run nowhere because they do not hold; each is reproduced by adding the
invariant to `SdiRx.cfg` with the constants given:
`OverflowIsFlagged` (`Standards = {"a"}`, `Faults = {"none"}`: frames that an event out of
sync discards leave no expected ID behind), `FramesAreWhole` (`Stride = 2`, `Size = 12`:
of the last line only the start is looked at), `PairIsOneFrame` (section 12). With
`Mixed = TRUE` a program borrows a frame while a read holds a field 1, and `FieldsFollow`
fails.

## 7. The ASI encoder

`AsiEnc.tla` models `DtAsiEnc.c`: packets of 188 and 204 bytes and the conversions
between them (`ADD16`, `MIN16`), raw streams, and the three ways of going out: spread over
the rate (`NormalRound`), in bursts (`BurstRound`) and by the time stamp before each
packet (`OnTimeRound`). The state is the encoder's: where it is in a packet, the K28 sent
before it, the bytes to skip, the accumulator of the rate, the clock. A step gives it a
piece of the stream and room for some symbols; both may end anywhere.

`asi_enc` checks, over every stream of 8 bytes with 3 sync bytes in it, whether or not its
packets are in sync, in 15 modes (five conversions, each spread over the rate, in bursts and
by time stamps), at two rates:

* `CutsDoNotShow`: the symbols are those of one call with all the input and room enough.
  This is the reference definition against which the resumable encoder is checked;
* `PacketsComeOutWhole`: they carry the packets, with the zeros `ADD16` adds and without
  the bytes `MIN16` drops;
* `PacketsGoOutInTime`: packet *k* starts when *k* packets' time has passed, to within a
  symbol, or at its time stamp, wrapped or not.

Bounds: packets of 2 and 3 stand for 188 and 204; the line carries 13 symbols an interval
and the rates are 2 and 5 packets, one with room for K28 before each packet and one
without (then the rate is the line's, and `RateIsKept` says nothing). Pieces of 1 and 3
bytes and room for 1 or 40 symbols cut between any two steps. The codes of the bytes and
the synchronisation flag are left out. The run may stop, when the stream is used up:
`CHECK_DEADLOCK FALSE`.

## 8. The ASI transmitter

`AsiTx.tla` models `DtAsiTx.c` between `DtOutpChannel_Write` and the card: the FIFO of
bytes, the DMA buffer of symbols, the converter thread (`Convert`: `EncodeFifo`, then
`Stuff`), a write in blocks, the control states with the join of the thread, the detach
with its pauses and its wait until all is sent. The program's bytes are numbered, so a
byte lost, repeated or out of turn shows. `Refill` is the card's DMA, which takes whole
data words as soon as its burst FIFO has room; it is part of every step that commits
symbols or makes room. The encoder takes one step at a time (`EncodeOn`, a function of what
the call has left and has put out), as many as the call has bytes and room for; a write goes
on block by block in the same way (`WriteBlock`). Neither is recursive, so that theorems can
be stated about them.

`asi_tx` checks:

* `BytesOnTheirWay`: what the buffer and the FIFO hold is exactly what the program wrote
  and the card has not taken, in order. It rests on the word kept free (`MaxLoad`), on the
  load held against what was committed after a restart, and on the encoder's rest;
* `NullsBetweenPackets`: stuffing puts whole null packets between the program's packets,
  though it runs while a write waits with a packet half written;
* `DrainLeavesAWord`: what a detach that waited leaves in the FIFO and the buffer is less
  than two data words. It says nothing of the burst FIFO, which may be full: it is waited
  for once and the converter refills it after. That it holds a word or less is true only of
  a card whose burst FIFO is a single word;
* `WritesAndStopsReturn`.

Bounds: a buffer of four data words; a burst FIFO of two; a FIFO that takes a block and,
with the buffer, more than the target of stuffing (`AsiTxAssumption` has the inequalities
the code relies on; the constants of the source meet them, with a burst FIFO of at least a
packet); `Numbers = 6` divides neither the buffer nor the FIFO, so that a lap more or less
shows.
Fairness: the thread wakes at least every `DT_ASITX_CONVERT_PERIOD_MS`, a waiting write
polls every `DT_ASITX_WRITE_POLL_MS`, the card sends while it is told to.

Left out: rates and the time-stamped and size-changing modes (they are `AsiEnc`'s), flags,
polarity, slave ports, changes of the I/O configuration, failures of the driver but that
of a start. One control call or detach is in progress at a time, and the program starts
anew when its write has returned.

| Liberty | What it allows | Fails |
|---|---|---|
| `"parts"` | a write ends within a packet | `NullsBetweenPackets`; `BytesOnTheirWay`, because the rest of a packet that a null packet has completed is dropped up to a sync byte |
| `"stale"` | after bytes were committed the card still reports an offset of an earlier run | `BytesOnTheirWay`, `NullsBetweenPackets` |
| `"late"` | the card and the thread go on while a waiting write has room | `NullsBetweenPackets`, `BytesOnTheirWay` |

## 9. The ASI receiver

`AsiRx.tla` models `DtAsiRx.c` with the packets of `DtTsTrp.c`, the ring of `DtRing.c`, the
loop of `DtInpChannel_Read`, and the card as `SimAsi.c` and `SimSdiTx.c` have it: it writes
packets as far as there is room, and may write one without a sync nibble, with a valid
count that the mode refuses, after a skipped sequence number, or without packet sync.

State: `ring` holds units, of which a packet has `Packet`: its payload and its trailer.
`asi` is the side: its read offset, how far it has scanned, whether it is in sync, the
load, the list of what was skipped and the rest of a packet that a read's end cut. `read`
is the read in progress. `fifo` and `taken` are history: what reads would get of what was
scanned, computed by the code's own `DeliverBytes`, and what the last step got.

| Action | Code |
|---|---|
| `ReadStarts`, `ReadLooks`, `ReadEnds` | `DtInpChannel_Read`: a block at a time without a time-out, all at once with one; `ScanBuffer`, then `DeliverBytes`, or a wait; the end of the time or a detach |
| `GetFifoLoad` | `GetFifoLoad`, `GetFlags`, which scan as well |
| `Start`, `Stop`, `SetRxMode` | `Start` and `Stop`, each with `ResetScan`; `ClearFifo` is the latter's reset; the mode is set while idle |
| `ReceiveGood`, `ReceiveFaulty` | external, `ReceivePacket` of the emulator |

`PacketFifo.tla` says what a program is promised: what packets hold goes into a FIFO whole
and in order, a read takes the oldest bytes, once, and the FIFO has a limit.

`asi_rx` checks:

* `ReadsGetWhatIsCounted`: `AsiRx` implements `PacketFifo`. The scan counts packets and a
  read decodes them again later, so the skipped pieces, the rest of a packet, the offset
  that is released and the load have to agree through every wrap; `DTAPI_E_INTERNAL`, the
  code's answer when they do not, appears in `taken` as a byte of no packet;
* `FoundAgain`: no search passes over a packet that comes after so many good ones that it
  is certain to be the stream's, whatever was spoilt or cut before;
* `ReadsReturn`: a read that waits gets its bytes, or the channel is stopped, or the read is
  `Stuck`: a scan leaves the ring without room for a packet, behind bytes that the read does
  not take because it waits for more. What was dropped or passed over is released only at a
  load of 0 (`DtAsiRx.c:243`), so this does happen; nothing else keeps a read.

Bounds: two packets in a row are a stream (three in the code), so that a search fails, ends
at a window's edge and succeeds in a small ring. `Search` is one unit more than two
packets, so what is passed over comes in several pieces. `FifoSize` is odd and packets
deliver 2 units, so packets are dropped with room left; reads of 3 and 5, in blocks of 2, end
within a packet. `Size` and `FifoSize` are small enough for both ways to be `Stuck`: a read
of 5 waits for a load that packets do not divide, and a faulty packet with a new search
keeps the ring from holding what a read of 3 asks. So `ReadsAlwaysReturn`, without the
exception, fails there, which section 12 has as two differences. The sequence numbers go
round with the ring. One packet at a time is faulty; `Modes` has one mode that refuses a
valid count and one that does not. With the fault `"nibble"` added TLC passes too, in about
four minutes.

Fairness: the line carries good packets, without which no read need return, and a read
that waits polls every `DT_ASIRX_READ_POLL_MS`.

Abstractions: payload never looks like a trailer; the flags, time stamps, failures of the
driver, and the status, rate and polarity calls are left out. The sequence number a card
starts with does not matter, and starts at 0.

## 10. Receiving ST 2110 video

`St2110.tla` is the sender's cutting of a frame in packets (`DtSt2110VideoTx_Packetize`):
the rows and parts of rows under up to three row headers, with the marker on the last
packet. `AvRx.tla` is the receiver, of any streams of packets in which a frame starts after
each marker (`Streams`, `IsStream`): the parser of `DtSt2110Video.c` (`Parse`, with
`CountFrameSize`, `Learn`, `DeliverFrame`, `SkipFrame`), the pool and queue of
`DtAvFrame.c` and the calls of `DtAvRxFifo.c`. Between the two is a network:
`Receive`, `Lose`, `Spoil`, `ReceiveTwice`, `HoldBack` and `ReceiveLate`; the sender may
`Change` its format, and memory may fail (`ReceiveWithoutMemory`). The parser knows
nothing of the format: it learns the size of a frame and the number of its rows from the
row headers of two frames. `MCAvRx` has the receiver take what the sender cuts, and
`StreamsAreCut` checks for formats of up to five rows, rows of up to four and payloads of up
to nine bytes that this is such a stream.

`av_rx` checks:

* `TypeOK`, of which the part that is more than types: no frame gets more data than it has
  room for, though frames allocated for another format are used again;
* `FramesHaveOnePlace`: each frame of the pool is free, received, lent or being filled;
* `FramesAreWhole`: a frame that is delivered is all the packets of one frame or field
  sent, once each and in order, and labelled with their field;
* `FramesComeAgain`: within `Quiet` packets that come undisturbed, a frame ends. What was
  learned of a disturbed stream does not keep the parser from receiving for ever.

Bounds: a progressive format whose middle packet has parts of two rows, and an interlaced
one with fields of two rows and of one. Sequence numbers are packet numbers and start
again after two frames or fields, twice what the parser remembers. Two faults: one while
a size is learned, one after. `Quiet = 12` is the least for which it holds: three frames
or fields of the longer format, and the packets of the one that was disturbed.
`MaxSize = 1` makes the queue overflow; a pool of three has a frame in each place.

Abstractions: a malformed packet is one lost; the pipe's buffer and its reader
(`DtAvReader`) are left out, an overrun of theirs is a loss; conversions of pixels, 4:2:0,
statistics and times are left out; the contents of a frame are forgotten once it is read.

Seen while modelling, and not stated as a property: when the packet with the start of the
last row is lost while the size is learned, the size of a row can be taken too large; a
lost packet with the marker costs the frame after it too.

## 11. The transmit FIFO

`AvTx.tla` models `DtAvTxFifo.c`, the writer of `DtAvPipe.c`, and the pool and queue of
`DtAvFrame.c`. Offsets count data words. `ring` is the buffer of the pipe, `offset`,
`known` and `read` the writer's offset, the one the driver was told and the card's;
`hand` is the frame the thread has taken, `left` its words still to be written. `way` is
history: the words written that the card has not taken.

| Action | Code |
|---|---|
| `Pop`, `FindRoom`, `Poll`, `GiveUp`, `Exit` | `AvTxThread`: a frame, the wait for its room, a frame that cannot be sent |
| `SendPacket`, `EndFrame` | `WriterBegin` and `WriterCommit`, with a flush every `FlushEvery` packets; the last flush and the return of the frame |
| `Start`, `StartFails`, `Stop`, `JoinEnds` | `StartTransmitting`, `StopTransmitting`, the latter split where it joins the thread |
| `Attach`, `Clear`, `GetFromMemPool`, `Write` | the calls of their names; a detach is `Stop("detach")` |
| `CardTakes` | external: the pipe's DMA takes the next word up to the offset it was told |

`av_tx` checks:

* `FramesHaveOnePlace`: every frame of the pool is free, the program's, queued, or with
  the thread, and in one of them only. The thread returns frames without the lock that
  the calls hold, so it rests on the join;
* `WordsAreKept`: the words written and not taken lie in the buffer, in order, from the
  card's offset to the writer's, whether a packet was written in place or copied round the
  end, and whatever offsets the driver refused;
* `StopsReturn`: a stop or a detach ends, although the thread may be waiting for room that
  a card that stands still never makes;
* `FramesGoBack`: while the card takes words, every frame written leaves the FIFO, unless
  it is `Stranded`: the driver refused the last offset, the card has taken the words it
  knows of, and the thread waits for the room of the others.

Bounds: packets of 1 or 2 words; a frame that needs more room than it has words (a video
frame reserves room for the headers of the longest packets), one that needs what it has,
and one the buffer cannot hold; a buffer of 6 words, with which offsets meet in every way;
one refused offset in a row. The buffer has no room for two frames, so a frame may be
`Stranded`: when the driver refuses all offsets of a frame, its words stay in the buffer
unknown to the card; nothing tells it again before the next flush, and the next frame, which
waits for that room, never gets to one (`DtAvPipe.c:199` resets `UnflushedPackets` before it
tells the driver). `FramesAlwaysGoBack`, without the exception, fails when it is added to
`AvTx.cfg`, and holds with `Size = 7`, room for two frames and a word. The buffers of `SharedBufferSize` have room
for two frames without their headers at 25 frames a second or less.

Fairness: weak fairness of the thread, whose waits have time-outs of 1 ms and
`TX_WAKE_TIMEOUT_MS`, and of the end of a join; of the card only under `FramesGoBack`.

Abstractions: the event that cuts a wait short; statistics; configuration and IP
parameters; the sharing of a port. A program writes frames it holds. A packetizer does not
fail, because `Write` has checked the frame's size under the lock.

## 12. Where the code and what is said of it differ

Runs that end in a violation, each with its finding in `PROJECT.json`:

* `inp_cross_fails`: a change between SDI and ASI that fails leaves a waiting read
  without channel and side.
* `sdi_tx_padding`: "The bytes need not be whole frames", but bytes that end inside the
  padding after the last line make `Write` loop for ever with the lock held. A raw frame
  with 10-bit symbols is padded to 8 bytes; writing line by line gets there.

Differences for which there is no run, to keep their number small. The module has the
property; TLC shows it violated when it is checked as said:

| Property | Said | Done | To see it |
|---|---|---|---|
| `DismissedThreadLeaves` (WorkerPool) | cdtapi.h:596: a dismissed thread's `Join` returns after its current piece | the last joined thread leaves only when it finds the queue empty | `PROPERTY` in `WorkerPoolLive.cfg`, `Setups <- JoinSetups` |
| `StopThreadsFindsPoolIdle` (WorkerPool) | DtWorkerPool.c:160: "Called with no job running" | a channel can give its runner the pool between `IsInUse` and `StopThreads` | `INVARIANT`, `SetupsWait = FALSE`, `Workers <- NoWorkers`, `Setups <- OwnSetups` |
| `CallFindsItsSide` (SdiTx) | cdtapi.h:1152: a detach returns `DTAPI_E_NOT_ATTACHED` if another detached meanwhile | while the first joins the thread or waits until all is sent, a second frees the side under it | `Liberties = {"overlap"}` in `SdiTx.cfg` |
| `PicturesInTheirFields` (SdiTx) | cdtapi.h:1360: each picture goes out in its own field | a black frame put before a picture that is being written shifts it to the other field | `INVARIANT` in `SdiTx.cfg` |
| `PairIsOneFrame` (SdiRx) | cdtapi.h:893: a frame of level B is a field 1 and the field 2 after it | the buffer of the next picture is chosen before a call that may let a held field 1 go; the old one is paired | `INVARIANT` in `SdiRx.cfg` |
| `DrainedIsSent` (AsiTx) | cdtapi.h:1143: a detach first waits until the card has sent it | a load of at most a data word ends the wait, and the load leaves out a word not filled | `INVARIANT` in `AsiTx.cfg` |
| `ZerosMakePackets` (AsiEnc) | DtAsiEnc.h:58: zeros follow up to `OutSize`, the bytes per packet; cdtapi.h:1292: the mode may be set at any time | after a change from 204 to 188 bytes within the last bytes of a packet the burst encoder writes zeros as far as there is room: `OutSize - ByteIndex` is negative and counted without a sign (DtAsiEnc.c:434) | `INVARIANT` in `AsiEnc.cfg`, `AnyTime = TRUE`, `Streams <- MCFewStreams`, `Pieces = {1, 3, 8}`, `Rooms = {1, 2, 40}` |
| `ReadsAlwaysReturn` (AsiRx) | cdtapi.h:873: a time-out of -1 waits without a limit until all bytes are there, and up to the FIFO's 8 MB may be asked for | a packet that would take the load over 8 MB is dropped (DtAsiRx.c:215), so a load that packets do not divide is never reached | `PROPERTY` in `AsiRx.cfg`, `Reads = {5}`, `Faults = {}`, `Modes = {"ts"}` |
| `ReadsAlwaysReturn` (AsiRx) | DtAsiRx.c:181: what was scanned is released, "so that a stream the application does not want does not fill the buffer" | only while the load is 0. Behind bytes not yet read, what the search passes over stays: 16 MB of a line without whole packets fill the ring, and a read that waits for more than is there never gets it, even when the stream is back | `PROPERTY` in `AsiRx.cfg`, `Reads = {3}` |
| `LinesAreCounted` (AvRx) | cdtapi_avfifo.h:266: `NumRows` is "Lines in the frame" | after a change to a smaller progressive format frames keep the rows of the larger | `INVARIANT` in `AvRx.cfg`, `Streams <- MCSmaller` |

## 13. What is proved

TLAPS checks every theorem for any values of the constants that meet the assumptions of the
modules (`PoolAssumption`, `InpAssumption`, `SdiTxAssumption`, `SdiRxAssumption`,
`AvRxAssumption`, `AvTxAssumption`, `AsiTxAssumption`, `AsiRxAssumption`), which TLC also evaluates.
They give sizes and bounds their ranges; `AvRxAssumption` also says of the sender that its markers end frames (`IsStream`), and
`AsiTxAssumption` how the target of stuffing, the FIFO, the burst FIFO and the buffer compare, and
`AsiRxAssumption` that a search sees as many packets as make a stream. Where
a theorem assumes more, of the program or of the driver, it says so:

| Assumption | Theorems | What it excludes |
|---|---|---|
| `SetupsWait` | `QueuedJobIsServed`, `StopThreadsFindsPoolIdleHolds` | channels and threads that join while a set-up call runs (section 3) |
| `~CrossFailsInRead` | `WaitingReadKeepsChannel`, `ImplementsChannelUse` | the crossing that fails under a read, which section 12 reports |
| `CallsInTurn` | the five of `SdiTx_proofs` | two calls that change the control state at once; an `AcquireFrame` that waits across a stop and a restart (section 5) |
| `BlackIsAccepted` | `CommittedFramesAreWholeHolds`, `WorkKeepsItsPlaceHolds` | a driver that refuses the offset of a black frame (section 5) |
| `Liberties = {}` | the four of `AsiTx_proofs` | a write that ends within a packet; a card that still reports an offset of an earlier run after bytes were committed; a card and a converter that go on while a waiting write has room (section 8) |
| `~Mixed` | `FieldsFollowHolds` | a program that borrows a frame while a read holds a field 1 (section 6) |

The runs that check these properties make the same choices; none of the assumptions is
about the size of anything.

`WorkerPool_proofs`: `TypeCorrect`, type correctness of the specification. Each conjunct
of `TypeOK` (`PoolTypes`, `ThreadTypes`, `RunnerTypes`) is inductive with the others;
the one that is more than a type is that a thread that runs, counts or reports a piece
has a runner, which `WaitGo` and `TakePiece` must keep.

`PoolInv`, in the same module, ties the counters to those they count. `CountInv`: the
references are as many as the holders, the sized runners as many as are sized (sets are
finite, so each step adds or takes one). `JobInv`, for each runner: while its caller is in
`RunQueued`, what has been taken is what has been counted and what is in a thread's hands,
the job is queued exactly while pieces are left, and only the last count sets the event,
once; while it is not, there is no trace of the job. `StopInv`: own threads that run are
started ones, and `StopThreads` has not reached them. `UseInv` and `HaltInv`: who has joined
and who is pooled, and that threads are halted only by a set-up call or with no holder left;
without them `StopThreads` could end under a job. From it follow `RefsCountHoldersHolds` and
`JobOutlives` (no job is left by its caller while a piece of it is queued, run or counted),
whatever is called and whenever, and, with `QuietInv`, the two theorems that need
`SetupsWait`. With `DirectInv`, for the pieces a caller runs itself, `PieceRunsOnce`
(no piece has two threads, none runs again) and `RunsEveryPieceSafely`: the initial state
and every step are `Piecework`'s or a stutter. That a job ends is a liveness property.

`InpChannel_proofs`: `Inv` is the conjunction of the type invariant, `OneReader`,
`LentFrameStays` and `DetachedHoldsNothing`. None of them is inductive alone: that a lent
frame stays needs that no read waits beside it, which needs that `Reading` is true exactly
while one does (a detach that found `Reading` false would otherwise let go under a read).
There is one lemma per action, over lemmas for what several actions share (letting go,
keeping, moving one thread). From `Inv` follow `TypeCorrect`, `AtMostOneReader`,
`LentFrameIsSafe` and `DetachLeavesNothing`, for a crossing that may fail too.
`DetachesAreCounted` counts the detaches and `Free`s that wait: a step moves one thread in
or out of that set. `WaitingReadKeepsChannel` needs, besides, that only a channel that is
not attached is freed at once; `ImplementsChannelUse` maps the initial state and every step
to `ChannelUse`'s or to a stutter, using `Inv` to show that detaching and freeing find no
reader.

`SdiTx_proofs`: `Inv` is `TypeInv`, `SideInv` and three parts about the calls. `TurnInv`: one
call changes the control state, it finds the channel attached, and it is the one waiting
detach if it detaches. `KeeperInv`: one thread keeps the signal, and the call that joins it
has asked it to go. `WriteInv`: `writing` is true exactly while one thread waits in a write,
over a side that lends nothing, and what that thread remembers of the side still holds.
`SideInv` is about the ring: `RoomInv`, that a part or a lent frame has a place the card may
not take, that frames rest in the card until they are sent, and that what is unsent is at
least what the card has; `PlaceInv`, that the part and the lent frame lie at the write
offset with the next ID, and that each of the committed frames behind it is whole with the
ID its distance gives it. The ring moves under a part: a black frame is put before it, and the
part moves up a place. The lemmas `BehindIsElsewhere`, `BackFromNext` and those beside them
say where the places go. From `Inv` follow `TypeCorrect`,
`CallsKeepApartHolds`, `UnsentIsNoLessHolds`, `CommittedFramesAreWholeHolds` and
`WorkKeepsItsPlaceHolds`.

`SdiRx_proofs`: `IInv` relates three parties, the card that writes, the ring, and the read
that looks, copies and waits without a lock. `Chained` and `Goes`: each unit between the
card's read and write offsets, and the one it writes next, is joined to the frame begun
before it, or begins one; what the card drops ends before a header. `RunInv`: what the side
may read lies within what the card has written, but for one unit that keeps a full ring from
looking empty. `WhereInv`: while a read copies, or a frame is lent, a frame is at the read
offset. `HeldInv`: a held field 1 was read whole, the expected ID is the one after it, and the picture
kept for it is its own unless it is stale.
`KnownOf`: since the last frame that was read, either all is in order (the card is in step
and the expected ID is the one after it), or the overflow flag or an excuse says it is not.
`TypeCorrect` and `RingIsSharedHolds` (a frame that is delivered or lent is one frame, whole,
whatever the card does meanwhile; the card has the room) and `OverflowIsNotedHolds` hold
unconditionally; `FieldsFollowHolds` (field 2 follows the field 1 whose time is given, and the
other picture is that field 1 but for the exception of section 6) needs `~Mixed`. A scan finds the first unit that is a
header: that a set of numbers has a least member is an induction, which these provers do
first-order, from the well-foundedness of the subset ordering on finite sets (`MinIsLeast`).

`AvTx_proofs`: `Inv` is `TypeOK`, `FramesHaveOnePlace` and `WordsAreKept` with two
parts that make them inductive. `HandInv`: the thread holds a frame while, and only while,
it waits or sends, and there is a thread only while the FIFO is started; without it a
`JoinEnds` could lose a frame. `RoomInv`: the words of the frame in hand that are still to
be written fit in the free room, and the offset the card was told lies between the two
others; without it a packet could overwrite a word, or the card could read past the
writer. The steps that move an offset rest on lemmas about distances on a ring (`Onward`,
`Further` and the like), stated for any size, and on one about the concatenation of
sequences. From `Inv` follow `TypeCorrect`, `FramesAreInOnePlace` and
`NoWordIsOverwritten`, for any number of frames, any size of queue, buffer and packets.

`AvRx_proofs`: `Inv` speaks of the FIFO as the parser is given it, so that the lemmas about
the helpers (`ReturnIs`, `GetIs`, `QueueIs`, `ClearedIs`, `ForgetIs`, `AppendPacketIs` and so
on) compose as the calls of `Parse` do. `Places`: what is free, queued, lent and in hand is all
there is, once each. `ContentInv`: a frame that is free or lent holds nothing, the others have
room for what they hold, and those in the queue are whole. `PartInv`: the bytes counted are
those of the packets in the frame in hand, which follow each other from the first packet of a
frame and have no marker among them, and the frame has room for a frame of the size learned.
`NextInv`: the number expected next goes on with the frame in hand, or starts a frame. It is
why a gap at the edge of a frame may be passed over: without it `FramesAreWhole` is not
inductive. That the pool has a frame left when one is needed (`OneIsLeft`) is a matter of
cardinalities, `MaxSize + Lent + 1` frames against those in use. The bytes of a frame are a sum
over a sequence, a recursive function; that there is one such function is an induction over
0..N, done first-order as `MinIsLeast` above (`Onwards`). From `Inv` follow `TypeCorrect`,
`FramesHaveOnePlaceHolds` and `FramesAreWholeHolds`, for every way to cut a stream, any learned
size, right or wrong, any number of faults, and memory that fails at any time.

`AsiTx_proofs`: `IInv` is `Types`, `Stream` and `Order`. `Stream` says that there are two numbers,
`g` of the byte the card takes next and `t` of the one the program writes next, counted without
end, and `Carries` them: the symbols between the card's offset and the side's are a run of the
program's stream from `g` to some `m` (`Runs`: K28, whole null packets between the program's packets,
and bytes in order), the encoder's index is where that run stops, the FIFO holds the bytes from `m`
to `t`, and the card has not passed what was committed. Without the position in the packet, which
no property mentions, neither order nor null packets are inductive: the encoder drops bytes up to a
sync byte when it is between packets, and loses none because it is between packets only where the
stream is. `Stream` also says that the write in progress ends where a packet does, unless one was
cut off, and how little is left once the drain has seen a low load (`LittleLeft`). `Order`: the thread
runs only in send, and a detach waits or stops only without a write. Three facts carry the argument.
The loads `DmaBufferLoad` and `ReportedFifoLoad` are what the buffer has, or a bound of it, because of
the word kept free and of `committed` (`LoadIs`, `ReportedIs`). An encoder's call ends when the input
or the room does, with what it took in what it put out (`EncodeProgram`, `EncodeNulls`: an induction over the steps of a
function, done first-order). The nulls that `Stuff` makes fit the room, and the converter stuffs while
a write is cut in a packet only when the buffer has the target already, because a FIFO that refused a
block, with the buffer, holds it (`PacketsFit`, `NoRoomIsTarget`). From `IInv` follow `TypeCorrect`,
`BytesOnTheirWayHolds`, `NullsBetweenPacketsHolds` and `DrainLeavesAWordHolds`, for any sizes that
meet the assumption, any packets, any writes, and any order of calls. The first two need
`Liberties = {}`: TLC finds each of them violated with any one liberty. `DrainLeavesAWord` holds with
each of the three in the instance of `AsiTx.cfg`; its theorem assumes none because the invariant does.

`AsiRx_proofs`: `IInv` says, of the ring as it is seen from the read offset, three things.
`Ground`: before each trailer lies its payload, as far as the ring has it, and before a trailer that
the history calls solid, and at the card's end, lie the good packets it counts. `Content`: the
places the scan has stopped at form a path from the read offset to where it is (`Path`). At each
begins a skip of the list, or a packet that delivers what the FIFO has next, and the bytes of the
path, with the rest of a cut packet, are the FIFO, as many as the load. `Fits`: the scan is before the
good packets that a solid trailer ends, or at the start of one of them and in sync; without it
nothing says that a search that goes on by a window less one row, or a loss of sync in the middle of a
packet, passes no solid trailer. Each helper has its lemma: a skip lengthens the path or
its last step (`SkipKeeps`), a packet adds its bytes (`PacketKeeps`), a search fits (`SearchKeeps`), the
ring may be seen from further on (`GroundShift`, `FitsShift`, `RestContent`). The rounds of `ScanBuffer` and
`DeliverBytes` are inductions over the steps of a function, done first-order (`WalkKeeps`,
`DeliveryEnds`); the latter takes the path of the scan again, and ends because each round goes on in
the ring or empties what is pending. From `IInv` follow `FoundAgainHolds` and
`ReadsGetWhatIsCountedHolds` (the initial state and every step are `PacketFifo`'s), for any sizes of ring,
packet, FIFO, search and block, any faults, any number in a row that makes a stream, and any order of
calls: whether the ring has room for what `ReadsReturn` waits for plays no part here. `IInv` asserts a path, which TLC would
have to guess, so no run has it; the runs check what follows from it.

Left to TLC: every liveness property (the provers here have no rule for fairness or
`ENABLED`), and `FramesComeAgain`, a bound that holds of the streams of a configuration only;
that the packetizer of `St2110`, a recursive operator, cuts streams (`StreamsAreCut`); and
`AsiEnc`, whose encoder is a set of recursive operators.

## 14. What is not modelled

Of the modelled components: flags and status calls, receive and transmit modes, time
stamps and the frame-time grid, FIFO sizes, the polling of PHY and burst FIFO; the coding
of lines and frames. Of the output channel: attaching step by step, the worker pool, the
crossing between SDI and ASI (section 15). Of the FIFOs: configuration, the reader of a
pipe, the sharing of a port, audio and raw streams. Except for the SDI and ASI receivers, whose
cards are the emulator's, the driver and the card appear only as what they may do.

Not modelled at all, and why: driver commands, the OS layer and the network lookups are
I/O without state of their own; the pixel and symbol conversions have no state and are
compared with references by the unit tests; the rest of the simulated card is part of the
tests. `DtAbi` headers and tables are declarations. `PROJECT.json` has the full list.

## 15. Plan

1. Done: the worker pool, the input channel, the SDI transmitter and receiver, the ASI
   encoder, transmitter and receiver, the transmit FIFO, receiving ST 2110 video.
2. Theorems: done for the pool, the input channel, the SDI and ASI transmitters and
   receivers and the two FIFOs. What is left is the ASI encoder, as recursive functions.
3. `OutpChannel`: attaching, freeing, the crossing under a waiting write and the pool,
   as `InpChannel` has them, against `ChannelUse`; a detach that waits leaves nothing
   unsent, with the wrap of the frame ID to 0.
4. Audio and raw streams over the same FIFOs; the reader of a pipe; the sharing of a port.
5. `Device`, `NmosAvFifo`, if they show more than their code does.
