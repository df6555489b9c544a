# SwanStation in TLA+

A verification project for SwanStation, the libretro core that emulates a
PlayStation (`src/core`, `src/common`, `src/libretro` of the repository; paths
below are relative to that `src`). The parts where two threads, or callbacks
and the code that called them, share state are modelled in TLA+, checked with
TLC on small instances, and their invariants are proved with
TLAPS for every value of the constants, or for every value that meets a named
condition.

Modelled so far: the asynchronous CD-ROM reader and the CD-ROM controller, the
command queue of the GPU back end, the timing events that drive every device,
the DMA controller with the MDEC between two of its channels, and the pad port
with its controllers, memory cards and multitap. The other components are
inventoried below with the order in which they are to follow.

Files: one module per component; `...Inv` holds an inductive invariant,
`...Proof` the theorems, `Remainders` facts on quotients and remainders that
three of the proofs share; `MC_...` with its `.cfg` files are the instances TLC
checks; `PROJECT.json` maps every definition to the lines it models and lists
runs, mutants, findings, hazards and theorems.

## 1. Inventory

The emulated machine runs on one thread, the *emulation thread*: the libretro
front end calls `retro_run`, `System::RunFrame` runs the CPU until the frame
is done, the CPU loop calls `TimingEvents::RunEvents` whenever its pending
ticks reach the downcount, and the callbacks of the events are the devices.
Devices call one another directly (interrupt requests, DMA requests) from
register accesses, from callbacks, and from within each other. Two further
threads exist: the CD-ROM read thread and the GPU thread.

| Component (source) | State | Operations | What makes it correct |
|---|---|---|---|
| Asynchronous CD-ROM reader (`core/cdrom_async_reader.cpp`) | ring of sector buffers, requested position, flags, disc image, read thread | QueueReadSector, WaitForReadToComplete, ReadSectorUncached, SetMedia, RemoveMedia, StartThread, StopThread; the thread's loop | the sector handed over is the one asked for and stays put while it is used; the disc image is not used while it is moved; every call returns |
| GPU backend queue (`core/gpu_backend.cpp`) | byte ring, two pointers, sleeping flag, done flag, sync event | New...Command, PushCommand, Sync, Reset, UpdateSettings, Shutdown; the GPU loop | commands execute once and in order; Sync waits for all; no wakeup is lost |
| Timing events (`core/timing_event.cpp`, CPU loops) | sorted list of active events, per-event downcount and time since last run, CPU pending ticks and downcount | Schedule, SetInterval..., SetPeriod..., Delay, InvokeEarly, Activate, Deactivate, RunEvents | the list is the active events, in order; ticks are neither lost nor counted twice; every event runs |
| DMA controller (`core/dma.cpp`) | seven channels, DPCR, DICR, halt ticks, transfer buffer | register writes, SetRequest, TransferChannel, HaltTransfer, UnhaltTransfer | each block moved once and to its place although transfers nest; a completion interrupt per transfer |
| Interrupt controller (`core/interrupt_controller.cpp`) | status, mask | InterruptRequest, register writes | the CPU's line is up exactly when an unmasked bit is set |
| CD-ROM controller (`core/cdrom.cpp`) | command, second response, drive state, interrupt flags, sector buffers, FIFOs | register accesses, command/second-response/drive events, media changes | the drive never hangs, no command or interrupt is forgotten, a response belongs to its interrupt, sectors come in order |
| Pad port, controllers, memory cards, multitap (`core/pad.cpp`, ...) | transfer state, active device, place in a packet, card contents, save event | register accesses, transfer and acknowledge, card protocol, delayed save | transfers go on until they end, no byte is left, packets do not shift one another, no lost save |
| Timers (`core/timers.cpp`) | counters, modes, gates | AddTicks, SetGate, register accesses | interrupts at target and overflow, at most one in one-shot mode |
| MDEC (`core/mdec.cpp`) | FIFOs, command state, block event | register and DMA accesses, Execute, CopyOutBlock | commands consume exactly their parameters; no word lost between the FIFOs |
| SPU (`core/spu.cpp`) | transfer FIFO, voices, IRQ address, tick event | register and DMA accesses, Execute | FIFO bounds, IRQ at the address, ADSR phases |
| GPU (`core/gpu.cpp`, `gpu_commands.cpp`) | GP0 FIFO, blitter state, CRTC | GP0/GP1 writes, DMA, CRTC and command events | commands complete before they execute; DMA request follows the state |
| CPU core, recompiler, GTE, PGXP | registers, caches | instructions | instruction semantics: not a subject for these models |
| Code cache (`core/cpu_code_cache.cpp`) | blocks, links, code pages | lookup, compile, link, invalidate | no link to a block that is gone; no stale block executed |
| System (`core/system.cpp`) | machine state, run-ahead states, media list | boot, reset, RunFrame, save and load, change disc | a loaded state behaves as the saved one; run-ahead is invisible |
| Libretro host, settings, display | front-end options | libretro callbacks | bounds the calls the components receive |
| Disc images (`common/cd_image*.cpp`) | position, indices | Seek, ReadRawSector | modelled as far as the reader uses them |

`PROJECT.json` lists every component, including those without control state
(recompiler back ends, GTE, file formats, utilities) with the reason they are
left out.

What is hard in this code:

* **Two threads and unlocked accesses.** The reader's emulation-thread side
  reads the ring and two atomics without the mutex; the GPU queue reads the
  other side's pointer, decides whether to wake it, and writes in place.
* **Callbacks that re-enter.** A callback schedules and invokes other events
  while the list is being walked; device status updates start DMA transfers
  inside DMA transfers.
* **State that survives.** Flags left by a stopped thread, a removed disc, a
  cancelled command or a loaded save state.
* **Limits.** The ring that is full exactly when it wraps, counts at zero,
  counters that wrap.

## 2. Plan

1. `CDROMAsyncReader`, with its inductive invariant and proof. *Done.*
2. `GPUBackend`, implementing the abstract `GPUCommandStream`. *Done, proved with
   the refinement.*
3. `TimingEvents`, with proofs of the list, its order and the tick accounting.
   *Done.*
4. `DMA`, with abstract devices, and `MDEC`, which composes the decoder with
   it. *Done, proved.* Later: word addresses and the shared
   transfer buffer, the interrupt controller's mask and the CPU's line.
5. `CDROM`: commands, second responses, drive states, asynchronous interrupts
   and sector buffers. *Done, proved.* Later: the sectors themselves and the
   data FIFO, composed with the reader's client side (whether the drive ever
   waits twice for one answer).
6. `Pad` with `Controllers`, `MemoryCard` and `Multitap`. *Done, proved.* Later: the
   received byte and the interrupt, against an abstract byte exchange.
7. `Timers`; the save-state side of `TimingEvents`; `CodeCache`; run-ahead.

Abstract specifications worth stating: `GPUCommandStream` (done); a
one-word-at-a-time copy for DMA; a byte exchange for the pad port.

## 3. The asynchronous CD-ROM reader

**Module and code.** `CDROMAsyncReader` has the fields of the class as
variables (`nextSet`, `nextPos`, `isReading`, `canReadahead`, `seekError`,
`buffers`, `front`, `back`, `count`, ...) and two program counters. `mpc` is
where the emulation thread is inside a call; `wpc` is where
`WorkerThreadEntryPoint` is. Accesses made without `m_mutex` are steps of their
own: `QueueReadSector` alone is seven actions, because the comparison of the
front buffer, of the next buffer, the move of the front and the `fetch_sub`
each see what the read thread does meanwhile. Code under the mutex is one step
where the other thread touches the same state only under it; `EmptyBuffers` on
the read thread is two, because the emulation thread reads `count` without the
mutex. Condition variables are a "blocked" value of a program counter that a
notification or a spurious wakeup moves on. The disc image is what the reader
uses of `common/cd_image.cpp`: a seek succeeds inside the disc, a raw read
advances the position and may fail. A sector's content is its number.

The client is what `core/cdrom.cpp` does: it asks for a sector, waits for it,
uses the references it got until the next request, reads uncached sectors,
changes the disc and the readahead setting. `Interrupts` says which of these
it may do while a request is still pending ("queue": ask for another sector;
"media": insert or remove the disc; "thread": change the readahead). With
`Interrupts = {}` it always waits first. `Reboot` allows a new thread to be
started while there is no disc. `CDROM` does all of these: a seek command or
`Pause` leaves a request pending, and the shell can be opened at any time.

**Runs.**

| Run | Shows |
|---|---|
| `reader` | `SectorIsRequested`, `HeldSectorStable`, `NoSlotRace`, `CountInBounds`, `MediaNotMovedInUse`, `CallsReturn` and types, two slots, three sectors, serial client |
| `reader_requeue` | violation: a second request finds its sector in the front buffer and returns early, while the first one's seek is still to come; the wait then hands over the first one's sector |
| `reader_eject` | violation: `CancelReadahead` waits only while `m_is_reading`; a position that is set but not yet taken up makes the read thread use the image while it is moved or gone |

Seen with other constants or properties and not kept as runs:

* `Reboot = TRUE` violates `MediaNotMovedInUse` (`m_can_readahead` survives
  `StopThread`);
* `RequestLBAs = {0, 1, 5}`, a request outside the disc: with one slot
  `SectorIsRequested`, `SeekErrorStopsReadahead` and `CallsReturn` hold; with two
  slots the first two are violated (a kick from an earlier request restarts the
  readahead after the failed seek);
* `Interrupts = {"thread"}` violates `SynchronousWaitReturns`: a position that was
  set survives `StopThread`, and with the readahead off `WaitForReadToComplete`
  waits for a thread that is not there;
* `ReadaheadStopsAtError` is violated: `ReadSectorIntoBuffer` always returns
  true, so a failed read does not stop the readahead as its caller's comment says.

**Bounds.** Two slots are the smallest ring with a slot besides the front, where
wrapping, reading ahead and being full all happen. Three sectors give the sector asked for, the one
read ahead and the end of the disc. `CountModulus = 8` stands for 2^32: it only
has to be larger than the ring for an underflow to show.

**Fairness.** `FairSpec` is weak fairness of each thread (the operating system
schedules both, and a mutex that is released is acquired) and of returning from
the call the client is in, not of making calls. Spurious wakeups are finitely
many: an unbroken run of them would be the implementation of the condition
variable spinning, and nothing relies on one.

**Proofs** (`CDROMAsyncReaderProof`). For every ring size, disc, set of requests
inside the disc and count modulus larger than the ring, and for a serial client
(`SerialClient`: `Interrupts = {}`, no reboot), all the safety properties of
`reader` are theorems. The runs that end in a violation are why the assumption is
needed. None of the properties is inductive. `IInv` in
`CDROMAsyncReaderInv` adds who holds the mutex and what `m_is_reading` means
(`ThreadInv`), what the client waits for at each point (`ClientInv`), when a
position may be set or a seek be under way (`SeekInv`), that the read thread
rests without a disc (`MediaInv`), that the buffered sectors are the slots from
front to back with the one in between `queue_advance` and `queue_sub` counted
once (`RingInv`), what slots contain (`SlotInv`), and that a pending request is
answered by the front buffer or by what the read thread is about to put there
(`AnswerInv`). The last is the heart of it: it is what the lock-free return of
`WaitForReadToComplete` relies on. The proof goes action by action, and under
each action conjunct by conjunct.

## 4. The GPU command queue

**Module and code.** `GPUBackend` models the ring by the command that starts at
each offset; writing a command erases whatever started within its bytes, so a
command that is overwritten is gone, as in the code. Sizes are in bytes and
aligned to 4, so that the comparisons with the size of the ring and with the
header of a dummy command are the code's. The emulation thread allocates
(`AllocateCommand`, with the loop for a full queue split at its loads and its
wake call), then pushes, or abandons the command as
`GPU_SW::DispatchRenderCommand` does when a primitive is culled. The GPU thread
takes the commands between the two pointers as a batch, executes it, wraps
around within it, signals Sync, and publishes its read pointer at the end of
the batch. What a command draws is abstracted to which command was executed
last. Where the GPU thread would interpret bytes at which no command starts
(only possible once commands have been overwritten), the batch just ends:
by then the property is violated already. Starting, stopping and recreating the
back end are actions.

`GPUCommandStream` is what callers rely on: a queue of commands, each executed
once and in order; Sync ends when the queue is empty. The refinement mapping
computes the queue from the ring: a command waits if it starts between where the GPU
thread is (`Position`: its place in the batch, or the read pointer) and the write
pointer, and the drawing commands that wait make up the queue, in the order of their
distance from `Position`. For that to be what the GPU thread will find, every command
must start where the one before it ends (`Chained`); a ring in which it does not is
mapped to `Lost`, which is no queue of commands, so that no step may lead there.

**The caller.** `SyncBudget` bounds the bytes pushed between two Syncs if
`Synchronises`. The software renderer synchronises once a frame
(`gpu_sw.cpp`, at the start of `UpdateDisplay`) and on each readback from VRAM.
Hardware renderers with the software renderer for readbacks enabled send it
every drawing command and synchronise only when a readback is made
(`gpu_hw.cpp`). The real ring is 4 MiB: a frame of the software renderer rarely
fills a third of it, but nothing in the code bounds it, and in the second case
not even a frame does.

**Runs.**

| Run | Shows |
|---|---|
| `gpu_queue` | a caller that synchronises after at most a third of the ring: `ImplementsStream`, `SignalIsForThisSync`, `NoSleepOverThreshold`, `DummyInBounds`, `CallsReturn` and types |
| `gpu_queue_stream` | violation: without the budget, the ring wraps to offset 0 while the read pointer is still 0; a full ring looks empty and its commands are lost |
| `gpu_queue_full` | violation: the loop that waits for room never wraps around, so that a command larger than what is left up to the end waits for ever, even when the queue is empty |

Also seen: with sizes of 12 and 16 bytes in a ring of 48, where 4 bytes may
remain at the end, `DummyInBounds` is violated: the header of the dummy command
is 8 bytes. With the real sizes this needs commands whose sizes are not
multiples of 8.

**Bounds.** A ring of 72 bytes with commands of 8 and 24 wraps with and without a
dummy command, and three commands fit. Two ids make an exchanged, lost or
repeated command visible; executed commands are forgotten, so the state space is
finite without a bound on the number of commands.

**Fairness.** Weak fairness of the emulation thread inside a call and of the GPU
thread; the GPU thread's spinning before it sleeps ends by the clock, so
`StopSpinning` belongs to it.

**Proofs** (`GPUBackendProof`). For every size of the ring, set of commands, id and
threshold: types and positions (`TypeCorrect`), and that the GPU thread neither
goes to sleep nor stays asleep over more than a threshold of bytes
(`NoSleepOverABacklog`), whatever the caller does. `SignalsReachTheirSync` and
`DummiesInBounds` need `RoomForTwo`: the caller synchronises, and the ring has
room for what is pushed between two Syncs twice, with the Syncs, and for the header
of a dummy command. `gpu_queue_stream` shows what happens without. Twice, because
the GPU thread publishes its read pointer only at the end of a batch, so that up
to one budget lies between that pointer and where the thread really is while the
emulation thread pushes the next.

The invariant is `Typed`, that what each thread holds matches where it is, and under
`RoomForTwo` also `Ring`: the command of a Sync is in the ring from when it is
written until it signals and nowhere else (`SyncInRing`); the bytes the emulation
thread has reserved are free (`Reserved`); no command lies across the write pointer or
the end of a batch (`Boundaries`), so the GPU thread lands on the starts of
commands; how far the write pointer is ahead of the read pointer in each of the
layouts the two pointers and the batch can have (`Lap`); a header fits behind the
write pointer (`Room`); and a signalled Sync leaves nothing to do (`Drained`). `Lap`
is the heart: that a Sync empties the ring and at most a budget is pushed until the
next is all that keeps the write pointer from overtaking the read pointer.

`QueueIsStream` proves the refinement, `Spec => ImplementsStream`, also under
`RoomForTwo`. It needs one more invariant, `Linked`: the commands are `Chained`; the
command to be pushed is in the ring (`Filled`); no drawing command waits while there is
no GPU thread, or while `UpdateSettings` stops it, so that a command that is executed
at once overtakes none (`Quiet`); and which call the emulation thread is in (`Calls`).
The queue is a sequence in the order of a measure (`InOrder`), and three facts about
such sequences carry the proof: only the order matters, not the measure; a new element
that is farthest away is appended (`InOrderLast`); the element that is nearest is the
head, and without it the tail is left (`InOrderFirst`). On the ring they become
`LongerLine` and `LongerQueue` for `PushCommand` and for the dummy command,
`ShorterLine` and `ShorterQueue` for what the GPU thread takes, and `SameLine` for
everything else: a command that is written, abandoned or executed at once lies beyond
what waits, because `Lap` and `Reserved` say so. The steps then map as follows:
`PushCommand` of a drawing command to `Push`, `PushNonThreaded` to `PushAndExecute`,
`HandleCommand` to `Execute`, `Sync` to `BeginSync`, `SyncWait` to `EndSync` (`Drained`),
`Shutdown` to `BeginClose`, `Recreate` to `Reopen`, all others to a stutter.

## 5. Timing events

**Module and code.** `TimingEvents` has the list of active events (`queue`), each
event's `downcount`, `since` (`m_time_since_last_run`), `interval` and
`period`, and the CPU's `pending` ticks and `downcount`. Every call on an event
is an action that instructions and callbacks may take; `stack` is the callbacks in
progress, because `InvokeEarly` calls back from within callbacks. `RunEvents`
is split where control returns to it: taking the pending ticks, advancing
all events by the smaller of the ticks left and the head's downcount, running
the head, a callback's return (which sorts its event), and returning. The CPU
loops (interpreter, cached interpreter, and the recompiler's dispatcher, which
skips `RunEvents` when the downcount was raised meanwhile) are `Dispatch`,
`Execute` and `SkipEvents`. `AddActiveEvent`, `RemoveActiveEvent` and
`SortEvent` are operators on the sequence, with the code's walks.

`owed` is an observer: the ticks of CPU time an event was active for and has not
been told of.

**Runs.**

| Run | Shows |
|---|---|
| `events_own` | callbacks change only their own event, all calls in use: the list holds exactly the active events (`TypeOK`), `TicksConserved`, `EventsSorted`, `TicksNotNegative`, `NoStarvation` |
| `events_sorted` | violation: the event being run has its new downcount but is still at the head, so an event that its callback activates is linked in before events that are due earlier |

Also seen: with `OthersInCallbacks = TRUE`, `Uses <- MCOneUse`, durations 1 and 2, bursts of 3 and
`MaxPending = 4`, `TicksNotNegative` is violated: an event scheduled by a
callback while ticks are pending can be told of a negative number of ticks. With
the constants of `events_sorted`, where callbacks may change any event,
`TypeOK`, `TicksConserved` (both proved for this case too) and `RunEventsEnds`
hold.

**Bounds.** Three events: one that is never deactivated (so that the list is
never empty, as the SPU's sample event guarantees), one that is deactivated and
run early, as the pad's transfer is, one that is scheduled, activated, delayed
and made anew. `MaxOwed`, `MaxDowncount`, `MaxLate` and
`MaxPending` keep the times finite by disabling calls that would put an event
off any further; `MaxDepth = 2` allows a callback within a callback. The
theorems hold without them mattering: they are any natural numbers.

**Fairness.** The CPU loop goes on and every callback returns. No call on an
event is assumed to happen.

**Proofs** (`TimingEventsProof`). For any events, intervals, uses, bursts and
bounds, with callbacks nested to any depth: the list holds exactly the active
events, each once (`TypeCorrect`), and ticks are conserved
(`TicksAreConserved`). `TicksConserved` is not inductive alone: the step that
runs the head is correct only because `RunEvents` has no ticks of its own left
while callbacks run, which is `AllTicksGiven`; so `IInv` is types, conservation
and `AllTicksGiven`. Lemmas describe what inserting, removing and sorting do to
the set of events in a sequence and to its having no duplicates.

If callbacks change only their own event (`~OthersInCallbacks`, as in `events_own`)
the list is sorted whenever no callback runs (`EventsStaySorted`), and no callback is
told of a negative number of ticks (`TicksStayPositive`). `events_sorted` shows that
the first needs the condition, the instance with `MCOneUse` above that the second
does. `OwnInv` adds
that callbacks in progress are all of one event (`Nesting`), that the list is sorted
but for that event (`Settled`), and that no event is due before the time it was last told of
(`Punctual`). The lemmas say that the walks of `AddActiveEvent` and
`SortEvent` stop at the place that keeps a list sorted, in either direction.

## 6. DMA and MDEC

**Modules and code.** There is one thread here, but calls nest. A register write,
`SetRequest` and the unhalt event start a transfer at once; the transfer hands
blocks to its device; the MDEC's `DMAWrite` and `DMARead` end in `UpdateStatus`,
which calls `SetRequest` for both channels, and so on. `DMA` keeps the calls in
progress in `stack`, one frame each: `block` and `after` (`TransferChannel` before
and after a block, with the address and count it holds in locals), `device` (the
device is to be called), `scan` (the loops over the channels in `UnhaltTransfer`
and the DPCR write); `MDEC` adds `execute`, `statusIn` and `statusOut`. The
program, the devices' own events, `UnhaltTransfer` and `CopyOutBlock` act only
when the stack is empty. Addresses are counted in blocks; when a slice of time is
over is left open, so every halt the ticks could cause is covered; `halted` is
`m_unhalt_event` being active. `total` and `moved` are observers.

`MDEC` extends `DMA`. A word of the model is 16 words of the program. The program
sends commands with the parameters they announce, by register or by DMA (`owed`
counts the parameters still to send), resets the decoder only when the input
channel is not running, and reads the output register only when there is
something to read. How much data a macroblock takes is left open.

**Runs.**

| Run | Shows |
|---|---|
| `dma` | a list channel, a block channel and the ordering table's manual one; channels started, stopped, enabled and disabled in any order; interrupts enabled and acknowledged: `ReadyChannelRuns`, `BlocksOnce`, `TransfersEnd` |
| `mdec_dma` | both MDEC channels and the decoder with commands of all kinds and tables of both sizes: `OnlyInputReenters`, `RequestsFresh`, `RoomForBlock`, `OutputFits`, `CommandsAligned` and types |

Seen with other constants:

* `BlockWords = 3`, `InSize = 5` and tables of two words only: `RoomForBlock` and
  `CommandsAligned` are violated. A block is larger than the space the request stands
  for, and words are lost.
* an unknown command with one parameter: `CommandsAligned` is violated. In
  `State::NoCommand` the test is the wrong way round: with words remaining the
  decoder goes back to Idle and takes them for commands, with none it stays until
  it is reset.
* `ReadyChannelRuns` also holds with the constants of `mdec_dma`. It does not hold for manual channels, which a halt does not
  concern: the loops stop at the first halted channel. They run at the next unhalt.

**The input transfer starts within itself.** `OnlyInputReenters` leaves out the channel
of which it is not true. With the constants of `mdec_dma` the invariants
`Cardinality(Transfers("MDECin")) <= 1` and `BlocksOnce` are both violated. What happens is that the
input request falls and rises again within its own transfer: `SetRequest` sees a
rising edge and `TransferChannel` starts once more with the registers of the first
transfer, which are stored when it ends. The same blocks are then moved twice. There
are two ways to get there:

* One write to the control register turns both requests on while output waits. The input
  transfer fills the FIFO and its request falls; the output transfer, started by the
  same status update, empties the output; input is consumed, and the input request
  rises within the transfer it belongs to. This takes no table at all.
* A nearly full input FIFO waits behind a macroblock. When the wait ends, a table is taken
  and the request rises; the block that comes leaves less than the threshold; the
  nested `Execute` parses the next command (the request falls) and consumes
  its data or takes another table (the request rises). This happens with the output channel off,
  `Enables` being `{[in |-> TRUE, out |-> FALSE]}`.

| `InSize`, `Threshold`, `BlockWords` | tables | `Enables` | at most one input transfer |
|---|---|---|---|
| 4, 2, 2 (`mdec_dma`) | 1 and 2 | all | violated |
| 4, 2, 2 | 2, or none | all | violated |
| 4, 2, 2 | 1 and 2, or 1 | input only | violated |
| 6, 3, 3 | 3 | input only | violated |
| 4, 2, 2 | 2, or none | input only | holds |

The second way needs a table shorter than what threshold and block add up to, less two
words. With a FIFO of 256 words, a threshold and blocks of 32 and tables of 16 or 32 words
that is so in the code, and nothing there excludes it; the fourth line is the code's
proportion counted word by word, the last one is coarser. A program that loads its tables before it starts a
transfer and turns the two requests on one after the other does neither. The repository
says of a request that falls only `dma.cpp:366`, "finish transfer later if the
request was cleared".

Two things the code does and no property forbids: a command that is already queued
behind a macroblock empties the output FIFO when the macroblock has just been copied
out, and a block from an output FIFO with fewer words leaves the rest of its
destination as it was.

**Bounds.** The input FIFO is as small as the sizes of block and threshold allow
(`InSize = BlockWords + Threshold`; 256, 32 and 32 words in the code), so that full,
nearly full and empty all happen within one transfer; block and tables have the code's
proportion (32 words to 16 or 32). The input transfer may start within itself once
(`MaxInputTransfers`, a constraint on the search: without it they nest deeper and deeper); a colour macroblock needs
two reads of the output, one of which leaves the FIFO non-empty, and fills it, as
the 24-bit depth does. Two or three blocks allow a halt and a suspension in one
transfer.

**Fairness** (`dma`). Calls return (weak fairness of the steps of the stack), the
unhalt event runs, and the program and the devices leave the DMA alone in the end.
The last is an assumption on the program, and needed: one that starts channel 0
again and again, each start ignoring the halt, holds up all others.

**Proofs** (`DMAProof`). For any channels in any order, modes and block counts, and
for devices that answer only for their own channel while they are handed a block
(`DMASpec`): `ReadyChannelsRun` and `BlocksMovedOnce`. Neither is inductive; what they
need is which calls can be in progress. `Calls` says: at most one transfer,
possibly within the loop over the channels. The frame of that transfer agrees
with what was moved (`Running`), the registers of all other channels do
(`Waiting`), and every channel that may transfer is in progress or the loop has yet
to look at it (`Ahead`).

**Proofs** (`MDECProof`). The decoder is the device that does not fit `DMASpec`: its
status updates start transfers of both channels, within transfers, to any depth. For
FIFOs, blocks, thresholds, commands and programs of any kind:

| Theorem | Condition |
|---|---|
| `DecoderTypeCorrect`, `RequestsStayFresh`, `OutputAlwaysFits`, `OthersDoNotReenter` | none |
| `BlocksHaveRoom` | `BlocksFit`: a block is not larger than the threshold |
| `CommandsStayAligned` | `BlocksFit`, and `BareUnknowns`: no parameters are announced by a command the decoder does not know |

`DecoderInvariant` says little of the stack and that suffices (`Stacked`): the calls
below the one on top are ones that wait for others, and a block is moved only for a
channel that is requested. `Told` is the strengthening of `RequestsFresh`: the
input request is true whenever any transfer may look at it, also within a status
update, unless that update has just begun; the output request is true unless an update is
still to come somewhere in the stack. `RoomForBlock` then follows from the request that every
block has. For `CommandsStayAligned`, `Stream(q, a, z)` says that the words of `q`
take the count of parameters to come from `a` to `z`, and `Aligned` that the
FIFO's words take the decoder's count to the program's.

`OthersDoNotReenter` (`OnlyInputReenters`) has an invariant of its own, `Nesting`, on top
of `DecoderInvariant`. A transfer starts while nothing is going on, from the loop over
the channels, or from a status update. The loop is always the first call of all
(`Shape`), so that nothing else is in progress when it starts a transfer. A status
update starts one when a request rises, and the output request does not rise within its
own transfer: what there is to read then was there when it was requested
(`OutputAsked`), because the output FIFO is filled by the event only, while nothing is going
on. Devices other than the decoder touch their own request only, which is already there.
TLC checked `Nesting` with the constants of `mdec_dma` before it was proved.

## 7. The CD-ROM controller

**Module and code.** `CDROM` has three events: of the command, of the second
response and of the drive. Each handler is an action, with everything it calls:
the methods are functions from one state of the controller to the next,
composed in the order of the code, so that `RemoveMedia` inside `InsertMedia`,
`BeginSeeking` inside `BeginPlaying` inside `DoSeekComplete`, or
`DeliverAsyncInterrupt` inside `SetAsyncInterrupt` are what they are there. The
program writes any of the fourteen kinds of command and acknowledges any bits
of the interrupt at any time, and asks for sectors; the user removes, inserts
and swaps discs and resets the console; a state just saved is loaded, which
makes the events up again. Older states, as rewind and run-ahead load them
(`core/system.cpp:1827`), are not in the model. Commands that only answer are one
(`Getstat`).

The events' times are left out, so each fires at any moment after it was
scheduled. What depends on data that are left out is open: whether a seek
succeeds, whether `Setloc` asks for the sector that comes next, how many
parameters were written, what a sector is. `asyncResponse` is the FIFO of
responses that wait, as the interrupts they were pushed for. `loaded` is an
observer: how many sectors ago the last one loaded came in.

**Run** `cdrom`:

| Property | Says |
|---|---|
| `DriveGoesOn` | the drive's event is active exactly while it is busy; without a disc it does not seek, read or play |
| `NothingForgotten` | an interrupt that waits has one in front of it, a command that waits has its event, or an interrupt in front of it |
| `CommandsWait` | no command is executed while an interrupt is unacknowledged |
| `ResponseIsForPending` | the response that waits belongs to the interrupt that waits |
| `NoLateSecondResponse` | no second response comes once another command has been written |
| `SectorsAdvance` | sectors reach the program in order, none twice |

`Reset` is an exception to two of them. It does not end its command: its event
comes again, after the first answer was acknowledged or not, and answers again.

Things the code does and no property forbids:

* A `Setloc` while `Play` seeks: when the seek ends, `BeginPlaying` begins
  another one, `DoSeekComplete` then clears `m_play_after_seek`, and that seek
  ends with INT2 and without playing ("INT2 is not sent on play/read").
* `ProcessDataSector` and `LoadDataFIFO` put DataReady in the place of whatever
  interrupt waits, a Complete too, which is then never raised.
* `SetAsyncInterrupt` with an interrupt equal to the unacknowledged one clears
  the response of another interrupt that waits; that comes without a response.
* `Pause`, `Stop` and `Reset` end `ShellOpening`, for which `RemoveMedia`
  provides two seconds.

**Bounds.** Two sector buffers (8 in the code) are enough for the ring to close,
for the drive to overtake the program, and for both buffers to be the one that
is read and the one that is written; three buffers were checked as well.
`ResponseBound = 2` limits how often the program asks for the sector it has
while an interrupt waits.

**Proofs** (`CDROMProof`). All six properties and the types, for any number of sector
buffers. The actions are compositions of functions on the controller's state, so the
invariant is one of such a state, `Good(s)`, and there is a lemma for each function
that keeps it, or the part of it that holds half-way through a handler. `Drives` is
`DriveGoesOn`; `Waits` is about the interrupt that waits and its response; `HasEvent`
that a command that waits is not forgotten; `InTime` that a second
response is not scheduled while another command waits; `InOrder` is `SectorsAdvance` with
what makes it inductive: a newest sector that is still in its buffer is not the one the
program loaded last. `Remainders` supplies what
going round the ring of buffers does to distances in it.

## 8. Pad port, controllers, memory cards, multitap

**Modules and code.** `Controllers` and `MemoryCard` are the devices, `Multitap`
extends both, and `Pad` extends that. A
device's `Transfer` is a function from its state and a byte to the next state
and the acknowledgement. `Pad` is the port: the program writes the data
register and any value of the control register at any time, in the middle of a
transfer or between transfer and acknowledge; `TransferEvent` is `Transmit` or
`Acknowledge` depending on the state, as in the code. The user replaces
controllers and cards and plugs the multitap in or out at any moment, also while
the device is the active one, and presses an analog controller's mode button or
changes the setting that forces its mode; the console is reset. A state is loaded,
with cards as they were just saved or as they were at any time before, and with
everything else as it was just saved. A card's save event fires at any time after
it was scheduled.

Of a card's data the model keeps which bytes of a frame the program has changed since
the data were last saved to the file or came with a state (`unsaved`); a byte may be
written with what is there, with what was there at that save or load, or with
something else. `owed` is an observer: a complete frame with unsaved bytes has been
written. Whether the data that came with a state are those of the file is not in the
model, and no property claims it.

**Run** `pad`:

| Property | Says |
|---|---|
| `TransferGoesOn` | the event is active exactly while a transfer goes on, which is only while the port is selected and enabled; one that awaits its acknowledgement has a device that gave it |
| `OnlyRefusedLeavesByte` | a byte is sent in whatever order it and the control register are written; it is left only when the byte before it was not acknowledged |
| `TapInStep` | the multitap takes each answer from the slot it belongs to, and a packet that was broken off leaves nothing that shifts a later one |
| `AnswerAsAnnounced` | an analog controller's answer has the length its first byte announced and that its mode demands when each byte is put into it, however user and program change the mode meanwhile |
| `FileKeepsUp` | what the program has changed in a card since its data were last saved or loaded is marked as changed, and a complete frame of it has a save coming, whatever saves, resets and loaded states come in between |

Things the code does and no property forbids:

* A byte written while a transfer is on its way, which then is not acknowledged,
  stays in the buffer until the program writes again: `DoTransfer` does not look
  for it, `DoACK` does.
* After the last answer of all controllers the multitap stays in that state; a
  program that goes on without deselecting the port is answered from beyond
  `m_transfer_buffer`. The model stops there (`TapExhausted`).
* `SLOT` may be changed between two bytes of a packet: the next goes to the other
  port's device, while `m_active_device` is the first one's.
* A controller stays in Ready after a byte it does not know, and a card in Command
  after GetID, until the port is deselected.
* `ForceAnalog` "Forces analog mode to be always on"
  (`libretro/libretro_core_options.h:918`). The code only toggles the mode when the
  setting changes: a reset of the console puts a controller whose mode is forced
  back into digital mode, where it stays until the button is pressed or the program
  sets the mode, and a game that has locked the mode keeps it. `Reset` also
  leaves the lock, so that the next game's user may not toggle either.
* A broken-off `GetSetRumble` or the entry into configuration mode may leave a
  motor running that no poll addresses any more; motors are not in the model.
* An analog controller's state is saved with `m_command` but without
  `m_command_step`, `m_response_length` and the buffers. With a state that was
  not just saved (run-ahead, rewind, another session) a frame goes on at the
  wrong byte, and in a new controller the step is taken modulo 0.
* `MemoryCard::DoState` first saves the card, which stops its event, and then takes
  data and `m_changed` from the state. With an older state (run-ahead, rewind,
  another session) the card's data then differ from its file, may be unmarked, and
  have no save coming even if they are marked; a byte the program writes that equals
  them does not mark them either. The file gets them with the next change of the
  program, as what is saved is the whole card; if they are marked, with the next
  complete frame, reset or load or the end of the card. `FileKeepsUp` says nothing
  of these data, only of what the program changes in them.
* `Pad::DoState` restores neither `m_active_device` nor an event that was not active.
  With the port of an older state `TransferGoesOn` fails at once; the model loads
  the port only as just saved.
* A frame that changes data and is broken off has no save coming; the next
  complete frame, a reset or the end of the card saves it.

**Bounds.** A multitap of two slots (4 in the code) with answers of two bytes (8):
enough for a first, a last, an answering and an empty slot. Frames of two bytes
(128) have a first and a last one, and can be broken off. Four sets of devices: a
controller and a card in one place, two controllers, a card in the second place,
each with the multitap, and an analog controller by itself, with its full answers
of 4 or 8 bytes and one byte for each kind of command.
`SecondPortUsed` lets a program go on with the second port only where that has a
device. The bytes are the ones some device tells apart. `LoadedCards`, what older
states have of a card, are an idle card with and without a mark, one in the middle of
reading, one about to write with a mark, and one in the middle of writing with and
without; a card is idle in them while the port is not selected. The port, the
controllers and the multitap of a loaded state are those just saved.

**Proofs** (`PadProof`). All five properties and the types, for any places and devices,
any sets of bytes, frames of any length, multitaps with any number of slots and any length of
answers; for the cards, also with any set of older ones in the states that are loaded. Each
device has an invariant of its own, which each of its functions keeps:
for a card (`CardInv`), that a save which is owed is scheduled and has
something to save; for an analog controller (`AnalogInv`), that it is in configuration
mode while it executes one of the commands that only exist there, which is why a
`SetAnalogMode` in the middle of an answer cannot change its length; for a multitap
(`InStep`), that its slot is the one its place in the buffer belongs to. The
port's is `GoesOn`. `OnlyRefusedLeaves`, an action property, follows from them step by
step.

Neither this module nor `CDROM` states liveness: their events follow from
`TimingEvents`, and what has an event is shown by `DriveGoesOn`,
`NothingForgotten`, `TransferGoesOn` and `FileKeepsUp`.

## 9. What is not shown

* Only checked by TLC on the instances above, not proved: liveness under fairness
  (`CallsReturn` of the reader and of the GPU queue, `NoStarvation`, `TransfersEnd`),
  which is out of the prover's reach.
* The theorems with a condition say nothing where it does not hold:
  `SerialClient` (reader), `RoomForTwo` (GPU queue), `~OthersInCallbacks` (order of
  events, ticks not negative), `BlocksFit` and `BareUnknowns` (MDEC). Each has an instance above that shows it is needed.
* Weak memory: the atomics in question are sequentially consistent in the code
  (the default order), so interleaving is enough.
* Host graphics APIs, audio output, the front end, the file formats, the
  recompiler and the arithmetic of GTE, SPU, IDCT and rasterisation.
* Not modelled: `Timers`, the code cache, the SPU, the GPU's command FIFO and the
  system's save and run-ahead are next in line. `Timers` wraps at 0xFFFF and tests
  target and overflow once per batch of ticks; the code cache must unlink a block
  that a write invalidates also while it is running. The controllers other than
  the digital and the analog one have longer answers of the same shape.
* Save states, but for `CDROM` and `Pad`, which load one just saved, and memory cards,
  which are loaded from states of any age.
* The CD-ROM's durations, positions, audio and data FIFO; the pad port's received
  byte and its interrupt.
* Memory contents, the transfer buffer and time in the DMA; the MDEC's arithmetic
  and a read of its output register while the output FIFO is empty.

## 10. Running

    tlc -config MC_CDROMAsyncReader.cfg MC_CDROMAsyncReader
    tlapm TimingEventsProof.tla

and so on for the runs and modules that `PROJECT.json` lists. The longest run
and the longest proof take a few minutes.
