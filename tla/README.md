# Mac-on-Linux: TLA+ models of its asynchronous core and devices

Mac-on-Linux (MOL) runs a PowerPC guest inside a Linux process.  One *main
thread* runs the guest and all emulation; helper threads wait for the host's
devices.  What is hard about the program is not the emulation of an
instruction but how helper threads, main thread and guest meet: there are few
locks, much is done with flags, pipes and rings in shared memory, and hardly
any of it can be reached by a test.  This directory models that part.

Source paths below are relative to `src/mol-src/src/` unless they start with
`src/`.

## Inventory

| part | state | operations | module |
|---|---|---|---|
| asynchronous I/O, `main/async.c` | handler table, pollfds, aevents, pending flag, two pipes | add / delete / set events, poll thread, dispatch, aevents, cleanup | `AsyncIO` |
| main loop, `cpu/mainloop.c`, `cpu/ppc/mainloop_asm.S`; doze, `main/timer.c`; OSI interrupt controller, `drivers/osi_pic.c` | interrupt flag, virtual-mode flag, two IRQ request flags; doze count, abort pipe; level, mask, cached line | interrupt_emulation, set_cpu_irq, mainloop_interrupt; doze, abort_doze; source_hi / low, mask | `Mainloop` |
| thread manager, `main/thread.c` | stacks of records, start pipe, workers | create_thread, thread_entry, cleanup | `ThreadPool` |
| block device, `drivers/disk/ablk.c`, and the OS X driver `src/osx-drivers/src/MolBlockDriver/` | descriptor ring, active / running flags, counts, queues | do_work, kick, irq_ack, processRequest, handleIRQ | `ABlk` |
| timer queue, `main/timer.c`, with `kmod/dec.S` | sorted list of timers, time stamp handed to the kernel | one-shot and periodic timers, overflow, rvec_timer | `TimerQueue`, promise in `Timers` |
| kernel module tables, `kmod/mtable.c`, with `kmod/fault.c` | PTE rings by address and by page, free lists | insert, flush, reclaim, register / free a range | `MTable` |
| sound, `drivers/sound/sound.c` | thread state, ring, double buffer | start, stop, set_mode, write, the two engines, cleanup | `Sound` |
| CUDA and ADB, `drivers/via-cuda.c`, `drivers/adb.c` | shift register, handshake lines, buffers, key and mouse queues | handshake, service request, packets, autopoll, keys, one-second packets | `Cuda` |
| SCSI, `drivers/disk/scsi.c`, `sg-scsi.c`, `cd-scsi.c`, and the OS X driver `src/osx-drivers/src/MolSCSI/` | chain of completed requests, backend queues, overflow lists | submit, ack, execute, complete, executeCommand, cancelCommand, interrupt | `Scsi` |
| host interrupts, Grand Central PIC, DBDMA, network, USB, video | | | not modelled |

`PROJECT.json` lists every part with its status, and the hazards with the line
at which each bites.

What makes these parts hard: state is used by two threads with few locks; flags
are tested before the guest is entered; a request is two stores; ring slots are
released and refilled by two threads; time stamps and counts wrap; pages vanish
in the middle of an insertion; records are taken back by the guest while a
pointer into them is held.

## Modules

**AsyncIO** models `main/async.c`.  The variables carry the names of the fields
of `as`; `handlers[i]` is the id of an entry, `ufds[i]` its pollfd, indices
start at 1.  The poll thread is `PollTest`, `PollReturn`, `PollInterrupted`,
`PollSetPending`, `PollInterruptEmulation`, `PollReadAck`, one step per access
to shared memory.  The main thread calls the table functions in two parts,
`MainRequest` (up to the spin in `wait_safe`) and `MainMutate`, and dispatches
with `DispatchNext`, `HandlerReturn`, `DispatchEnd`, `WriteAck`.  `ready` is
the environment: what `poll()` would report.  A `poll()` interrupted by a signal
is possible only with nothing to report.

**Mainloop** models how an event gets the main thread out of the guest.  Every
load and store to shared memory is a step.  Any thread, and the main thread
inside an emulation call, may call `interrupt_emulation` (`InterruptCall`,
`SetInterrupt`, `AbortDoze`, `AbortWrite`, `TestVirtual`) or raise and lower an
interrupt line of the OSI controller (`SourceHi`, `SourceLow`, `SetRaise`,
`SetLower`, `Unlock`).  The main thread goes round the assembler loop
(`LoadInterrupt`, `StoreVirtualMode`, `EnterGuest`, `HostException`,
`GuestRvec`), runs `mainloop_interrupt` and dozes.  Memory is sequentially
consistent.

**ABlk** models the i/o thread of `drivers/disk/ablk.c` (`Io...`), the OSI calls
(`Ack...`, `Kick`, `GetEvents`) and the OS X driver (`ReceiveCmd`,
`CompleteRequests`, `Dequeue`, `Fill...`, `StartRequest`, `KickEngine`).  A
descriptor is a kind, the interrupt flag, `proceed` and the request it belongs
to.  `header` stands for the device, direction and position chosen by the last
header.  Counts are kept modulo `CountMod` and start at `FirstCount`, a few
descriptors before they wrap; `CountAssumption` says that an interrupt is not
left unserved for half the range.  Partial transfers are not visible, and reading the events of a device
(`kABlkGetEvents`) is one step.  `IoError` is the first failing transfer of a
behaviour; the counts are off after it, which is why `CompletionsAreReal`,
`KickNotNeeded` and `RequestsComplete` speak of a channel that is running.

**ThreadPool** models `main/thread.c`.  A critical section under the mutex is a
step; the bytes in the start pipe, and the reads of the cleanup, are steps of
their own.  `pthread_kill` with SIGKILL ends the process.  A join of an id that
was never set, or a second join of a worker, is taken to return.

**Timers** is the promise of `include/timer.h` and has no queue: a timer fires
once for every time it was armed, not early, in the order of times, and the id
of a timer that is gone names no other.  **TimerQueue** models `main/timer.c`
and implements it (`ImplementsTimers`, by `INSTANCE Timers WITH`: `armed` is read
off the queue, `gone` are the ids issued and no longer valid).  Time is an
integer; low words are compared as the code does, modulo `2 * (TIMER_MAX + 1)`.
A call under the lock is a step, also of another thread.  `recalc`, `interrupt`,
`recalcDec` and `intStamp` follow the stamp on its way to the kernel, through
`mainloop_interrupt`, `mac_entry` and `Decrementer`.  A client may pause, set or
resume a periodic timer at any time, also one that is flagged TF_OVERFLOW: the
flag stays, as in the code, where only `overflow_handler` clears it.  At the head
of the list such a timer stops `rvec_timer` (`Blocked`).

**MTable** models `kmod/mtable.c`.  `heap` is the memory of the rings: pointers
are names of records, flag bits a set, and a flush is a fold over the ring that
the code walks.  An insertion is a sequence of steps (`page_fault`, `Reserve`,
`ReserveClear`, `FixPte`, `StorePte`, `pte_inserted`) between which Linux, on
another CPU, may take pages away (`PageOut`, `flush_lvptr`).

**Sound** models `drivers/sound/sound.c`: the main thread works off the calls in
`todo`, the audio thread is at `apc`, and what is done under `ss.lock` is a step.
The unlocked assignments of `osip_sound_write` are steps of their own.  The
guest is the OS X driver (ring) or the classic one (double buffer), in any mode,
that of the startup sound included; the classic driver's last buffer before a
stop may be short.  A query or an open may fail; a mode outside `NosoundModes`
(48000 Hz) is refused by the silent driver too, and then nothing is open although
the thread plays.  An engine that meets a negative `dbuf_srcsize` faults
(`Alive`).  `RingFrags` is a constant: the code computes it from the fragment
size at the time of `kSoundSetupRing`.

**Cuda** models the protocol of `drivers/via-cuda.c` with `drivers/adb.c`.  `m`
is the state of VIA, CUDA and ADB devices; handlers are operators from one `m`
to the next.  The guest is a driver that keeps to the protocol or a *wild* one
that touches the registers in any order.  Bytes are not modelled, their counts
are.  Input comes from the main thread, or, with `vncThread`, from the thread of
the VNC server.

**Scsi** models the guest's driver, the controller, the `sg` backend (served by
the poll thread's events) and the CD backend (a thread of its own).  The chain
of completed requests is kept as the code keeps it, by links in the requests and
a tail pointer.  Status and sense data are left out.

Each `MC...` module instantiates a module for TLC.  An operator `X_Suffix` is a
faulty variant of `X`, described by its comment.  `mutants` in `PROJECT.json` names
one for every property of a passing run: with it in the place of `X` the property
is violated.  The others break a conjunct of a combined property.

## Runs

| run | shows |
|---|---|
| `async_safety` | two descriptors and two tokens: mutual exclusion on the table, handshake, partition of the table, restart of the dispatch loop, a live token is delivered |
| `async_live` | one descriptor, input and hang-up: `wait_safe` returns, cleanup ends, input is served |
| `mainloop` | two threads, one line: no lost wake-up, no request left behind, no stuck interrupt, every flagged interrupt is served |
| `ablk` | ring of four, two requests, one event, one failing transfer: linked ring, real completions, buffers with their header, no missing kick, one pass at a time, completion unless a transfer fails |
| `pool` | two callers, three jobs: a record for every worker told to take one, no record lost, no job twice, every job starts |
| `timers` | two timers, two threads: one list per timer, order, the kernel's stamp covers the first timer, refinement of `Timers` |
| `timers_live` | one timer, near or beyond the overflow timer: a due timer fires, unless a stale TF_OVERFLOW blocks the queue |
| `mtable` | two pages, two addresses in one cell, user and supervisor: both kinds of ring intact, every PTE recorded, none stale, flushes complete, memory ensured |
| `sound` | both drivers, three modes, busy devices and the startup sound: one thread, all played before closing, quiet after a stop, restart at the first fragment, the ring interrupts, a stop ends |
| `cuda` | well-behaved and wild guest: no exit of the emulator, service requests have data, commands and replies not mixed, keys fetched |
| `cuda_vnc` | violated: the VNC thread announces a key that has been sent already, and the emulator exits |
| `scsi` | two commands, one cancellation, both backends: one place per command, intact chain, no lost interrupt, lists conserved, all ends |

A property called `...Intact`, `Flushed` or `Covers` is the conjunction of the
structural invariants of its module, each of which is defined and commented on
its own: `TableIntact`, `RingIntact`, `PoolIntact`, `QueueIntact`, `RingsIntact`,
`ThreadIntact`, `PacketsIntact`, `ChainIntact`, `ListsIntact`.  `TypeOK` and `PicLine`
of `Mainloop` and `ReplyBufferFree` of `Cuda` are proved, and no run checks them.

`findings` in `PROJECT.json` quotes what `cuda_vnc` contradicts.

*Further counterexamples.*  These configurations are kept beside the runs; TLC
finds the property violated.  The first seven contradict a comment or message in
the source.  The last one shows what `DueFires` excepts: any periodic timer whose
next time lies beyond the overflow timer, however short its period, is flagged;
if its client pauses it, or sets it again, before the overflow timer fires (as
the USB and video drivers may), the flag stays and the timer blocks the queue.

| configuration | property | what happens |
|---|---|---|
| `MCAsyncIO_hangup` | `HangupServed` | a hang-up that was not asked for is dropped |
| `MCMainloop_race` | `IrqLineAgrees` | the CPU's view of the line ends up opposite to the controller's |
| `MCMainloop_up` | `FlagClearInGuest` | on one processor the guest is entered with the flag set |
| `MCABlk_event` | `EventPending` | an event posted while another is acknowledged is not announced |
| `MCABlk_error` | `ErrorStopsChannel` | a kick resumes a channel that failed |
| `MCThreadPool_cleanup` | `CleanupEnds` | the cleanup waits for a worker by a stale id |
| `MCSound_underrun` | `WriteFindsEmpty` | after an underrun the interrupt asks for a buffer too early |
| `MCTimerQueue_stuck` | `DueAlwaysFires` | a timer set again keeps TF_OVERFLOW and is never due, nor is any timer behind it |

*Bounds.*  Two threads (or callers) suffice for every interleaving of a pair;
the handshakes involve one pair at a time.  Two descriptors besides the aevent
pipe make the permutation move an active entry past an inactive one.  A ring of
four is smaller than a request of three buffers with the head slot and the next
header, so saturation, splitting by `MAX_IOVEC = 2` and the wrap of index and
count all occur.  With two jobs one worker can take two records; the third job
reuses a record.  The cleanup writes `ZeroBytes = 3` bytes for at most three
workers, the program 64.  `MaxAbort`, `MaxDozing` and `MaxQueued` bound left-over
bytes and counts.  With `TIMER_MAX = 3` the low word wraps within `MaxNow`, a
delay of 5 lies beyond the overflow timer, and `MaxIds = 2` reuses a slot.
`MaxLate` says how long the main thread leaves a due timer alone; a queue that is
blocked is followed for so long, and what it does when it is unblocked later is
not modelled.  In
`MTable` two pages and a pool of two records let a ring have a head and members,
change pages and run out of memory; one vsid and one cell suffice because rings of
different cells share only the free lists.  `RingFrags = 3` and a startup sound
longer than the double buffer take a stop and a start in the middle of either.
`VIA_BUFFER_LEN = 3` is one longer than a command, so the wild guest overruns it.
In `Scsi` the sizes 0, 1, 2, 4 need no, one (empty or not) and two overflow
lists; `MaxLost = 1` allows one refused submission.

*Exceptions.*  Where the code fails in a case the models reach, the property
names the case and holds outside it.

- `OneThread`: in a mode that `nosound_open` refuses, the thread may play on a
  driver that is not open (`sound.c:369` ignores the refusal).
- `EngineFits`, `RingInterrupts`: an OS X guest whose mode is the startup sound's
  can take over the thread of the startup sound, because `set_mode` skips its wait
  (`sound.c:309`); that thread goes on with the double buffer and no interrupt of
  the ring comes.
- `TypeOK` of `Sound`, `StopEnds`: a short buffer stored between a copy and its
  subtraction makes `dbuf_srcsize` negative, and the next copy ends the process.
- `DueFires`: a blocked queue (`timer.c:308`, above).
- `CommandIntact` of `Cuda`: the one-second mode, whose one-byte packet can collide
  with a command unnoticed.  `ServiceHasData`, `NeverExits`: the VNC thread.
- `CommandsEnd` of `Scsi`: a submission that the emulator refused; the lists of such
  a command stay in use, and `DisabledEnds` does not promise that they come back.

*Fairness.*  Weak fairness of the poll thread, the main thread's own steps, the
i/o thread, the workers, the callers of `create_thread` and a cleanup under way:
the host schedules runnable threads.  In `Mainloop` and `TimerQueue` the guest
leaves virtualisation at the next host exception, which the host's timer tick
guarantees; nothing is assumed of a doze timing out.  The kernel's entry and
decrementer have strong fairness, because the guest may leave and return in
between.  In `Sound` both threads have strong fairness, which stands for a mutex
that a waiting thread gets eventually.  In `Cuda` the shift timers expire and the
driver answers interrupts; in `Scsi` devices answer or time out.  In `ABlk` the
guest takes a raised interrupt.  No fairness for the guest's requests, for data
arriving, for keys, for a job returning.  Deadlock is not checked where the
bounded requests may all be served (`ABlk`, `ThreadPool`, `Sound`, `Cuda`, `Scsi`).

## Proofs

`HandOver_proofs` holds the proofs about `AsyncIO` and `Scsi`.  For `AsyncIO` it
proves `Spec => []TableExclusive` and `Spec => []Handshake`.
Neither is inductive: that the poll thread is parked while the main thread is
in the table depends on where the acknowledge byte is, on the flag and on the
phase of start-up and shut-down.  `HInv` says who holds the *token* that lets
the poll thread run: the main thread while `__io_is_pending` is up or it is
about to acknowledge, the pipe while the byte is in it, the poll thread
otherwise.  The proof uses no assumption on the constants.

For `Scsi` it proves `Covers`, and from it `IrqCovers`, `CdCovered` and
`DisabledEnds`, for any number of commands, cancellations and lists.

`Mainloop_proofs` proves the three invariants of the `mainloop` run
(`NoLostWakeup`, `RequestNoticed`, `NoStuckIrq`), `TypeOK` and `PicLine`, for any
number of threads and lines, on one processor or several, from
`MainAssumption` alone (the main thread is not one of the others).  `LInv` is a
conjunction whose parts are shown inductive one after the other:

| part | says | needed for |
|---|---|---|
| `Places` | which places an actor can be at, where a call of the main thread returns | all |
| `Locking` | the controller's lock is held through `set_cpu_irq`, whose argument is the cached line | `Withdrawn` |
| `Values` | types of flags, sets and counters | `TypeOK` |
| `Counting` | `ts.dozing` is negative only in a doze | `Waking` |
| `Waking` | an interrupt not seen at the last load of the flag is counted in `ts.dozing` or about to be; in the select, a counted abort has left a byte or is about to | `NoLostWakeup` |
| `Line` | the cached line is the masked level, also under the lock | `PicLine` |
| `RequestNoticed` | inductive as it stands, given `Places` | itself |
| `Withdrawn` | with the line low, whatever the CPU still sees of an interrupt has a request to lower it behind it | `NoStuckIrq` |

`LInv` itself was model-checked on the instance of the `mainloop` run and on one
processor with two lines before it was proved.

`Sound_proofs` proves the three invariants of the `sound` run and each part of
`ThreadIntact`, for any modes, accepted or refused, any sizes, short buffers and
ring lengths, from `SoundAssumption` alone.  `SInv` relates the calls still to be
made, `ss.started`, `ss.thread_running` and the thread's place (`Control`,
`Thread`), says when the device is open (`Device`) and when the line can be raised
(`Quiet`), and which engine can run (`Engine`).  `EngineIsFit` needs `Waits` in
addition: before an OS X driver has set up its ring, a thread can only be that of
the startup sound, and `set_mode` does not change the mode under it.  `Buffers`
bounds how far `dbuf_srcsize` can fall.

`Cuda_proofs` proves `TypeOK`, `NeverExits`, `ServiceHasData` and
`ReplyBufferFree`, the last one for replies shorter than the buffer, and
`PacketsIntact`.  `CInv` adds that requests and data agree, that what is being
sent is in the buffer, and, without the VNC thread, that an announced message
exists; `DInv` adds where a driver that keeps to the protocol is in its command.

`ThreadPool_proofs` proves `PoolIntact` and `RanOnce` for any number of callers,
workers and jobs.  `PInv` counts the start bytes: a record on the start stack has
its byte still to be written, in the pipe, or read by a worker that has not taken
a record yet (`BytesCounted`).  No record is in two places, and the jobs waiting
have not been run.

`ABlk_proofs` proves `RingIntact`, `BuffersFollowHeader` and `KickNotNeeded` for
any ring size.  `AInv` gives each slot by its distance from the engine's head:
those up to `_ri`, and no others, are in use, each linked to the next (`Links`).
What `do_work` has sampled, decoded and collected still agrees with the ring, and
only the request in hand or the first of the queue has been begun.

`TimerList_proofs` and `TimerQueue_proofs` prove `QueueIntact`, `StampCovers` and
the refinement `ImplementsTimers`, for any slots, delays, periods and any
`TIMER_MAX`, from `TimerAssumption`.  What is assumed of the program is that a due
timer or a stamp that has passed is not left alone for `TIMER_MAX` ticks (`Tick`,
`retune_timers`), without which low words cannot be compared.  The first module has the facts about lists and the invariant
`TInv`, the second the steps.  The flag TF_OVERFLOW does not say which timers are
behind the overflow timer, because it can be stale.  `TInv` therefore speaks of
the set `Far`: the timers due after the overflow timer or, while the overflow
timer's handler is about to collect, the flagged ones.  The others are in the
order of their times and the far ones, all flagged, behind the overflow timer
(`ListOk`, `FarBehind`, `Marked`).  `Window` keeps all times within half the range
of the low word; `Stamps` and `Told` follow the first timer's time to the kernel.
The refinement rests on `TInv` at every step: `rvec_timer` takes the first timer
of the list, which `ListOk` shows to be the earliest of those not kept for later.

Only model-checked: the contents of the handler table and the rings of `MTable`
(folds and walks), the chain and the lists of `Scsi` (`OnePlace`, `TailIsEnd`,
`ListsConserved`), `CompletionsAreReal` of `ABlk`, the tokens of `AsyncIO`, and all
liveness, which is outside what the prover handles.

## Further hazards

`hazards` in `PROJECT.json` lists the main ones.  Others, first those inside what
the models and their properties cover:

- `main/async.c:238` acknowledge written after the flag is cleared (`Handshake`);
  `cpu/mainloop.c:244` flag cleared before the sources are read (`RequestNoticed`);
  `drivers/osi_pic.c:52` cached line (`PicLine`); `drivers/disk/ablk.c:200`
  interrupt before the count (`RequestsComplete`); `main/thread.c:95` no test of
  `tm.start` (`StartCovered`).
- `main/timer.c:395` handler runs without the lock, `main/timer.c:471` timers sorted
  in again after the overflow timer has moved (`QueueIntact`, `ImplementsTimers`).
- `kmod/include/mtable.h:52` reservation in two assignments (`NoStalePte`);
  `kmod/mtable.c:184` end marker of a ring (`EaRings`).
- `drivers/sound/sound.c:629` polled flag (`CleanupQuiet`), `:195` interrupt of the
  ring (`RingInterrupts`), `:369` the silent driver's refusal ignored (`OneThread`); `drivers/via-cuda.c:639` reply over a reply
  (`ReplyBufferFree`); `MolSCSI.cpp:308` command reissued from the completion loop
  (`OnePlace`).

No property covers these:

- `drivers/disk/ablk.c:252` a kick resumes a failed channel (`MCABlk_error`), `:136` a
  transfer of 0 bytes never ends, `:344` stop does not wait for the engine, `:96`
  the control function is looked up by file descriptor.
- `main/async.c:253` tokens above 127 where `char` is signed; `main/timer.c:450`
  left-over abort bytes; `drivers/hostirq.c:62` the last mapping looks unmapped.
- `drivers/sound/sound.c:557` the startup sound is freed while it plays, and again;
  `:423` the number of fragments is that of the mode at `kSoundSetupRing`, stale
  after a change of format, and a division by 0 if no mode was ever accepted.
- `MolSCSI.cpp:170` a command that needs two overflow lists gives the one it took
  back before the test and is refused where it could wait (in `executeCommand`).
- `drivers/via-cuda.c:374` return with the lock held, `:751` a second chain of
  one-second timers, `:525` a one-byte packet collides unnoticed.
- `drivers/disk/sg-scsi.c:162` a failed write ends with status 0;
  `drivers/disk/cd-scsi.c:260` the device is freed before its mutex is unlocked.

## Not modelled

Weak memory ordering; signals other than as an interrupted `poll()`; failure of
`pipe`, `pthread_create` and `write` where not named above; the freeing of memory
and the cleanup of the SCSI backends; the VIA timers.  The models cover a small
share of the repository's lines, under three per cent.  Most of the rest holds no
state that two parties share: the emulation of instructions, disk image formats,
video output, boot loader, debugger, configuration, front end, Mac OS extensions,
and copies of the kernel module and of foreign drivers.  Parts with a protocol
that are left out are the network rings, DBDMA, USB, the Grand Central
controller, the host interrupt list and the Mac OS block driver.  `PROJECT.json`
gives the reason for each part.
