# Verification of the axidma driver

TLA+ models, TLC runs and TLAPS proofs for the Xilinx AXI DMA driver in this
repository: the kernel module (`driver/`), the user-space library
(`library/libaxidma.c`) and the eight example programs (`examples/`). All source paths
below are relative to the repository.

Every definition of a module is translated from code. `PROJECT.json` maps each one
to the lines it stands for, lists the runs, the fault that each property was seen to
catch (`mutants`), the hazards the properties are for, the disagreements between
code and documentation that the runs exhibit, and the theorems.

    tlc -config dma_txrx.cfg AxidmaDmaRefinement.tla   # a run (PROJECT.json has the pairs)
    tlapm AxidmaDma_proofs.tla                         # the proofs of a module

Contents: [inventory](#inventory), [what is hard](#what-is-hard-in-this-code),
[plan](#plan), [modules and code](#the-modules-and-the-code),
[runs](#the-runs), [fairness](#fairness), [proofs](#the-proofs),
[only model-checked](#only-model-checked), [not modelled](#not-modelled),
[disagreements found](#disagreements-between-code-and-documentation).

## Inventory

### The parts of the system

| Part | State it keeps | Operations | Correct when |
| --- | --- | --- | --- |
| **Transfer path** `driver/axidma_dma.c` | per device `notify_signal` and `cb_data[]` (one callback record per channel); per call the `axidma_transfer` structs and a completion on the kernel stack | ioctls READ, WRITE, READWRITE, VIDEO_READ/WRITE, STOP, SET_DMA_SIGNAL; the completion callback | a blocking 0 means the hardware carried out this call's descriptor; no call returns while the hardware still has the buffer it waited for; each completion tells the right thread in the way it asked for; every ioctl returns |
| **dmaengine and hardware** (external) | per channel: last assigned and last completed cookie, the pending, issued and completed descriptors, a tasklet | `tx_submit`, `issue_pending`, `terminate_all`, `tx_status`, interrupt, tasklet | given; modelled as the driver meets it |
| **Character device and buffers** `driver/axidma_chrdev.c` | open flag, `dmabuf_list` (own buffers), `external_dmabufs` (imported ones), coherent memory, references on dma-bufs | open, release, mmap, `vma_close`, REGISTER/UNREGISTER_BUFFER, `axidma_uservirt_to_dma` | a user range is translated to the buffer mapped there now; memory is held exactly for the mappings; a reference on an imported buffer is held exactly for the list entries |
| **Bring-up and removal** `driver/axi_dma.c`, `axidma_dma_init`, `axidma_chrdev_init` | the device structure, arrays, requested channels, char-device region, class, device, cdev; the global `axidma_dev` | probe with twelve failing steps and their labels, remove, module unload and reload, unbinding through sysfs | a failure gives back exactly what was taken; an open file has a live device |
| **Device-tree parsing** `driver/axidma_of.c` | channel table, counts per kind | count, parse entry, check ids | good trees are accepted, bad ones refused, the counts are those of the channels |
| **Library** `library/libaxidma.c` | the one static `axidma_dev`: channel table, four arrays of ids, callbacks and their data, `initialized` | `axidma_init`, `axidma_destroy`, `axidma_set_callback`, the real-time signal handler, wrappers of every ioctl | the arrays list the channels; a completion runs what was registered for its channel; the tables are alive whenever the handler runs |
| **interdma** `examples/interdma.c`, `util_interdma.c` | two threads, a mutex and a condition per direction, two buffers, frame headers | send loop, receive loop, callbacks in signal context, `process_s2mm` threads, header packing and unpacking | whole frames are handed on; a round is one transfer; the loops go on; headers survive the trip |
| **axidma_benchmark** | options, resources, two buffers | parse, take, fill, transfer, verify, time, give back | nothing leaks; the verdict and the exit code are earned |
| **axidma_transfer**, `util.c` | two files, a device, two buffers, byte counts | parse, take, `robust_read`, transfer, `robust_write`, give back | nothing leaks; 0 means all bytes went through |
| **axidma_test**, `udpclient.c` | a device, two buffers, four arrays on the stack, a socket per datagram | parse, take, then for ever: receive, cut, send | the datagrams are the buffer; the loop goes on |
| **dma_uart**, `udpclient.c` | the same, and a second thread with a socket of its own | receive and send in one thread, wait for datagrams and transmit in the other | the two threads do not get in each other's way (they do) |
| **test_axidma** | a device, two buffers, a string | parse, take, one transfer, give back | 0 means the string was sent |
| **axidma_display_image** | an image file, the device node, a mapped buffer, the flag `running` | parse, take, read the image, start a cyclic transfer, sleep until a signal, stop, give back | the buffer outlives the display; a signal ends it |
| **mgpio**, `Int2String` of `util.c` | the files of sysfs | six commands over all ports | "passed" means it was done |
| `udpserver.c`, `interrupt.c`, build files | | | see [not modelled](#not-modelled) |

### How the parts interact

- A program calls the library; the library is a thin layer of ioctls and mmap on one
  open file; each ioctl is one synchronous call into the driver.
- The driver's transfer ioctls translate user addresses through the buffer lists,
  submit descriptors to the dmaengine and, when asked to wait, sleep on a completion
  with a timeout.
- The hardware interrupts; the dmaengine completes the cookie and schedules a tasklet;
  the tasklet calls `axidma_dma_callback`, which reads `cb_data[channel]` and wakes
  the sleeping call or sends a real-time signal to the thread that made the call.
- The signal runs the library's handler in that thread, wherever it is, and the
  handler runs the function the program registered.
- Nothing ties a transfer to its buffer once it has started: unmapping, closing the file
  and the end of the process change the buffer lists and leave the channels alone.
- Probe and removal create and destroy all of this while clients may be opening it.

## What is hard in this code

`PROJECT.json` lists the hazards at their lines. The main ones:

- **One callback record per channel, no lock.** `cb_data` is rewritten field by field
  (`axidma_dma.c:244-258`) while the tasklet of an earlier transfer may be reading it
  (`144-161`).
- **A completion on the stack, with a timeout.** After a timeout the call returns, but
  a callback that is already running is not waited for (`299-318`).
- **Success decided by comparing cookies** (`300-314`), on counters shared by all
  descriptors of the channel.
- **Lists keyed by user addresses**, with entries of imports that are never removed
  (`axidma_chrdev.c:74-110`), and several ways a mapping ends: unmap, partial unmap, exit.
- **Long goto ladders** in probe, in `axidma_register_buffer` and in the examples.
- **Signal handlers** that run library and program code between any two statements,
  and take locks (`libaxidma.c:190-215`, `interdma.c:78-98`).
- **State that survives** `axidma_destroy` and is used by the next `axidma_init`.
- **Transfers that outlive their call**: transmit legs, asynchronous and cyclic transfers,
  while buffers and processes come and go (`axidma_chrdev.c:206-222`, `axidma_dma.c:545`).
- **A flag tested before a sleep** (`axidma_display_image.c:340`), **two threads and one
  port** (`dma_uart.c:896`, `udpclient.c:52`).
- **Boundaries**: ids used as indices, sizes that are not multiples of a word, fields of
  nine and six bits, zero blocks.

## Plan

In order of importance; the parts marked "later" are the plan for what is to come.

1. `TransferService`, `AxidmaDma`, `AxidmaDmaInv`, `AxidmaDmaRefinement`: the transfer
   path, its abstract specification, the inductive invariants and the refinement; then
   `AxidmaDma_proofs`. Done.
2. `AxidmaBuffers` and its proofs; on top of it `AxidmaUse`, the composition with the
   transfers in flight, and its proofs. Done.
3. `AxidmaProbe` and its proofs, `AxidmaUnbind` on top of it, `AxidmaOf`, and the proofs about
   the two together. Done.
4. `LibAxidma` and the proofs about types, arrays, callbacks and tables. Done.
5. `FrameHeader`, `InterDma`, `Benchmark`, `FileTransfer`. Done.
6. `ExampleMain`, and on top of it `InterDmaMain`, `TestAxidma`, `UdpClient`, `AxidmaTest`,
   `DmaUart`; `DisplayImage`; `Gpio`. All programs are composed in `Examples`; then
   `Examples_proofs`. Done.
7. The safety part of the refinement `AxidmaDma => TransferService`, and `NotifiedAsAsked` with
   its strengthening over the half-read record. Done (`AxidmaDmaRefinement_proofs`,
   `AxidmaDma_proofs`).

The abstract specifications worth stating are `TransferService` (what the transfer
ioctls promise) and, later, a map from live user ranges to buffers that `AxidmaBuffers`
implements; `TranslationIsCurrent` states its content as an invariant today.

## The modules and the code

Common conventions. An operator named `Bug...` is a faulty version of the operator
that follows it, written as a plausible slip in that code; no action uses it. Variables
marked *(history)* in a module have no counterpart in the code and no guard reads them.
A step that reads or writes something another actor can touch is an action of its own;
what nothing can observe in between is one action.

### `AxidmaDma`: the transfer path

| Code | Model |
| --- | --- |
| `dev->notify_signal`, `dev->cb_data[]` | `notify_signal`, `cb_data` |
| a thread inside an ioctl | `pc`, `op`, `leg`, `rc` of the thread |
| the `axidma_transfer` structs and the completion on its stack | `tfr` (two for a read-write transfer), `done` |
| the descriptors and cookies of a channel | `lastUsed`, `lastComplete`, `stage`, `owner` |
| the tasklet inside `axidma_dma_callback` | `cb` |
| what was asked, who was told, what the hardware did, whose record was rewritten too soon | `asked`, `told`, `performed`, `torn` (history) |

`axidma_prep_transfer` is `PrepDescriptor`, then `SetCbComp`, `SetCbSignal` and
`SetCbProcess` for its three assignments to the shared record, then `Submit`.
`axidma_start_transfer` is `Issue`, `Wake` or `Timeout`, and `CheckStatus`, with
`StopDma` for both `stop_dma` labels. The callback is `CallbackReadComp` (the test at 152),
`CallbackComplete` (153), `CallbackReadSignal` (the tests at 154-156) and `CallbackSend` (159).
What it tests and then uses are two reads of a plain field, between which a call may write it;
the use is of the value tested or of the present one, as the compiler has it. If that is a
null pointer the callback ends in `Oops`. `torn` has the descriptors whose record a call of
the other kind, blocking or not, began to rewrite before their callback was through.
The engine is external: `EngineSubmit`, `EngineIssue`, `EngineTerminate`,
`TxComplete`, `HwComplete` and `CallbackEnter` are what the driver relies on
(cookies in order, the oldest issued descriptor completes first, `terminate_all` frees
what is listed and does not wait for a callback that runs, one tasklet per channel).
Address translation is the choice between `EFAULT` and success; what it computes is the
subject of `AxidmaBuffers`. Clients pass the channel ids the driver gave them, so a lookup
fails only for the wrong direction. With an unknown id the read and write ioctls answer
`-ENODEV` too, but the video and the stop ioctl follow the null pointer they find (594, 625);
`DisplayImage`, whose channel comes from the command line, has that case. Failing user-space
copies are left out.

`Uses` says which channels each thread uses, and `Waits` which values of `wait` the
clients use on a channel. A completion is named by the thread on whose stack it lives:
a thread that makes the same call again has it at the same address.

### `TransferService` and `AxidmaDmaRefinement`

`TransferService` is what `include/axidma_ioctl.h` promises of a transfer call, without
callbacks, completions or cookies: a call puts numbered transfers on its channels; if it
waits for one it answers `OK` only if that one was carried out, and answers anything only
when the hardware no longer has that one; every call is answered.
`AxidmaDmaRefinement` maps the driver's state to it: a call is answered when its thread is
back at `idle`; a transfer is live while its descriptor is pending or active.

### `AxidmaBuffers`: mappings, imports, address translation

Addresses are pages. `vmas` and `imports` are the mappings the kernel has for each
process; `alloc`, `dmabuf_list`, `memory` the driver's own allocations, list and coherent
memory; `ext`, `external_dmabufs`, `held` the same for imported buffers. `list_add` puts an
entry at the head and structures are numbered in the order they are made, so "first match
of the list" is `Newest`. One action per ioctl or system call: `Open`, `Close`, `Mmap`,
`Munmap`, `Exit`, `MapOther` (another driver's mmap), `Register` with its five failures and
their labels, `Unregister`, which the driver always refuses. The driver stores the address
and the size that come with an import unchecked (`axidma_chrdev.c:161-162`); the clients here
give those of an existing mapping of the exported buffer, the whole of it. `VmaClose` is part of `Munmap`
and `Exit`. `uaf` records that a structure was used after it had been freed.

### `AxidmaUse`: transfers in flight

`AxidmaUse` extends `AxidmaBuffers` by `queue`, what each channel holds. A transfer call
(`OneWay`, `TwoWay`, `Video`) translates its ranges with the `ToDma` of `AxidmaBuffers`, and
the flight keeps the memory found then, the task, and what became of the call: `wait` (it
sleeps until the transfer ends), `async`, `video` (cyclic), `leg` (the transmit leg of a
read-write call), `stranded` (such a leg behind a receive leg that could not be prepared).
Here a call that returns is one step, a call that waits is a step to start and `Complete` or
`Timeout` to end; the steps inside a call are the subject of `AxidmaDma`. `End` is the end of
a process, which stops no channel; `gone` marks the flights whose `task` pointer dangles from
then on. `Careful` says whether clients keep the buffers of the transfers they know of
mapped.

### `AxidmaProbe` and `AxidmaUnbind`: bring-up, rollback, removal

The three nested init functions are one line of calls with gotos. `Flow` lists the calls
(what each takes, what follows, which label it goes to), `Labels` the labels (what each
gives back, what follows). `Succeed`, `Fail` and `Rollback` walk them; `Remove`, `Unload`
and `Reload` start removal and a new probe; `Open` and `Release` are the clients. Each
requested channel is a step of its own. `lost` keeps what was held when the device
structure was freed, with the step that had failed (history). `AxidmaUnbind` adds `Unbind`,
which does not wait for open files as `Unload` does, `OpenLate`, an open while `axidma_remove`
is on its way to `cdev_del`, and `stale`, the files left without a device (history, but for
`ReleaseStale` and the module they keep loaded).

### `AxidmaOf`: device-tree parsing

The lists `dmas` and `dma-names` are their lengths; an entry of `dmas` is chosen when the
loop comes to it, with each of its faults possible: `Count`, `ParseEntry`, `ParseEnd`,
`CheckUniqueIds`.

### `LibAxidma`: handle, tables, callbacks

`axidma_init` is `OpenDevice`, `Alloc`, `Fill` (one round of the loop of
`categorize_channels`; `entered` counts them), `Setup`; `axidma_destroy` is `Destroy` and
`Close`; `axidma_set_callback` is `SetCallback` and `SetData`, since the handler can run
between its two assignments; `HandleSignal` is the handler. `Transfer`, `Complete` and
`Stop` are what the driver does meanwhile; a stopped channel may still send the signal of one
transfer, at any later time, since `axidma_stop_transfer` does not wait for a callback that
runs. `Drains` says that no signal comes any more once the program calls `axidma_destroy`:
it is an assumption, which a program that has stopped a transfer has no call to make sure of.
`Reinit` says whether `axidma_init` is called again once it has filled the arrays: never, after
`axidma_destroy`, or also after a failed `setup_dma_callback`.

### `FrameHeader` and `InterDma`: the two-thread modem program

`FrameHeader` has the conversions of `util_interdma.c` as functions from arrays to arrays,
for the 64-bit little-endian machine the program runs on: the header is packed bit by bit,
turned round, read back as a `long` and cut up again. What takes numbers apart into bits and
puts them together again is in `Bits`. `InterDmaMain` is the start of `main`;
when it comes to `loop` the two threads of `InterDma` begin. `InterDma` has the two loops (`Fill`,
`Start`, `Lock`, `Wait`, `Wake`, `Copy`, `Unlock`), the callback in a signal handler on the
thread that started the transfer (`Callback` when its mutex is free; `CallbackBlocks` when
the interrupted thread holds it, and then neither goes on), the wake-ups that POSIX allows
without a signal (`WakeUnasked`) and the hardware (`HwEnds`). `trouble` names the first
mishap of each thread (history): a refused transfer, a thread that could not be created, a
signal that came while its thread was not waiting, an unasked wake-up.

### `Benchmark` and `FileTransfer`

`Benchmark` reads its options one by one, takes its resources along `Taking`/`OnFail`,
fills and verifies the buffers byte by byte as `init_data` and `verify_data` do, and times
further transfers. The hardware writes a prefix of the receive buffer, possibly empty, and
may overwrite one byte of the transmit buffer. `FileTransfer` is `main` and `transfer_file`
of `axidma_transfer.c` with `robust_read` and `robust_write` one system call at a time;
somebody else may cut the input file short.

### `ExampleMain`, `UdpClient`, `AxidmaTest`, `DmaUart`, `TestAxidma`

`ExampleMain` is what four mains have in common, statement for statement: the steps that take
a resource (`Steps`, with the label each goes to), the search for channels, the labels
(`Giving`). `UdpClient` is `udp_send`: `Socket`, `Bind`, `SendTo`, `Close`, each of which may
end the program (`Die`); `port` is the one local UDP port of the program, `wire` the datagrams
since the last reception. `AxidmaTest` receives and cuts: a byte of the buffer is its place in
it, `ArrayOf` the chain of `if`s and `Cut` the loop with its two counters. `DmaUart` has the
thread `udp_recv` beside the main thread. `TestAxidma` reads its options one by one.

### `DisplayImage` and `Gpio`

`DisplayImage` is `main` of `axidma_display_image.c`, with the handler (`Interrupt`) and a
deadly signal (`Kill`) between any two steps; the test of the flag (`Check`) and the sleep
(`Suspend`) are two steps, as they are in the code. `display` says whether the hardware reads
the buffer, `missed` whether the last signal came between these two steps (history). `Gpio` is
the command loop of `mgpio.c`, one port per step, with the kernel's part of sysfs (`Written`,
`Refuses`) external; `ignored` says whether a write failed (history).

`Examples` holds all eight programs; `program` says which one runs. Its properties are the
conjunctions of the programs' own. `MCExamples` is the instance that TLC checks.

## The runs

| Run | Instance | Question |
| --- | --- | --- |
| `dma_txrx` | one thread, one transmit and one receive DMA channel; asynchronous writes, blocking reads, read-write transfers, stops, signal changes; two descriptors per channel | Is a blocking 0 real (`SuccessIsReal`), does no call leave DMA behind that it waited for (`NoDmaAfterReturn`) or, after an error, anything but a transmit leg (`OnlyTransmitLegsStayBehind`), is everybody notified as asked (`NotifiedAsAsked`; here each channel is used in one way), does every ioctl return though the hardware may hang (`CallsReturn`), and is all of it a behaviour of `TransferService` (`ImplementsService`)? |
| `dma_mixed` | one thread, one VDMA transmit channel, blocking, asynchronous and video transfers mixed, three descriptors | The same safety where the record of one call is overwritten by the next; is no unwritten field of it read (`NoGarbageRead`); and does a callback go astray, or meet a null pointer, only when a call of the other kind came before it was through (`NotifiedAsAsked`)? |
| `buf_one` | one process, three pages, two exported buffers of two and one pages, two mappings and two imports ever | Is every live range translated to its own buffer, do lists, memory and mappings agree, do references match the entries? |
| `use` | one process, two pages, one exported buffer of a page, two allocations and one import ever, two channels, two transfers at a time; a careful client | Does the hardware work on held memory only, apart from three named cases (`TransfersMeetMemory`)? |
| `bring_up` | two parts, one per behaviour. A node with two channels: every step may fail, unload and reload, unbind and bind. A device tree with up to two entries, ids 0 and 3, every fault in each | Does a failure give back what is held, and only that; does an open file have a live device, unless it was unbound; which trees are accepted, and are the counts those of the channels? |
| `lib_callbacks` | three channels with the ids 1, 2, 0, two callbacks, at most two transfers under way | Do the arrays list the channels, are the tables alive whenever a signal comes, and does a completion run what was registered for it? |
| `examples` | the eight programs, one per behaviour: `interdma` from its start, with three sent and two received rounds; the benchmark with sizes 2, 4, 6 and the default 8, and 0 or 2 timed transfers; a file of 0 to 2 bytes and output sizes 0, 3 or the input's; `axidma_test` with datagrams of 2 bytes and buffers of 0, 3, 6, 8 and the default 9; `dma_uart`; `test_axidma` with strings of 1 and 2 bytes; an image of 2 bytes in a file of 0 to 3; `mgpio` with the ports 432 to 435 but 433 | See the properties in `Examples` |
| `find_async`, `find_wake`, `find_ids`, `find_reinit`, `find_verify` | | Violations: see [below](#disagreements-between-code-and-documentation) |

Why the bounds are enough to be interesting:

- *Two descriptors per channel* are enough for an old callback to meet a new call: the
  first one times out with its callback running, and the second one sleeps on the same
  completion. *Three* let a blocking call sit between two asynchronous ones. Two threads on
  one channel are outside what the driver supports (README.md:191); the theorems that do
  not need that rule are proved without it.
- *Three pages and two imports* let a stale entry overlap a new mapping fully, partly and
  not at all, with the newer entry listed first.
- *Two transfers in flight on two channels* are both legs of a read-write call, or one
  transfer behind another; *two allocations* let a page be mapped again while the hardware
  still works on the memory that was there before.
- *Two channels* in a probe let the request of the second fail after the first; *two
  entries* of `dmas` let one entry break or repeat another.
- *Ids 1, 2, 0* make every channel's id differ from its position.
- *Three rounds* of the sender reach the first random header; *two* of the receiver let a
  second round meet what the first left behind. The peer also sends a frame of its own
  with zero blocks. The random header is one pair (QAM16, 40); for
  all pairs there is a proof (`HeadersSurvive`). A thread of `interdma` is woken unasked
  *once in all* (`WakeUnasked`).
- *Datagrams of two bytes* with buffers of 3, 6, 8 and 9: shorter than the four datagrams,
  by a whole one and by a part of one, as long, and longer.
- *Ports 432 to 435 without 433*: the first port, one left out, and ports behind it.
- *Sizes 2, 4, 6, 8* have no whole word, whole words only, and both.

`CHECK_DEADLOCK FALSE` is given where the program really ends or its bounds are used up:
the library (the handler may abort), the examples.

## Fairness

- `AxidmaDma`: `WF(InCall(t))`. A thread inside an ioctl is runnable, and its only sleep
  has a timeout (`axidma_dma.c:299`). `WF(Kernel(c))`: a scheduled tasklet runs, and the
  callback does not block. Nothing obliges a client to make a call, or the hardware to
  finish a transfer: `HwComplete` has no fairness.
- `InterDma`: `WF` of a thread's code or handler: a runnable thread runs. None for the
  hardware (`LoopsGoOn` excepts hardware that stops ending transfers), none for unasked
  wake-ups, none for the `process_s2mm` threads.
- `axidma_test`, `dma_uart`, `axidma_display_image` (`MainRuns` of `Examples`): `WF` of the
  main thread. A blocking transfer is one step, since the driver's call returns (`CallsReturn`).
  None for signals, for the thread `udp_recv`, or for another program's use of a port; while
  the display program sleeps (`asleep`) its main thread has no step.
- `TransferService`: `WF(Answer(t))`, the promise itself.

`AxidmaBuffers`, `AxidmaUse`, `AxidmaProbe`, `AxidmaUnbind`, `AxidmaOf`, `LibAxidma`,
`Benchmark`, `FileTransfer`, `TestAxidma` and `Gpio` make no liveness claim and have no fairness.

## The proofs

All theorems hold for every value of the constants that the named assumptions allow
(`ConstantsAssumption`, `DistinctAssumption`, `BufferConstants`, `ProbeConstants`,
`LibConstants`, `UseConstants`, `ExampleConstants`: sets are what they should be, the null
pointer and garbage are no threads, bounds are natural numbers) plus the hypotheses given
here.

### Transfer path (`AxidmaDma_proofs`, about `Spec` of `AxidmaDma`)

- `TypeCorrect`: `[]TypeOK`.
- `DmaInvHolds`: `[]DmaInv`, the inductive invariant of `AxidmaDmaInv`.
- `NoDmaBehindACall`: `[]NoDmaAfterReturn`, any number of threads, sharing any channels.
- `BlockingZeroIsReal`: `SuccessIsReal`, under `ExclusiveUse` (no two threads use the
  same channel, which README.md:191 implies).
- `TransmitLegsStayBehind`: `OnlyTransmitLegsStayBehind`, any number of threads.
- `NoGarbageIsRead`: `[]NoGarbageRead`, any number of threads.
- `NotificationsAreAsAsked`: `[]NotifiedAsAsked`, under `ExclusiveUse`, for any mixture of
  blocking and asynchronous calls on a channel.
- `OneKindIsAlwaysRight`: on a channel used for one kind of calls only nothing is ever torn,
  so that there `NotifiedAsAsked` has no exception and no callback meets a null pointer.
- `ImplementsServiceSafety` (`AxidmaDmaRefinement_proofs`): `Service!Safety`, the initial
  states and steps of `TransferService` under the mapping the run `dma_txrx` checks, under
  `ExclusiveUse`.

`NoDmaAfterReturn` is not inductive: it says that a waited-for descriptor that is still
listed belongs to a call in progress, and a call could return past it if its frame were
not known. `DmaInv` adds what the code keeps: cookies are handed out, issued and completed
in order (`EngineInv`); a running callback works on a descriptor no list holds
(`CallbackInv`); which legs a call has, which have been submitted at each point of it, and
that only the last leg is ever waited for (`FrameInv`); that a listed waited-for descriptor
is the one in its call's own frame, with `wait` set (`WaitedInv`). Then every way out of a
call is safe: through `status` because the cookie comparison says complete, and all
descriptors up to `lastComplete` have left the lists; through `stop_dma` because the engine
drops the whole list.

`SuccessIsReal` needs `LastCookieInv` too: with one thread per channel a call in progress
holds the channel's last cookie, so `cookie <= lastComplete` forces `cookie = lastComplete`,
and `EngineInv` says that the hardware carried out `lastComplete`. Without the rule the
comparison can succeed for a descriptor that another thread's `terminate_all` dropped.
A late callback of an earlier call may complete the completion of the present one; the
proof goes through because the status is checked after every wake-up.

`OnlyTransmitLegsStayBehind` is about the step that returns, and needs `SentInv`: a leg
that a call in progress has started is no longer pending, and neither is the transmit leg of
a call whose receive leg timed out.

`NoGarbageRead` needs `WrittenInv`: a channel that has been given a descriptor had its record
written by `axidma_setup_dma` before, and a callback reads it only for such a descriptor.

`NotifiedAsAsked` is true although a call may rewrite the record between any two reads of a
callback, because what a call of the same kind writes over a field says the same thing.
`NotifyInv` makes that precise: what each call in progress asks (`AskingInv`), what the record
says while it is written field by field (`RecordInv`), that this fits every descriptor that is
still to be told and is not torn (`FitsInv`; `SetCbComp` tears those it will not fit), that
nothing is torn on a channel used in one way (`TornInv`), and that what a running callback has
read so far fits its descriptor (`ReaderInv`).

For the refinement, `AxidmaDmaRefinement` names the parts of the mapping (what a client sees
of its thread; what is live on the channels). Every step of the driver is shown to be the
start of a call, a submission, a completion, a termination, an answer, or a stutter; the
answer of a call that waits is where `SuccessIsReal`'s and `NoDmaAfterReturn`'s invariants
are used. Fairness of `TransferService` (`WF(Answer(t))`) is not part of `Safety`.

### Buffers (`AxidmaBuffers_proofs`)

- `BuffersTypeCorrect`: `[]TypeOK`, whatever parts of mappings are unmapped (`TypeInv` adds
  that no import is empty, so that a listed size is a size).
- `BuffersHold`: whole unmaps (`~PartialUnmap`) imply `[]BuffersAreTheMappings`, for any
  number of processes. The invariant `BuffersInv` adds that mappings of a process do not
  overlap (`LayoutInv`) and that a mapping is where its structure says (`EntryInv`).
- `TranslationHolds`: whole unmaps and one process imply `[]TranslationIsCurrent`.
  `ImportInv` is the point of it: stale imports stay listed for ever, but each live import
  is listed and no *newer* entry meets its range, so the newest match is the live one; and
  since own buffers are looked up first, it also needs that no own buffer overlaps an
  import.
- `ReferencesHold`: `[]HeldForEntries`, any number of processes, failed imports included,
  whatever is unmapped.

### Transfers in flight (`AxidmaUse_proofs`)

- `UseTypeCorrect`: `[]UseTypeOK`, whatever the clients do. What it takes is that the search
  of the lists (`Newest` of a bounded set of numbers) finds an entry that is there.
- `BuffersUnderTransfers`: every behaviour of `UseSpec` is one of `AxidmaBuffers` (with
  stuttering), so that what is proved there holds under transfers.
- `TransfersStayInMemory`: `[]TransfersMeetMemory` with one process, whole unmaps and a
  careful client, for any number of pages, buffers, imports, channels and transfers. By
  itself the property is not inductive: that memory stays held follows only when the mapping
  it was found through is still there. The invariant says that a flight whose process lives,
  and which is waited for or known, lies within a live mapping of its own memory, or in
  imported memory that a list entry holds, and entries of imports are never removed.

### Probe and device tree (`AxidmaProbe_proofs`, `MCBringUp_proofs`)

`ProbeInv` says for each point of the line of calls and labels exactly what is held and how
many channels are requested. `GivesOnlyHeldHolds` and `OnlyParseFailureLeaksHolds` follow
for any number of nodes and channels. `OpenFileIsValid` needs one node and `FilesInv`: while
a file is open the module stays, and the global pointer is that of the node.

With unbinding (`UnbindSpec`) `ProbeInv` is still inductive, so `UnbindingLeaksNothing`
holds for any nodes. `FilesInv` is not: its claim that a device on its way out is a module on
its way out is what unbinding breaks. `LiveInv` is what is left of it, and with one node it
gives `OnlyUnbindingStrandsFilesHolds`.

The theorems about parsing are about `BringUpSpec`, for lists of any length. `ParseInv` says
that, while nothing is wrong, the entries met so far are good ones and the channels are
theirs (`GoodTreesAreAccepted`), and that each count is the cardinality of the set of the
channels of its kind so far (`CountsMatch`): a round of the loop adds one element to one of the sets.
`BringUpTyped` is the type invariant of the two parts together.

### Library (`LibAxidma_proofs`)

`CallbacksAreMatched`: `CallbackGetsItsData` for ids that are 0 .. n - 1 in some order
(`IdsAreSlots`) when no signal comes after `axidma_destroy` (`Drains`). The invariant says that
signals exist only while the tables do (`TablesInv`) and that the tables hold what was
asked for, but for the one registration in hand (`RegisteredInv`).

`LibTypeCorrect`: `[]TypeOK` for any ids and programs. `ArraysAreRight`:
`[]ArraysAreTheChannels` for any ids, if `axidma_init` is not called again once it has filled
the arrays. The other two allow that too; no run has a second call but `find_reinit`. `ArraysInv` says
that `categorize_channels` starts from empty arrays with room for the channels of their
kind, that after `entered` rounds each array holds the ids of its kind among the first
`entered` channels in their order, and that its length is the number of them (`OfKind`), so
that what the next round appends fits. `TablesStayAlive`: `TablesAreAlive`, from the same
invariant, for the ids and programs of `CallbacksAreMatched` if `axidma_init` is not called
again.

### Examples (`Examples_proofs`, about `Spec` of `Examples`)

Every program has an inductive invariant in its own module, and `ProgramsInv` is their
conjunction: the run's program keeps its own by a case for each of its actions, and those of
the others by `Others`, which says what does not change (`Inductive`).

- `NothingIsLeftBehind`: `[]GivesBackAll`. `GivesBackAll` speaks of the labels and of the end
  only; `HeldAt` says for every step of a program exactly what is held there, and
  `LadderInv` that it is.
- `SuccessIsReal`: `[]SuccessIsEarned`. For the files, `BytesInv` says how far reading and
  writing have come and `AllRead` that the transfer starts when the input has been read, or
  was cut short; `Shown` and `ReadInv` the same of the image; `EarnedInv` of the string;
  `PortsInv` that the ports behind the present one have been dealt with, in a command whose
  writes were not ignored. For the benchmark see `VerdictIsTrue`.
- `CopiesAreWhole`: `[]CopiesAreFrames`, and `RoundsEnd`: `[]RoundsAreTransfers`. By
  themselves they are not inductive: that a transfer has ended when the thread wakes follows
  from counting. `CountsInv`: of a round's transfer the hardware has it, or its signal is on
  its way, or its callback has run. `CalmInv`: in a thread that nothing has upset these are one
  exactly, and where it is decides which; and it holds its own mutex exactly where the code
  does. `FrameInv`: a receiver that was not woken unasked finds in its buffer what the transfer
  wrote. A step of one thread leaves the other's share of it alone (`OtherThreadStays`).
- `DatagramsAreRight`: `[]DatagramsAreTheBuffer`, for any sizes. `DatagramsInv` says that what
  has been sent and what is still to be sent are the four arrays, and `CutIs` what is in them
  when any number of bytes has been cut.
- `DisplayHasItsBuffer`: `[]BufferOutlivesDisplay`.
- `VerdictIsTrue`: `VerdictIsRight`, an action property, for buffers of whole words of any
  sizes. `DataInv` says that, when they are verified, the buffers are what `init_data` put
  there but for what the transfer did. That an overwritten byte is found in the transmit
  buffer is plain. That a written prefix is found in the receive buffer needs that the first
  byte of its pattern is not the zero that was written: in whole words the pattern is
  0x1234ACDE ^ n for a multiple n of 4, so its second-lowest bit is set (`XorIs`).
- `HeadersSurvive`: `PeerReadsTheHeader`, an action property, for every modulation and Mb
  number. `NextHeaderFits`: the three values fit their fields, a length is at most 400 blocks.
  `BitsSurvive`: packing into bytes, the turn of the bytes by the machine, and unpacking leave
  every bit in its place. `FieldOfBits`: a field that holds all the bits of a number is read as
  that number. `HeadIsRecognised`: the first four digits are 1234. `FrameFits`: 400 blocks fit
  in the buffer, and the words shown of them lie inside; a frame of 511 blocks, which the
  field could ask for, would not fit.
- `ProgramsTyped`: `[]TypeOK`.

`cut` and `field` are recursive functions. What they compute for every argument is shown
without the induction theorems, by the least argument for which it would be false
(`HasLeast`, from the well-foundedness of the natural numbers; `FieldLoop`, `PartLoop`,
`CutIs`).

The assumptions beside the constants' types (`ExampleConstants`, which also says that `NULL`
is no header and nothing read from one) are these. `BelowAGigabyte`: the benchmark's buffers
are smaller than 1 GiB; they lie in the pool of contiguous memory, whose size is a matter of
megabytes (README.md:92-96). In a larger one the pattern that `verify_data` compares with a
leftover byte could be as small as a byte, and an overwritten buffer could pass.
`PortsAreNamed`: what `Int2String` makes of a port is read back as that port; TLC evaluates it
for the ports of the run. `Powers`, `SmallPowers` and `Power28`: 2^k for k up to 30 and 256^b
for b up to 3 are positive, and the values of a few of them; the provers know nothing about
`^`, and TLC evaluates these assumptions.

## Only model-checked

- Liveness (`CallsReturn`, `LoopsGoOn`, `InterruptEnds`,
  `SendingEndsTheProgram`) and with it the whole of `ImplementsService`, whose specification
  has fairness: temporal reasoning with fairness and ENABLED is out of the prover's reach.

## Not modelled

- `driver/interrupt.c`: a stand-alone test module that the build does not link into the
  driver.
- `udpserver.c`: not built (`examples.mk:31` comments it out), and it uses a port number,
  `SERV_PORT`, that no header defines. Build files, configuration.
- In the examples: what lies beyond a buffer. `util_interdma.c:28` copies one byte more than
  it turns round, from and to behind the eight-byte arrays of `interdma.c:274-288`; with `-b`
  or `-i` after `-s`, `test_axidma.c:112` copies from behind the string, and 124-127 prints from
  behind the receive buffer, as far as `tx_size` says.
- In the examples: functions nothing calls (in `axidma_test.c` and `dma_uart.c` copies of the
  benchmark's), `-h`, everything printed; the zero that `dma_uart.c:920` writes behind the
  received bytes; the overflow of width times height in `axidma_display_image.c:256`.
- In the driver: clients that pass channel ids the driver did not give them, or register a
  buffer with an address or a size that is not its own (`axidma_chrdev.c:161`).
- In the driver: failing copies to and from user space, wrap-around of address plus length
  (`axidma_chrdev.c:69`), `mremap` and `fork`, frame geometry of video transfers (`axidma_dma.c:525` tests the transmit channel for the
  receive frame), what the signal sent to a task that
  has ended reaches (`AxidmaUse` has the moment, `gone`).
- Two threads in the buffer lists at once: the code has no lock there and README.md:191
  rules it out.

## Disagreements between code and documentation

Exhibited by a run that violates the documented claim:

| Run | Claim | What the code does |
| --- | --- | --- |
| `find_async` | `libaxidma.h:198-200`: after a non-blocking transfer the registered callback "will be invoked upon completion" | a blocking call on the same channel rewrites the one callback record (`axidma_dma.c:244-257`); the earlier transfer's completion wakes the blocking call instead and no signal is sent |
| `find_wake` | `axidma_dma.c:149`: "For synchronous transfers, notify the kernel thread waiting" | after a timeout, a callback that has read `comp` completes a completion whose call has returned |
| `find_ids` | `README.md:51`: device ids need only be unique | an id that is not less than the number of channels indexes beyond `cb_data` (`axidma_dma.c:390`, allocated at 701) and the library's channel table |
| `find_reinit` | `libaxidma.h:56-58, 78`: `axidma_init` may be called again after `axidma_destroy`, and the arrays are the channels' ids | the arrays keep their `len`; the second `axidma_init` appends behind it, beyond the new arrays (`libaxidma.c:131-132`) |
| `find_verify` | `axidma_benchmark.c:316`: "For transmit, verify that it is unchanged" | with a size that is not a multiple of 4 an unchanged buffer is reported as overwritten (`298`, `344`) |

Met while modelling; the models follow the code:

- `axidma_ioctl.h:136` makes `AXIDMA_NUM_IOCTLS` 10, and the unregister ioctl is number 10:
  it is always refused, against `axidma_ioctl.h:371-378`. Imports are never given back
  (`AxidmaBuffers!Unregister`). The library asserts that it succeeds, so a program that calls
  `axidma_unregister_buffer` ends there (`libaxidma.c:442-446`).
- `libaxidma.h:130-132` says that `axidma_free` aborts when the size does not match; it does
  not, and unmapping a part of a buffer frees all of it twice. With `PartialUnmap = TRUE`
  `BuffersAreTheMappings` is false.
- `README.md:192`: the exclusive open only tests a flag of the caller; any number of
  processes get in (`Open`).
- A second matching node overwrites the global pointer before it fails
  (`axidma_chrdev.c:557`); with two nodes `OpenFileValid` is false.
- The callback tests a pointer of the record and reads it again to use it
  (`axidma_dma.c:152-153`, `154-159`): an asynchronous call after a timed-out blocking one, or a
  blocking call beside an asynchronous transfer, can put a null pointer there in between, which
  the tasklet then follows. `NotifiedAsAsked` excepts these calls and nothing else.
- `libaxidma.h:277`: a video transfer that fails returns 0 (`axidma_dma.c:615`).
- `libaxidma.h:287-288`: stopping an idle channel is no error.
- A channel node without `compatible` is reported and then accepted (`axidma_of.c:49`); one
  that names the second child of a node with one child is reported through a null pointer
  (`axidma_of.c:108`).
- A signal between the two assignments of `axidma_set_callback` runs the new function with
  the old data (`libaxidma.c:402-403`); `CallbackGetsItsData` allows exactly that.
- A failed `setup_dma_callback` leaves the arrays full, and a retry of `axidma_init` goes
  wrong as in `find_reinit` (`libaxidma.c:302`).
- `util.c:101` says "repeat the read" of an interrupted call; the result is compared with
  `-EINTR` (`util.c:103, 131`), which it never is, and the loop ends.
- `axidma_benchmark.c:121`: `parse_args` never initialises the two flags that say whether a
  frame was given; `Enter` leaves them arbitrary.
- `axidma_display_image.c:280`: the program leaves the device open when it has found no channel,
  be it that the driver did not answer, that there was no memory, or no such channel;
  `GivesBackAll` says so. A signal between the test of the flag and `sigsuspend` (340-342)
  does not end the display; `InterruptEnds` excepts it.
- `dma_uart.c:896` and `udpclient.c:52`: both threads bind the UDP port 1234
  (`include/udpserver.h:12`, `include/udpclient.h:14`). Once the receiving thread has it the next
  datagram to be sent ends the program (`SendingEndsTheProgram`).
- `interdma.c:761-777`: when the thread cannot be created `main` returns a value it never set.
- `mgpio.c:486`: `scanf` answers -1 at the end of the input, which is not 0: the last command
  is repeated for ever.
