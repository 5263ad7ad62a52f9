# Verification of the roc-elm-tui host

TLA+ modules, TLC runs and TLAPS proofs for the Rust host of roc-elm-tui: a platform
on which a Roc application in the Elm style (`init`, `update`, `view`, subscriptions,
effects) is run in a terminal. All line numbers are of `src/src/lib.rs` unless another
file is named; `abi` is `src/src/roc_platform_abi.rs`.

## 1. The system

One process. The **main thread** runs `rust_main` (312): it takes the terminal, calls
`roc_init`, starts TCP if the subscriptions ask for it, and then loops over: handle the
effects, show the model (`roc_view`), wait for one event (`wait_for_next_event`, 412),
call `roc_update`. In server mode a **listener thread** (143) accepts connections and
spawns a **reader thread** for each; in client mode there is one reader thread (248).
Listener and readers report to the main thread through an unbounded `mpsc` channel of
`TcpEvent`s and wake its `poll()` with one byte per event in a pipe (`pipe_notify`, 114).

| Component | State | Operations | Interacts with |
|---|---|---|---|
| TCP transport (83–280, 486–520, 643–654) | `TcpState`: channel, pipe, `writers`; per thread the connection, its id, the read buffer; `next_id` | start server/client, accept, send event, notify, read, end of stream, receive event, `TcpSend` | main loop: channel, pipe; peers: sockets |
| Event loop (286–378, 412–538) | `current_model`, `current_subs`, the time to fire, `poll_fds`, the terminal's mode, the buffer inside `std::io::Stdin` | init, effects, view, timer check, poll, TCP, stdin, update, return | application: calls; transport: pipe; terminal, clock |
| Effects (621) | – | `Print`, `WriteToFile` (prints, writes no file), `TcpSend`, `Exit` | transport: `writers`; event loop: exit code |
| Ownership of Roc values (24–77, 328–376, 412–609, 658–661) | the references the host holds | incref for the view, give an event or closure away, release the data of a `TcpSend` | application: what it keeps; glue: counts |
| Glue (`abi`) | in front of each allocation its size, for some the number of elements, and a reference count; pointers, capacities and tags in the values | allocate, reallocate, free, incref, decref, recursive release of lists, boxes, closures and the host's types, `has_one_ref`, slices, small strings | host and compiled Roc code |
| Descriptors and shutdown (93–112, 122–140, 223–242, 306–310) | the process's descriptor table; who holds which descriptor | start TCP or fail to, accept and clone at the limit, drop of `TcpState`, exit of the process under running threads | transport; operating system |
| Example applications | their models | quit on a key, echo, timers | all of the above |
| Declarations of platform and package (`.roc`) | – | entry points, subscriptions and effects | – |
| ANSI parsing, build, bundle, test and release scripts, HTTP test server | outside the host | – | – |

What is hard here, and what makes each component correct:

* **Transport.** Sending an event and writing its byte are two steps; any thread may run
  between them, the pipe may be full, the peer may reset. Correct when every byte finds
  its event and every event its byte; when of each stream `Connected` comes first and
  `Disconnected` last, each once; when no byte of a stream is lost or doubled; when no
  handle outlives its stream; and when the end of every stream is reported.
* **Event loop.** Three sources compete in one `poll()`, the timer is a timeout in whole
  milliseconds, `Stdin` has a buffer `poll()` does not see, the end of stdin is readable
  for ever. Correct when timers are on time and not starved, keys are heard, the
  application is called in the order of the architecture with events it asked for, and
  the terminal is given back.
* **Descriptors.** The threads know the pipe's write end as a bare number. A number that
  is closed is given out again, perhaps for a peer's connection; the process may run out
  of them; and at the end `rust_main` closes the pipe while the threads still use it.
  `main()` is not Rust's, so nothing ignores `SIGPIPE`: a byte written to a pipe nobody
  reads kills the process. Correct when every descriptor is closed once, by its one
  holder, and no byte meant for the pipe goes anywhere else while the program runs.
* **Layout.** A value says where its allocation's header is only by its pointer, a tag bit
  of its capacity and the type the caller names; the block's size is found from there.
  Correct when every block goes back as it was handed out and no header or payload is
  overwritten.
* **Ownership, glue.** The host and Roc share counts by convention only. Correct when
  nothing in use is freed, closures are given away once, and nothing is left behind.

`PROJECT.json` lists the hazards one by one with the property that covers each, or why
none does.

## 2. Modules

| Module | What it is |
|---|---|
| `StreamProtocol` | abstract: what the transport promises about a stream |
| `TcpTransport` | the transport, thread by thread; implements `StreamProtocol` |
| `TcpTransportProofs` | its theorems |
| `ElmLoop` | abstract: in which order the host calls the application |
| `EventLoop` | the main thread with clock, `poll()`, stdin, terminal; implements `ElmLoop` |
| `EventLoopProofs` | its theorems |
| `Descriptors` | the process's descriptors, how TCP is started, how the program ends under running threads |
| `DescriptorsProofs`, `HeldOnceProofs` | its theorems |
| `RocHeap` | the glue's operations on reference counts, as operators over a heap |
| `RocHeapProofs` | lemmas about them: what each does to counts and references |
| `HostTypes` | the host's types: what their generated `incref` and `decref` touch |
| `GlueRefcounts` | a program that keeps to the glue's contract, over `HostTypes` |
| `GlueRefcountsProofs` | its theorems |
| `GlueMemory` | the same contract with addresses, headers and the default allocator |
| `GlueMemoryProofs` | its theorems |
| `HostOwnership` | what the main loop does with its references, over `RocHeap` |
| `HostOwnershipProofs` | its theorems |
| `MC...` | values of constants for TLC |

### TcpTransport

Every blocking call and every use of shared state is a step of its own.

* The main thread: `StartServer`, `StartClient`, `StartNothing` are the outcomes of
  `init_tcp_from_subs` (382); `DrainByte` is the one-byte `read` of the pipe (487) and
  `TryRecv` the `try_recv` after it (498), apart from each other, with `OnConnected`,
  `OnDisconnected` and `OnData` for its three arms; `StdinEvent`, `TimerEvent` and
  `WaitReturnsNone` are the other ways out of a wait, as far as TCP sees them; `Update`
  gives any subscriptions of `SubsChoices` and any list of at most `MaxEffects` effects;
  `SendDropped`, `SendWritten`, `SendFails` and `ExitEffect` are `handle_effects`.
* The listener: `Accept`/`AcceptCloneFails` (147–166), `ListenerSend` (168),
  `ListenerNotify`, `ListenerSpawn` (171). The readers: `ReadData`/`ReadEnd` (178),
  `SendData`/`SendEnd`, `ReaderNotify`.
* The environment: peers that send, close, reset and read.

Abstracted: bytes are positions in their stream (so order, loss and repetition can be
told), a write is one unit and a socket takes `SendCap` of them. `read()` may return
any number of the bytes that have arrived. `accept()` errors change no state.

`got` and `seen` are history variables: what the main loop has handled of each stream.
They are also the refinement mapping to `StreamProtocol` (`phase <- seen`,
`received <- got`, `writable <- writers`).

### EventLoop

`pc` is the place in `rust_main` and `wait_for_next_event`: `Wait`/`WaitForNothing` are
its start (412–447), `Check` the look at the clock at the head of the loop (449), `Arm`
the second look and the timeout (459–473), `PollReturns`, `PollTimesOut`, `PollFails`
the outcomes of `poll()`, `TcpReady`, `StdinKeys` and `StdinEnded` the branches after
it. The clock may move between any two of them. Time is in ticks, `TicksPerMs` of which
make the millisecond of `poll()`'s timeout. TCP is the number of events that wait here.
TCP events and keys come without end; `MaxPending` and `MaxKeys` bound only how many wait.
`ReadStdin` follows `std::io::Stdin`: it fills its own buffer unless that is empty and
the caller's is at least as large. `Die` stands for everything that ends the process
without `cleanup_terminal`: a Roc crash, a panic, a signal.

Two things `poll()` may do are left out: to return after its timeout in spite of
something readable, and to return with an error or hang-up event and nothing readable.
`overtaken` is a history variable: events handed out while the current timer was due.

### Descriptors

`table` is the operating system's: what each number refers to. `pipe()`, `accept()`,
`bind()`, `connect()` and `try_clone()` take the lowest unused numbers, and fail when there
are too few. The values that hold descriptors are the fields of `TcpState` (`tcp`,
`writers`), the handles in the listener's and readers' closures and the writer inside a
`Connected` event, in the channel. `StartNothing`, `OpenPipe`, `Bind`, `Connect` and
`StartFails` are the ways through 122–280; a failed start leaves the pipe open with no
owner, as the code does. `pipe_notify` writes to whatever `notify_tx` then refers to:
`WritesToPipe`, `WritesToConnection`, `WritesNowhere`, or `ThreadKilled` by `SIGPIPE`.
`Return` is any return of `rust_main`; then come `CloseRx` and `CloseTx` (`TcpState::drop`,
105), `DropEvents` (the receiver, and the writers in it), `DropWriters` and `ProcessExits`,
with every thread still running in between. `heard` and `stray` are history variables:
which connections the application was told of, and which a notification was written into.

Reading and sending an event is one step here, as are draining a byte and receiving an
event: `TcpTransport` has these apart, and how often data can be read is bounded by
`MaxReads`. What a number is used for outside the host is `Inherited`, of any amount.

### RocHeap, HostTypes, GlueRefcounts, GlueMemory, HostOwnership

In `RocHeap` a heap maps cells to a count and the cells its items refer to; a count of 0
is static data, as in the glue. Sizes, headers and small strings are left to
`GlueMemory`. `release` is the generated decref of a list of refcounted values: the items go
with the last reference, all of them, also when that reference is a slice.

`HostTypes` gives, for each type that crosses between host and Roc (subscriptions, result,
view, the four effects), the fields its generated `incref` and `decref` touch, in the
order they do (`abi` 2080–2840); a field refers to a cell or, small or empty, to none. `GlueRefcounts` lets a program with a few local variables
do what the contract allows: make data, lists and boxes, move, copy, slice, drop; and
`Make`, `CopyValue` (by any amount) and `DropValue` a value of a host type. The model in a
result and the event of a timer are released by `decref_box`, which frees the box and not
what it holds (`abi` 2146): `abandoned` counts, for each cell, the references lost that way. The host
itself never calls these two.

`GlueMemory` has addresses. Memory is told word by word (`Text` is payload, `Garbage` what
nobody has written); the Rust allocator hands out the first fit and records a block with
its size and alignment, and a block that is given back with any other is `misused`.
`roc_alloc`, `roc_dealloc`, `roc_realloc` are the default allocator (`abi` 2857–2925) with
the size word in front of a block; where there is no `Room`, they end the process (`abi` 2874,
2916), so an action that needs some is not taken. `header_bytes` and `alloc_alignment` are those of strings,
lists, boxes and erased closures; `is_small_str`, `is_seamless_slice` and
`get_allocation_ptr` read the tags; `SmallBit`, the top bit of a word, is above every
address, and a word has 4 or 8 bytes. The program makes strings (small, allocated and
static), lists of bytes, of 16-byte elements and of strings, boxes and closures, and then
copies, takes items out, slices, grows in place (`Grow`, with `roc_realloc`) and drops;
`FreeUnique` is the owner of a unique box that frees it uncounted. The operating system's
allocator, static data and the slices that compiled Roc code cuts are outside the
repository; they are modelled from how the glue uses them and marked external.

`HostOwnership` follows the main loop from one Roc call to the next. `Application`
stands for compiled Roc code, which is taken to count correctly: it sends data it keeps
or makes, any of it more than once, and keeps some of it; with `KeepsEffects` it may also
keep the list of effects it returns and return it again. `HandleSend` is the `decref`
at 661, `Retain` the `incref_box` at 345. The wait (412–538) is followed branch by branch,
as its ways round are where a closure could be given twice: `TimerFires` gives the event
box of the timer; `TcpReady` drains a byte and `TryRecv` takes the event, gives the closure
that `ClosureFor` finds (`accept_tcp_connection` before `tcp_connect`, `tcp_receive` for
data), or drops the event and goes round (515–519); `StdinReady` copies the closure (524),
`KeysRead` gives the copy, `StdinEnded` forgets it and goes round (533–535). `owned` counts
the host's references to each closure: one from `Subscribe`, one less from `MakesEvent`,
and negative if the host gives what it does not have. Which input is looked at first is
`EventLoop`'s matter: here any that is ready may be. The lists made for `tcp_receive` and
`stdin` are made and given in one step and leave no trace; that a drained byte always has
its event is `NotifyAccounting` of `TcpTransport`. `tcp` is set once, from the first
subscriptions, as the loop goes by that and not by what is subscribed later. `lost` is a history
variable: has a reference been overwritten without a decref.

## 3. Runs

| Run | Checks | States | Bounds |
|---|---|---|---|
| `tcp_safety` | `TypeOK`, `NotifyAccounting`, `ChannelOrder`, `ThreadOrder`, `BytesInFlight`, `HandlesReclaimed`, `BytesInOrder`, `ImplementsProtocol` | 2.0 M | 2 connections, 2 bytes each, read buffer 2, pipe 1, socket 1, 1 effect |
| `tcp_liveness` | `DisconnectReported`, `AllBytesDelivered`, `SendErrorReported` | – | server, 2 connections, 1 byte each, pipe 1, socket 1, 1 effect |
| `tcp_write_timeout` | `WriteReturns`, **violated** | – | server, 1 connection, 2 effects |
| `loop_safety` | `TypeOK`, `DueTimerOvertakenOnce`, `NoKeyLeftBehind`, `CleanReturn`, `TimerNearlyOnTime`, `ImplementsElmLoop` | 1.6 M | ms of 2 ticks, 5 times, cap of 1 ms, 2 keys and 2 TCP events waiting, 1 effect |
| `loop_liveness` | `TimerEndsWait`, `KeysHeard`, `TcpTaken` | 0.3 M | 4 times, 2 keys and 1 TCP event waiting, no effects |
| `loop_timer_early` | `TimerNeverEarly`, **violated** | – | 5 times, cap of 2 ms |
| `descriptors` | `TypeOK`, `HeldOnce`, `LoopUndisturbed`, `StraysUnheard`, `DescriptorsReturned`, `BacklogServed` | 0.13 M | 6 descriptors, up to 2 of them inherited, 2 connections, 1 read each, pipe 1 |
| `glue_refcounts` | `TypeOK`, `NothingDangles`, `CountsAreOwners`, `StaticIsKept` | 1.9 M | 3 cells, 3 locals, 2 copies, 1 reference to a cell lost with boxes; locals are symmetric |
| `glue_memory` | `TypeOK`, `AllocatorContract`, `CountsInHeaders`, `NothingLeaks`, `PayloadsIntact` | 0.38 M | 2 locals, 8-byte words, 400 bytes, lengths 0, 23 and 24, lists of up to 2; locals are symmetric |
| `ownership` | `TypeOK`, `NothingUsedIsFreed`, `ClosuresGivenOnce`, `OneModelReference` | 26 k | 6 cells, 2 sends in a list, 1 cell kept; any of the 32 sets of subscriptions in every round |
| `ownership_kept_effects` | `CopyIsOwned`, **violated** | – | the same, `KeepsEffects` |
| `ownership_leak` | `NothingLost`, **violated** | – | the same |

Why the bounds are enough to be of use. A pipe of one byte is full as soon as one thread
has notified, so every notification can block, and with two connections and the listener
three threads compete for it. Two connections are the fewest whose events interleave;
two bytes with a buffer of two give reads of one and of two bytes, and data after data.
A socket that takes one write makes the next one block. Two ticks to the millisecond are
the fewest that can be lost to rounding, the cap of 1 ms is passed by a timer further
away, and two keys are more than a read that is smaller than `Stdin`'s buffer takes.
Two TCP events and two keys are enough to overtake a timer twice, if that could happen.
Six cells hold the old model and its data beside the new list, data and model.
Six descriptors are pipe, listening socket and both handles of one connection, with one
left, so that the second is accepted and cannot be cloned; with inherited ones, or a
failed start, they run out sooner. The second connection gets a number that the first has
given back, or that the pipe has.
23 and 24 bytes are either side of what a string holds itself (`StrSize - 1`,
`StrSize`); alignments of 1, 8 and 16 with and without inner references give every header
the glue can compute on 64 bits; a list of two has an item a slice does not show; 400
bytes hold all that two locals can reach, so that no `Room` guard keeps a case away. Three cells are a list and its two items, or a box with its item
and other data; two copies tell the last from the last but one. What a
bound hides (more connections, longer streams, larger buffers, other lengths of the
millisecond) is what the proofs are for.

`HeldOnce` says of every open descriptor who will close it, and names the two exceptions:
the listening socket, which nothing closes, and the pipe of a failed start.
`LoopUndisturbed` is about the running program, `StraysUnheard` about its end: there, a
notification may land in a connection that the listener has just accepted under the
pipe's old number, but never in one the application knows.

`BytesInOrder`, `TimerNearlyOnTime` and `StaticIsKept` are action properties: what no
step may do. Deadlock is checked in every run; `Exited`, `Stopped` and `End` mark the
states the program may end in.

### Fairness

* `TcpTransport`: weak fairness of the main thread (`Main`), of the listener once it has
  a connection to announce (`Announce`) and of each reader: threads that can run are
  scheduled. Strong fairness of `DrainByte`: the main thread is busy with keys and due
  timers now and then, but comes back to a `poll()` that finds the pipe readable
  infinitely often. That is `TcpTaken` of `EventLoop`: keys cannot keep the loop from TCP
  events, only an application whose timer is due at every single poll can, and it is
  excluded here. `FairSpec` adds that peers read what they are sent;
  without it `write_all()` blocks the only thread that drains the pipe
  (`tcp_write_timeout` runs under `HostSpec`, without that assumption). Nothing is
  assumed of keys, timers, accepts, sends, closes and resets.
* `EventLoop`: weak fairness of the main thread and of the clock, up to the last tick.
  `KeysHeard` says in its hypotheses what the code does not guarantee: that the
  application goes on listening to stdin, that timers do not fire for ever, and that TCP
  events, which `poll()` prefers to keys, cease. `TcpTaken` needs the one about timers only.
* `Descriptors`: weak fairness of the start, of the main loop's events, of the shutdown, of
  the listener and of each reader: they are scheduled, and the main loop comes back to
  events that wait. `PeerCloses` is fair too: no peer stays for ever, which is what
  `BacklogServed` needs and what is not the program's to guarantee. Nothing is assumed of
  `Return`, of sends and of new connections.

### What the violated runs show

* `tcp_write_timeout`. README.md:42 of the repository: "TCP connect, read, and write
  operations require a caller-configured timeout covering the whole operation." The host
  calls `write_all` on a blocking socket from the main thread (649) without one: with a
  peer that stops reading, the program does nothing else any more.
* `loop_timer_early`. The comment at 482: "Poll timed out, which means timer should
  fire". The timeout is the time left cut to whole milliseconds (468), so the timer
  fires up to one millisecond early; `TimerNearlyOnTime` is what does hold. (It is also
  cut to `i32::MAX` milliseconds, after which a longer timer fires weeks early.)
* `ownership_kept_effects`. The comment at 658: "we own this copy and must decrement both
  fields". `ManuallyDrop::into_inner` copies the fields and retains nothing: the reference
  that is released is that of the list of effects. As long as the host is the only
  holder of that list and never releases it, this comes out even
  (`ownership`). An application that keeps the list in its model and returns it again
  sends freed data. In the counterexample the kept list's data has one reference, the
  list's own, and `NothingUsedIsFreed` fails one step later. The generated decref of the
  same list asks `has_one_ref` before it touches the items (`abi` 2141).
* `ownership_leak`. `scripts/test.py:42` runs the examples with
  `--errors-for-leak-kinds=all`; the list of effects, the rows of the view and the
  closures that made no event are overwritten without a decref in every round
  (369–376, 348–358).

Every property of a passing run has a mutant in `PROJECT.json`: an operator beside the
definition it replaces that makes a plausible mistake (a byte written without room, a
reader spawned before its announcement, a slice that releases its own items only) with
which TLC finds the property violated.

## 4. Proofs

TLAPS checks the following for every value of the constants that satisfies
`ConstantsAssumption` of the module; nothing else is assumed.

`TcpTransportProofs`, for any number of connections, bytes, effects, any buffer, pipe
and socket sizes:

| Theorem | States | Inductive invariant |
|---|---|---|
| `TypeCorrect` | `[]TypeOK` | `TypeInv`: with `NothingBeforeStart` (the client's first notification has room because the pipe is empty) and `ListenerHasId` |
| `EventsInOrder`, `ThreadsInOrder` | `[]ChannelOrder`, `[]ThreadOrder` | `OrderInv`: the order in the channel follows from how far the threads have got (`ReaderNotSpawned`, `NothingBeforeSend`, `ReaderAfterConnected`, `EndAfterReader`), and neither is inductive alone |
| `OneEventPerByte`, `ByteNeverEmpty` | `[]NotifyAccounting`; a drained byte finds an event | `AccountingInv`: with `OrderInv`, as a spawned reader must not be counted already |
| `NoByteLost`, `BytesDeliveredInOrder` | `[]BytesInFlight`, `BytesInOrder` | `BytesInv`: the `Data` events of a stream in the channel carry exactly what lies between `got` and `taken` |
| `HandlesAreReclaimed` | `[]HandlesReclaimed` | `EndReported` and `WritersKnown` over `OrderInv` |
| `TransportImplementsProtocol` | `Spec => StreamProtocol!Spec` | `RefinementInv`: each `TryRecv` and `SendFails` is a step of the protocol, everything else stutters |

The lemmas under them are about sequences: what `Append` and `Tail` do to `Has`, to the
two halves of `ChannelOrder` and to `Carries`.

`EventLoopProofs`, for any length of the millisecond, any cap on the timeout, any number
of keys, events and effects:

| Theorem | States | Inductive invariant |
|---|---|---|
| `TypeCorrect` | `[]TypeOK` | `TypeInv`: with `ReadyIsReal` (what `poll()` reported is still there, so nothing is taken from an empty pipe) |
| `NothingBuffered` | `[]NoKeyLeftBehind` | `TypeInv`: rests on `ReadSize >= ReaderCap`, the 16 KiB read over the 8 KiB buffer, part of `ConstantsAssumption` |
| `DueTimerIsNext` | `[]DueTimerOvertakenOnce` | `OvertakenInv`: from `wait` on, a timer that is due and has been overtaken is met by `Check` before anything else |
| `TimersNearlyOnTime` | `TimerNearlyOnTime` | `TimeoutInv`: how far the armed timeout falls short of `fire_at` |
| `ReturnsClean` | `[]CleanReturn` | the terminal is raw, or the process has returned |
| `LoopImplementsElmLoop` | `Spec => ElmLoop!Spec` | `TypeInv` |

`DescriptorsProofs`, for any number of descriptors, inherited ones, connections, reads and
any pipe:

| Theorem | States | Inductive invariant |
|---|---|---|
| `TypeCorrect` | `[]TypeOK` | `TypeInv`: with the connections accepted and waiting within the bound, an id behind a busy listener, and no threads before the start |
| `NotificationsReachTheLoop` | `[]LoopUndisturbed` | `PipeInv`: each end of the pipe is open and `Kept`, that is held by no value that closes its descriptors, until `TcpState::drop`; what is given out is unused, so it is never one of them |
| `NoStrayByteIsHeard` | `[]StraysUnheard` | `StrayInv`: a connection that has the pipe's old number is one the application was not told of (`NumberUnheard`), as it was accepted after the loop had ended, and the application has not been told, nor is the channel about to tell it, of a connection that the listener has not announced yet (`Unannounced`) |

`HeldOnceProofs`, for the same constants:

| Theorem | States | Inductive invariant |
|---|---|---|
| `DescriptorsHeldOnce` | `[]HeldOnce` | `HeldInv`, with `ConnectionsHeld`, `ListenerFree`, `ReadersAccepted`, `WritersSent`, `PipeOwned`, `NothingLeft`: whoever holds a descriptor of a connection holds it for that connection, no two of the channel's events, the writers and the threads hold the same, and what is given out is held by nobody |

`GlueRefcountsProofs`, for any number of cells, local variables, copies of the host's
value and lost references, over the lemmas of `RocHeapProofs`:

| Theorem | States | Inductive invariant |
|---|---|---|
| `GlueInvariant` | `[]RefInv` | itself |
| `GlueTypeCorrect`, `GlueNothingDangles`, `GlueCountsAreOwners` | `[]TypeOK`, `[]NothingDangles`, `[]CountsAreOwners` | `RefInv` |
| `GlueStaticIsKept` | `StaticIsKept` | `RefInv` |

`RefInv` says that the heap is `Balanced`: the count of every live cell that is not static
is the number of references from outside (`Outside`: local variables, the host's value as
often as it is held, lost boxes) and from items, and what is referred to is live. It needs
the heap to be `Sound` (what is not live is `Free`, items of items have no items), as the
cells that a `release` reaches must not reach further, and boxes to hold no boxes, as
`decref_box` would lose what `abandoned` does not count. Neither `CountsAreOwners` nor
`NothingDangles` is inductive alone: a cell is freed when its count says so, and that this
leaves nothing dangling is because counts are owners. Each operation of the glue is a lemma
from `Balanced` to `Balanced` (`IncrefBalanced`, `DecrefBalanced`, `ReleaseBalanced`), and
the recursive `decref` of a host's value is one step of that kind for each field, in the
order of `Fields` (`DecrefValueBalanced`).

`HostOwnershipProofs`, for any number of cells, effects in a list and cells kept:

| Theorem | States | Inductive invariant |
|---|---|---|
| `OwnershipInvariant` | `[]OwnInv` | itself |
| `OwnershipTypeCorrect`, `OneReferenceToModel`, `NothingInUseIsFreed` | `[]TypeOK`, `[]OneModelReference`, `[]NothingUsedIsFreed` | `OwnInv` |
| `EachClosureGivenOnce` | `[]ClosuresGivenOnce` | `ClosuresInv`: nothing is given outside `update`, and a copied closure (`stdin`) is of the subscriptions |

All but the last assume `KeepsEffects = FALSE`, which is what `ownership_kept_effects`
shows to be needed: of an application that keeps its lists of effects they are false.
`OwnInv` says exactly what every count is while the program runs: one for the model (two
in `view`), one for the list of effects, and for all other cells the number of times the
model keeps them plus the number of effects with them that are still to be handled
(`Pending`). That the release at 661 never takes a reference from the application follows
from the second summand; that `roc_view` leaves everything as it was (`ViewKeeps`) is
because it copies from a box of which the host has kept a reference. `EachClosureGivenOnce`
goes around both loops: `MakesEventKeeps` needs that nothing has been given since the last
`Subscribe`, which every way round the wait must leave true (`WaitSteps`), and that what is
given is subscribed to, which for `KeysRead` only the check before the copy (523) shows.

`GlueMemoryProofs`, for both widths of a pointer, any memory whose addresses do not have a
small string's tag, any local variables, lengths of texts and lists, and lists of strings:

| Theorem | States | Inductive invariant |
|---|---|---|
| `MemoryInvariant` | `[]MemoryInv` | itself |
| `MemoryTypeCorrect`, `BlocksFoundAgain`, `HeadersCount`, `NoBlockLeaks`, `PayloadsKept` | `[]TypeOK`, `[]AllocatorContract`, `[]CountsInHeaders`, `[]NothingLeaks`, `[]PayloadsIntact` | `MemoryInv` |

`MemoryInv` says that there is a set `D` of allocations (where the payload is, of which type,
how long, with how many strings in it) such that

* the blocks are exactly those around the allocations of `D`, aligned for their type, and no
  two of them overlap;
* each holds what it must: the size in front of it, the number of elements of a list of
  strings, `on_drop` of a closure, the text where there is text;
* every value, in a local variable or in a string's three words in a payload, is nothing,
  a small string, an empty list, or points to one of `D` or to the static string, whole or
  as a slice with its tag set;
* the count in each header is the number of these values that refer to it, at least one,
  and that of the static string is 0.

None of the five properties is inductive without the rest: a block is given back right only
if its size was not overwritten, that is because payloads do not overlap, and a count that
reaches zero early would free a block that a payload still needs. On the way through
an operation some of this is not true yet, so the lemmas are about `Good`, which names the
references no longer counted and the allocation being freed: allocation is `FreshAlloc` and
`AddedAlloc` up to the header, and then `ReferenceAdded`, or `AddedMoved` where a string
moves into what was allocated; release is `ValueDropped`, over `SlotReleased` for each inner
string (which may free that string's own block) and `StringsReleased` for all of them;
`ValueCopied`, `ValueSliced` and `BytesGrown`, over `Reallocated`, are the others.
`Layouts` and `GivesBlockBack` are the round trip they rest on: for every type and width the
header has room for count and number of elements, keeps the payload aligned, and freeing
from the payload's pointer gives back that block. `Layouts` is where `PtrWidth \in {4, 8}` is
used. The allocator is assumed to be what `First` and `Fits` say: some block that is free
and aligned.

The provers have no induction theorem they can instantiate with an operator. Where a
proof needs induction over the natural numbers (the fields of a value, the references an
application lets go of) it is over a set: `SetInduction` of `RocHeapProofs`, from the least
number outside of it. The recursive functions it is used for are shown to exist the same
way (`GoesExists`, `DropsExists`, and `ReleasesExists` and `StoresExists` in
`GlueMemoryProofs`).

Every invariant and action property that a passing run checks is stated by a theorem. Only
model-checked are the liveness properties, as TLAPS proves nothing under fairness or of
`ENABLED`; and the violated runs are about the instances they name.

## 5. Not modelled

* **Example applications**, and what follows from a failed `bind` or `connect` for them
  (planned).
* **`Print`, `WriteToFile`**: write to stdout only; no state. (Their reference counts are
  in `HostTypes`.)
* **Glue**: its overflow checks (`checked_add`, `checked_mul`, saturated counts), which no
  instance of a size TLC can handle reaches; tags, unions and the ANSI enumerations, which
  are data declarations; the layout of the host's own structures.
* **ANSI parsing**: a package outside the repository.
* **Scripts, CI, HTTP test server, prebuilt targets**: tooling around the program.

## 6. Plan

Done: 1. `StreamProtocol`, `TcpTransport` and proofs. 2. `ElmLoop`, `EventLoop` and
proofs. 3. `RocHeap`, `GlueRefcounts`, `HostOwnership`; `HostTypes` under
`GlueRefcounts`, and `GlueMemory`. 4. `Descriptors` (start, limit, shutdown) and proofs.
Proofs of `HeldOnce`, `GlueRefcounts`, `HostOwnership` and `GlueMemory`.

Next, in this order:

5. `Host`: `EventLoop` and `TcpTransport` composed (one main thread, the pipe as a source
   of `poll()`), with the abstract pair composed likewise; fairness of `DrainByte`
   derived there from the loop instead of assumed.
6. The example applications: echo server and client over the transport (what was
   received is what is sent back, a failed connect), the timer example over the loop.
7. Proofs for `Host`: that it implements the abstract pair, from the invariants of its two
   parts.
