# A TLA+ model of NCD, the network character device

NCD makes a device that is plugged into one machine (the *host*) appear as a
character device `/dev/<name>` on another one (the *device side*).  A kernel
driver, a daemon, a runtime library with its wire protocol, and a host tool with
Python adapters take part.  This directory holds a model of the parts where
concurrency, flow control and the closing handshake make the code hard to test,
the TLC configurations that check it, and machine-checked proofs.

All paths are relative to the repository; `ncd.c` is `driver/src/ncd.c`,
`start.rs` and `device.rs` are in `crates/ncdd/src`, `connection.rs` is in
`crates/libncd-runtime/src`, `bundle.rs` in `crates/ncd/src/adapter_loader`,
`state.rs` in `crates/ncd/src/ui`.

## 1. Inventory

| Component | State | Operations | Talks to |
|---|---|---|---|
| Driver, receive path (`ncd.c`) | per device: `data_fifo`, `pending_chunks`, `pending_bytes`, `kfifo_paused`; global `daemon_pid` | DATA case of `recv_from_daemon`, `ncd_read`, `send_to_daemon` | daemon (netlink), applications (`read(2)`) |
| Driver, sessions (`ncd.c`) | `open_count`, `conn_status`, `in_use` | `ncd_open`, `ncd_release`, `ncd_write`, REGISTER / CREATE / DESTROY / CONN_RES | daemon, applications |
| Daemon, main loop (`start.rs`, `netlink.rs`) | per device: `paused`, `inflight`, `read_paused`, `pending` | one `select!` over the netlink socket and `tcp_rx` | driver, actors |
| Daemon, actor (`device.rs`) | `read_paused`, command queue | `connection_run` | main loop (channels), handler |
| Runtime library, task (`connection.rs`) | `state`, timers, buffers, channels | `handshake`, `run`, `handle_packet`, `close_inner` | peer (TCP), handler |
| Runtime library, handler (`connection.rs`, `lib.rs`) | `task_handle` with the cached messages | `open`, `read`, `write`, `status`, `close` | task (channels, JoinHandle) |
| Runtime library, configuration (`runtime.rs`) | `RwLock<Config>` | `open`, `get_config`, `set_config` | |
| Protocol library (`crates/libncd`) | none (pure) | encode / decode frames, fragment / assemble packets | |
| Host tool, actors and bridge (`crates/ncd/src/runtime.rs`) | one actor per entry | `device_actor`, `handle_connection` | handler, adapter process |
| Host tool, adapters (`adapter_loader`) | child process, bundle directory | spawn, write, recv, kill; extraction of the bundle | |
| Host tool, editor (`ui`, `config.rs`) | lists, cursor, mode | key handling, load / save | |

What makes it hard:

* *Flow control.* Three queues (daemon, backlog, kfifo), two watermarks and two
  messages that travel in the opposite direction of the data, sent after the
  lock under which they were decided has been released.  What must hold: no
  byte lost, repeated or overtaken; bounded memory in the kernel; nobody sleeps
  on data; the flow resumes.
* *Closing.* Either user may close, both may, a timer may, a process may die; a
  channel, a JoinHandle and a socket close one after the other.  What must hold:
  everything sent before a ControlClose reaches the user, once; whoever closes
  gets an answer; both ends end.
* *Sessions.* A device is opened, closed and re-opened while answers, data and
  commands of an earlier session are still queued.  What must hold: one user at
  a time; an open is answered by its own result; what is written goes to the own
  connection; no bytes of another session; opens return, connections end.
* *Framing.* TCP cuts frames anywhere and packets span frames.  What must hold:
  every packet comes out once, in order, without waiting for the next read; what
  is no packet of this version is noticed.
* *The bridge.* A task between a connection and a process with two pipes, each of
  which may end or fill up first.  What must hold: what was sent reaches the
  device, what the device produced the peer, and the bridge listens again.
* *Files shared by processes.* The extracted bundle and the configuration file,
  with processes killed between any two steps and writes that fail half-way.  What
  must hold: a bundle that is marked complete is complete; what is run is the
  configuration saved last, or a beginning of it when that save was cut off, never
  a mixture with an older one.
* *Handlers awaited inside `select!`.* While one runs nothing else is polled.

PROJECT.json lists the hazards line by line, with the property that covers each.

## 2. Modules

```
Kfifo ── DriverFifo ──┐
   └──── DaemonFlow ──┴── FlowControl ──┬── MCFlow ── BytePipe (refined)
                                        └── FlowControlProofs ── FlowStreamProofs
SessionBounds ─┬─ DriverSession ─┐
               └─ DaemonSession ─┴─ Session ──┬── MCSession
                                              └── SessionProofs
Tcp ── ConnTask ── ConnApp ── Connection ── MCConnection ─┬─ BytePipe (refined)
                                                          └─ ConnectionProofs
PacketPipe (refined) ── Codec ──┬── MCCodec
                                └── CodecProofs
Bundle ─┬─ HostTool ──┬── MCHostTool
Editor ─┘             └── HostToolProofs
Bridge ── BridgeProofs
```

SequenceLemmas states what the proofs need of concatenation, of strings made of
strings (`FlattenSeq`) and of numbered queues (`Counts`); five of the proof modules
use it.

**Kfifo** holds the sizes that driver and daemon both define.  The code's values
(4096, 3276, 819, 256 FIFOs) are too large for TLC; the assumption
`KfifoAssumption` keeps only the relations between them that the code relies on,
and the proofs use nothing else.  A byte is its position in the peer's stream,
so that loss, repetition and reordering show.

**DriverFifo** is the receive side of one open device: the DATA case, `ncd_read`
for any number of threads, and `send_to_daemon`.  A region under `fifo_lock` is
one step, with one exception: `ncd_drain_pending_locked` takes one step per
chunk while its thread holds the lock, because `wait_event_interruptible` reads
the kfifo *without* it.  What the code does after `spin_unlock` (wake-up,
KFIFO_FULL, `copy_to_user`, KFIFO_AVAILABLE) is a step of its own.
`send_to_daemon` forgets the daemon when the socket is full, as the code does.

**DaemonFlow** is the daemon's main loop for that device (KFIFO_FULL,
KFIFO_AVAILABLE, `tcp_rx`, `queue_shards`, `flush_device`,
`sync_device_reading`) and the read half of its actor.  Loops inside a handler
take one step per iteration.

**FlowControl** composes them.  A DATA message is a call: `recv_from_daemon`
runs inside the daemon's `sendmsg`, so `DaemonSend` starts the DATA case and the
daemon goes on when it is over (`HandlerIdle`).  In the other direction `nlq` is
the receive queue of the daemon's socket.

**BytePipe** is the abstract specification: what comes out is the beginning of
what went in.

**Tcp** is the stream under a connection, external to the repository: packets in
order, a bounded number under way, FIN or reset at the end; closing a socket
with unread data resets the connection and cuts off what is under way.

**ConnTask** is the connection task: the handshake, `run` with one step per
await, the delivery of data, both halves of `close_inner`, and the end of the
task in two steps, since the channels close when the Connection is dropped,
before the JoinHandle reports the task as finished.  `pc[e]` names the await.
A handler of `select!` is a label other than `run`, at which only its own await
is possible.

**ConnApp** is the handler and its user.  `connection_run` (daemon) and
`handle_connection` (host) use a connection in the same way: read and write in
turn, leave the loop when one fails or on a wish to close, then close, and hand
on the messages in errors and in the result of close.  `check_task_state` is
`Finished` / `CacheRemaining`: the first call after the end drains the channel
into a cache that later calls return again.

**Connection** composes two endpoints, with crashes of a process.

**DriverSession** is the life of one minor in the driver: `ncd_open` in the steps
between which other processes and the daemon run (claim, send, wait), `ncd_write`,
`ncd_release`, CONN_RES, DATA, REGISTER and CREATE_DEV, with signals, failing
allocations and a full or closed socket.  Each `open(2)` has a number that no
message of the code carries; it lets properties say whose bytes, answers and
writes are whose.  How bytes are split between kfifo and backlog is DriverFifo's
subject; here `buf` is both.  CREATE_DEV initialises the wait queue again, so an
opener that sleeps then is woken by nobody (`deaf`).

**DaemonSession** is the daemon's half: start-up, OPEN_REQ, DATA, CLOSE_REQ and
`tcp_rx`, `struct Device` with its `write_tx`, and one actor per connection,
several of which may live at once.  Windows and pausing are DaemonFlow's subject;
here a queued message is flushed at any moment, which includes every choice
`flush_device` makes.  **Session** composes the two, with a daemon that dies and
is started again.  **SessionBounds** holds the bounds both halves share.

**Codec** is the wire format and one direction of a connection: encoding and
decoding of packets, fragmentation, frame headers, and the loop of `recv_packet`
with its three buffers, byte by byte, over a stream that TCP delivers in pieces of
any length.  A peer may once send something foreign (`IsForeign`): frames that end
like a packet and make none, or the beginning of a packet and then bytes that are no
header of this version; what it sends after that may be anything.  **PacketPipe** is the pipe of
packets it implements, the one that Tcp takes for granted.  `MAX_PAYLOAD_SIZE` is
a constant between 1 and 65535, the code's value.

**Bridge** is `device_actor` with `handle_connection`, the adapter's two pipes, the
reader task with its bounded channel, and the two threads of `base.py`.  The
connection is what Connection makes of it: an inbox and an end, in two steps, since
the channels are closed before the JoinHandle is finished.  A `read` that falls
between them panics (connection.rs:641), which ends `device_actor` for good.

**Bundle** is `init_inner`, one step per file-system call, for any number of
processes and one directory.  A file written to after it was removed is not in the
tree (`linked`).  **Editor** is the editor's state with every key, the merge with a
saved configuration and `build_config`; a text is what tells the code's cases apart
(a number or none; the quotes and blanks around a path).  What the adapters list is
one of `Listings`, no device twice; what a file says is any `IsConfig`.  **HostTool** composes
them into `main` of the tool: its three commands, load and save, and processes
killed at any moment.  `HostConfig::save` truncates the file and then writes in a
loop: each call may take a part of the text or fail, which ends the command with an
error and leaves the file as it is.  `Beginnings` is what `load` can make of a part
of the text: a TOML file may parse without its last tables, without options of the
last one, or without the last digits of its port.

## 3. Checks

### Flow control (MCFlow)

| Run | Bounds | Shows |
|---|---|---|
| `flow` | kfifo 4, watermarks 2/2, messages of 3 bytes (shards 2+1), 18 bytes, 1 reader, 2 slots in the socket, limit 17 = `KernelBound` | `TypeOK`, `NoStrandedBacklog`, `SleepersHaveNoData`, `NothingLost`, `PendingBytesExact`, `KernelBytesBounded`, and `ImplementsPipe` |
| `flow_live` | kfifo 2, 4 bytes, fairness | `KernelDrained`, `EndToEnd` |
| `flow_faults` | 2 readers, failing allocations, backlog limit 2 | `NoReordering` |
| `flow_stall` | kfifo 2, 3 messages of 1 byte, 1 reader, 3 slots in the socket, nothing fails | *violates* `ReadingResumesWhileKnown` |

The bounds: with a kfifo of 4 and shards of 2 and 1 a chunk can fail to fit with
room left, the backlog can hold several chunks, one drain can move several of
them, and a read can leave the kfifo above and below the low watermark.  Two
slots in the socket are enough for a stale KFIFO_AVAILABLE, for FULL behind
AVAILABLE, and for an overflow.  The 18 bytes are more than the bound of
`KernelBound` = 1 + 4·(1+2+1) = 17, so it is the window that keeps the driver
below it: without the window `KernelBytesBounded` fails.  `flow_stall` needs a
third slot: its three messages are all queued while the daemon is inside `sendmsg`,
and with fewer the driver would forget the daemon.

*Fairness* (`FlowControl!Fairness`).  The daemon's task is polled when it can go
on (WF); tokio's `select!` picks at random among ready branches, so neither the
socket nor `tcp_rx` starves (SF).  A thread in `ncd_read` gets the spin lock in
the end (SF) and the application keeps calling `read`.  Nothing is assumed of
the peer, signals or faults.  `EndToEnd` further *states*, in the property, that
a blocked read is interrupted and re-issued again and again; without that
`flow_stall` shows the flow can stop.

### Connections (MCConnection)

| Run | Bounds | Shows |
|---|---|---|
| `conn` | stream of 1 packet, channels of 2, writes 3/1, one timer tick, both may close, the host's inactivity timer at any moment, a killed host | `TypeOK`, `RequestsInOrder`, `CloseMeansAll`, `CloseFlushesWrites`, `DrainLeavesNothing`, `ImplementsPipes` |
| `conn_live` | stream of 1 packet, channels of 1, writes 3/0, both may close, killed host, fairness | `CloseAnswered`, `BackToSelect`, `BothEnd` |

A channel of two messages lets a Close queue behind a message, and three messages
to a channel of two make the delivery block; with a stream of one packet every
send blocks in some behaviour, while a message is in each of stream, hand,
channel and cache.

A handler awaited in its arm of `select!` watches no timer and takes nothing from the
other channels, so queues that are full can stop a connection for good, and the code
promises less than one would like.  `InCircle` names the ways: a task delivers to a
full channel while its user waits for it in `write` or `close` (`UserAway`); both
tasks send into full streams; or one of each.  The three properties say that nothing
else keeps a close unanswered, a task in a handler or the other user at work.  With
one place in every queue and three messages `conn_live` reaches all three circles,
and every send and delivery blocks in some behaviour.

*Fairness* (`Connection!Fairness`).  The runtime polls every task that can go
on; the arms of `select!` for packets and for requests do not starve (SF), which
says nothing of a handler that waits for room; a close timeout that was started
expires.  The user keeps reading and finishes
what it began; nothing makes it write or close; no other timer has to fire.

### Sessions (MCSession)

| Run | Bounds | Shows |
|---|---|---|
| `session` | 2 processes, 2 opens, 1 message each way, 2 slots in the socket, signals, 2 daemons | `TypeOK`, `ExclusiveAccess`, `AnsweredByOwn`, `OwnBytesAfterQuiet` |
| `session_live` | 1 daemon, signals and failing allocations, fairness | `WritesReachOwnConn`, `OpenReturns`, `ConnectionsEnd` |
| `session_mix` | nothing fails | *violates* `OwnBytes` |

Every property here relates one session to another one, so two opens are the
smallest instance that means something: an old connection, answer or write beside a
new session; two daemons make one restart.  Three opens and more are what the proofs
are for.

The properties say what they exclude.  `cleaned`: REGISTER has removed a device that
a process had open; what the code does after that is use of freed memory.
`interrupted`: a signal has ended an open, which the daemon is not told, so that a
later opener can be let in by the earlier answer.  `closeLost`: a CLOSE_REQ was not
sent, which nobody repeats.  `OwnBytesAfterQuiet` speaks of sessions that began when
nothing of an earlier one was left in the daemon (`Remains`); for the others see
`session_mix`.

*Fairness* (`Session!Fairness`).  A system call that can go on does, the main loop
takes what is queued, actors run.  `DaemonOpened` is an assumption about the peer:
`connect` has a timeout, the handshake has none, and while it lasts the main loop
serves nobody.  Nothing is assumed of processes, signals, the peer's messages and
restarts, and nothing of the runtime's `write` and `close`, whose task may wait for
room that never comes (see `InCircle`).  That they return is the premise `CallsReturn`
of `ConnectionsEnd`; without it the property fails, since an actor then never ends.

### Wire format (MCCodec)

Run `codec`: two packets out of six, frames of at most four bytes, one deviation.
The packets are empty, exactly one frame, one byte more than a frame, two frames with
a valid header in the payload, and two kinds of control packets; the stream is cut
at every position.  It shows `NoFalseAlarm`, `AllReceived`, `DeviationNoticed` and
`ImplementsPipe`.  Two packets are enough for a frame of the next packet to sit behind
the last of the one before in the same read.  *Fairness*: `recv_packet` is called again
and again (`WF`), as the connection's task does; nothing is assumed of the peer.

### Host (MCHostTool, Bridge)

| Run | Bounds | Shows |
|---|---|---|
| `tool` | 2 processes, each command, killed at any moment; saves cut off at any place; a file and a link in the archive; 2 devices, one with an option; ports 1 and 12; 2 texts; an old configuration with an option of its own, or none | `TypeOK`, `BundleUsable`, `IndicesInRange`, `UntouchedKept`, `RunsWhatWasSaved` |
| `bridge` | 2 sessions of 4 pieces each way, pipes and channel of 2 | `TypeOK`, `ReachesDevice`, `ReachesPeer`, `ListensAgain` |

Two starts are enough for an extraction cut off at any step and the next process that
meets what it left, and for one that edits while the other one runs or deletes.
With two devices a save can be cut between two entries and inside either; of port 12
one digit may be missing.  Four pieces fill a pipe, the channel and the hand; the
second session would see what the first left over.  *Fairness* of Bridge: the host's
tasks run, a task that has returned is finished, and the device takes what it is
given, since a thread of its own does nothing else; no peer has to send or leave and no
device to produce.  `write` and `close` wait for the connection's task; they are
assumed to return only once it has ended (`HostWaits`), and `ListensAgain` speaks of
connections that have, and makes an exception of the panic of `read`.

CHECK_DEADLOCK is FALSE everywhere: sessions are finite (`TotalBytes`,
`MaxWrites`, `MaxTicks`, `MaxOpens`, `MaxData`, `MaxDaemons`, `MaxPackets`,
`MaxStarts`, `MaxPieces`, `MaxSessions` bound what peers, users and processes do),
and the system stops when they are over.

### What the violations say

* `flow_stall`: KFIFO_FULL leaves after the unlock (ncd.c:349-357), when the readers
  have been woken.  A reader can empty the kfifo, send the KFIFO_AVAILABLE of that read
  (ncd.c:634), read again, send the one of an empty kfifo (ncd.c:588) and sleep, all
  before KFIFO_FULL is queued; the daemon is inside the `sendmsg` of the same DATA
  message and finds the three in its socket afterwards.  It handles FULL last and stops
  reading the connection with nobody left to resume it.  No call fails on the way and
  no message is lost.
* `session_mix`: `ncd_open` clears the buffers before the daemon has handled the
  CLOSE_REQ of the session before; what the old connection delivered until then, and
  what its close returns later, is sent under the same minor and read by the new
  session.

### Observations

What the models show besides, under bounds other than those of the runs or without
a property of their own:

* With two threads on one descriptor, one can evaluate the wait condition between
  the other's `kfifo_out` and the drain, and sleep on data: `SleepersHaveNoData`
  holds for one reader only (MCFlow with two readers).
* A handler awaited in its arm of `select!` stops everything else: in the circles of
  `InCircle` no timer is watched, so a peer that has gone silent is not reported, which
  `timeout_ms` promises (config.rs:6), and no close is answered.  The code's
  channels have a million slots and the stream the socket buffers, so that much traffic
  is needed in reality.
* The same circles keep `connection_run` and `handle_connection` in `write` or `close`
  of the runtime, without a timeout (`CallsReturn`, `HostWaits`).
* The channels close when the Connection is dropped, before the JoinHandle is
  finished: a `read` in between panics (`ReadPanics`), a `close` or `write` returns
  Unknown and the messages delivered to the handler are gone (`CloseFails`).  On the
  host the panic ends `device_actor`, which only prints it (runtime.rs:52-54): that
  device accepts no further connection (`Bridge!ReadPanics`).
* `close` reports every error as `Ok(Ok(_))`; a reset while we wait for the peer's
  ControlClose ends `run` with Ok (`AwaitEnds`).
* A full netlink socket makes the driver forget a daemon that is alive
  (`send_to_daemon`).
* Two extractions of the bundle at the same time can leave a valid marker over an
  incomplete tree, which no later process repairs (`BundleUsable` without
  `~overlapped`).
* A save that is killed or meets a full disk may leave a file that parses and is run: the
  first devices, the last one with default options or a shorter port number
  (`SaveFails`, `IsCut`).
* A save drops the entries of devices that are not listed at the moment, and takes one
  layer of quotes off a path each time (`Settled`).

## 4. Proofs

TLAPS checks these for every value of the constants that satisfies the named
assumptions.  Each safety property and each safety refinement of section 3 has its
theorem; the runs show them on small instances.  The inductive invariants named below for
FlowStreamProofs, ConnectionProofs, CodecProofs, BridgeProofs and HostToolProofs also
hold in TLC on those instances (with `Nat` cut to an interval where they quantify
over it); `OrderInv` quantifies over all positions and is proved only.

### Flow control (FlowControlProofs, FlowStreamProofs)

| Theorem | States | Argument |
|---|---|---|
| `TypeCorrect` | `Spec => []TypeOK` | `TypeOK` is inductive.  It includes `Len(data_fifo) <= FIFO_SIZE`: a chunk is stored only if it fits. |
| `BacklogNeverStranded` | `Spec => []NoStrandedBacklog` | Strengthened with `ChunksFit`: every queued chunk fits an empty kfifo (`QueueHasRoom`).  So when a drain ends because the next chunk does not fit, the kfifo is not empty. |
| `NoLostWakeup` | one reader: `Spec => []SleepersHaveNoData` | The reader only falls asleep on an empty kfifo; the only step that fills it while it sleeps, DataStored, sets `wake_reader`, and DataWake wakes before it clears it. |
| `ReadsAreInOrder` | `Spec => []NoReordering` | A byte passes through seven places (`tcp_rx`, `unsharded`, the daemon's queue, `payload`, backlog, kfifo, `out`).  `OrderInv`: each is in order, and what is nearer to the application was sent earlier.  `out` alone is not inductive: what the next read appends comes from the kfifo.  Every step that moves bytes is an instance of the lemma `Move`. |
| `PendingBytesAreExact` | `Spec => []PendingBytesExact` | The backlog is a queue of chunks; adding one at the end or taking one off the front changes the length of its flattening by the length of the chunk.  Queueing, draining and drops only: clearing the buffers is a step of DriverSession, which does not count bytes. |
| `NothingIsLost` | `Spec => []NothingLost` | `Line`, all places one behind the other, is exactly the bytes sent so far.  A step moves bytes across one border between two places, so only ActorReads changes the line.  `CutUp` is the strengthening: what is being cut up is in front of the main loop only while it cuts. |
| `KernelBytesAreBounded` | `Spec => []KernelBytesBounded`, including that no chunk is dropped when the limit covers the bound and no allocation fails | `Credit`: the bytes the driver holds, what is left of the window, and one window for each KFIFO_AVAILABLE that is in the socket or still owed by a reader never exceed `KernelBound`.  Opening a window spends one of those messages; sending spends window.  A reader owes a message only after it has left the kfifo below the low watermark, which frees what the message will grant. |
| `PathImplementsPipe` | `KernelBound <= FIFO_PENDING_LIMIT` and no failing allocation: `Spec => ImplementsPipe` | By the two theorems before, `Line` is complete and nothing is dropped, so what a read adds to `out` is the next piece of the input. |

### Sessions (SessionProofs)

| Theorem | States | Argument |
|---|---|---|
| `SessionTypeCorrect` | `Spec => []TypeOK` | With two facts the types need: a further daemon may be started while none runs, and a process that has a file has an attempt. |
| `DeviceExclusive` | `Spec => []ExclusiveAccess` | `open_count` = 1 while somebody holds the device.  CREATE_DEV resets it too, but only for a minor without a device, and a device disappears under a holder only by REGISTER, which sets `cleaned`. |
| `QuietSessionsReadOwnBytes` | `Spec => []OwnBytesAfterQuiet` | While a process holds the device that found nothing of an earlier session, everything in the socket, the daemon, the actors and the driver's buffer is of its own attempt (`OwnOnly`). |
| `AnswersAreForTheOpener` | `Spec => []AnsweredByOwn` | At most one OPEN_REQ is outstanding, in the socket or in `Device::open`, and the process that waits is the one that sent it (`AnswerInv`). |
| `WritesGoToOwnConnection` | `Spec => []WritesReachOwnConn` | An OPEN_REQ is the last message of the socket, so the writes queued before it are handled before `write_tx` moves on; while a process has the file open, `write_tx` leads to its connection or nowhere (`WriteInv`, on top of the previous two). |

### Connections (ConnectionProofs)

| Theorem | States | Argument |
|---|---|---|
| `ConnTypeCorrect` | `Spec => []TypeOK` | With `WriteRoom` (a write that has begun is within its bound).  Both channels stay within `BufferSize`. |
| `RequestsKeepOrder` | `Spec => []RequestsInOrder` | `Ledger(e)`, for each endpoint on its own: a step of the other endpoint leaves it alone, most steps of the own task are `Quiet`, and the rest take, send or append one request. |
| `CloseComesLast` | `Spec => []CloseFlushesWrites` | From the same invariant: a Close is the last request, so `request_rx` is empty when the task takes it, and stays so, since the user waits (`UserCloses`). |
| `DrainComplete` | `Spec => DrainLeavesNothing` | Only `DrainStops` goes from `drain` to `drainClose`; then `request_rx` is empty or a single Close, and the ledger gives the equation. |
| `CloseHandsOverAll` | `Spec => []CloseMeansAll` | The messages of a direction are numbered.  `DInv` says of each endpoint what it knows of itself (`Local`: ledger, socket, cache) and what becomes of the peer's messages (`Path`): `Queues` (got, cache, channel count on from each other), `Way` (hand and wire go on where they end; a ControlClose is the last packet of a sender that sends no more; a reset may cut the wire, but then no Close is left on it), `Heard` (after the ControlClose everything sent has been delivered).  A `close` that returns Ok has handed on the cache. |
| `ConnectionIsTwoPipes` | `Spec => ImplementsPipes` | From `Queues`: what a read, an error or `close` hands over begins with the number after the last one the user has. |

### Wire format (CodecProofs)

| Theorem | States | Argument |
|---|---|---|
| `CodecTypeCorrect` | `Spec => []TypeOK` | The three buffers hold bytes, frames and packets *that were sent*, so this needs the invariant of the next two rows. |
| `NeverAFalseAlarm` | `Spec => []NoFalseAlarm` | `Wire`: there are packets `ps`, frames `F`, `G` and bytes `Z` such that received, buffered and `ps` are what was sent; the frames buffered and `F` are the fragments of `ps` and then `G`; the bytes buffered and those of the stream encode `F` and then come `Z`.  `G` and `Z` are empty until the peer deviates, and after that `Fatal`: no packet can be made of `G`, or only the beginning of one before a wrong header.  The lemmas `Taken` (the first frame of any such buffer is the first one encoded) and `FirstEnd` (the first frames up to an end are the oldest packet's) make every step of the two loops a step of `Wire`. |
| `CodecIsAPipe` | `Spec => ImplementsPipe` | The same invariant: `Pop` returns the next packet sent, `send_packet` feeds the pipe unless the peer has deviated, every other step stutters. |

The lemmas under them are results of their own: `PacketRoundTrip` (decode undoes
encode), `HeaderType`, `Fragments` (reassembling undoes fragmenting, for packets of any
length and every maximal payload: there are enough frames, only the last one ends, and
the pieces make up the whole).

### Host (BridgeProofs, HostToolProofs)

| Theorem | States | Argument |
|---|---|---|
| `BridgeProofs!TypeCorrect` | `Spec => []TypeOK` | Pipes and `data_rx` stay within their capacities. |
| `DeviceIsReached`, `PeerIsReached` | `Spec => []ReachesDevice`, `Spec => []ReachesPeer` | Pieces are numbered; `DownWay` and `UpWay` say where each queue of a direction starts, so that they go on from each other through connection, hand, pipe, reader task and channel; `Control` and `Ended` tie the position of `device_actor`, the reader task and the process to which of the queues can still grow. |
| `BundleAlwaysUsable` | `BundleSpec => []BundleUsable` | While extractions do not overlap, the one at work has every entry before its position whole, and nobody is through with `init` unless the tree is whole (`BundleInv`). |
| `UsesBundle`, `BundleUsableInTool` | `Spec => BundleSpec`; hence `Spec => []BundleUsable` | Every step of HostTool is a step of the bundle (`InitStart`, `BundleStep`, `ProcessEnds`) or leaves `bundleVars` alone. |
| `ToolTypeCorrect`, `IndicesStayInRange` | `Spec => []TypeOK`, `Spec => []IndicesInRange` | `EditorInv`: a row is selected only among those there are, a field only among those of its row, edited only if the row is enabled; rows made from a saved file have as many values as options. |
| `UntouchedEntriesSurvive` | `Spec => []UntouchedKept` | Of the port and the saved options.  While a row is untouched it is the one made from the loaded file, and `build_config` undoes that (`KeptIsSaved`) for every text a save leaves as it is (`Settled`). |
| `OnlySavedIsRun` | `Spec => RunsWhatWasSaved` | `FileInv`: the file says what was saved last, or, while that save is not complete, nothing or what is cut from it, and only one process is in an editor or a save.  `BeginningFacts`: what `load` makes of a part of the text is a configuration, cut from the saved one. |

### Assumptions

Those on the constants are named in the modules that declare them: sizes are positive,
bounds are numbers, watermarks lie as in the code (`KfifoAssumption`), threads are
finitely many (`ReadersAssumption`, for the credit argument counts those that owe a
message), an archive names no entry twice (`BundleAssumption`), what a text looks like
without quotes and blanks is again a text and the devices form a list
(`EditorAssumption`), the configurations found at first are ones the tool can have
written and a port without its last digits is a port again (`HostToolAssumption`), packets have the
fields the code gives them and what is foreign is `IsForeign` (`CodecAssumption`).  TLC
evaluates all of them in the runs.  Two theorems have hypotheses of their own:
`NoLostWakeup` speaks of one reader, and `PathImplementsPipe` of a backlog limit that
covers `KernelBound` and of allocations that succeed; without either a chunk is dropped,
as the code says.

`RequestsInOrder` is not about closing, but it is what makes the closing theorems
inductive: the equation `transmitted = written` alone says nothing while requests are
still queued.

### Only model-checked

Everything with fairness: `KernelDrained`, `EndToEnd`, `CloseAnswered`, `BackToSelect`,
`BothEnd`, `OpenReturns`, `ConnectionsEnd`, `AllReceived`, `DeviationNoticed`,
`ListensAgain`.  Liveness and ENABLED are out of the prover's reach.  Induction over
data is available only over sets (`NatSetInduction` in SequenceLemmas), which is how
strings of frames and pieces are handled; nothing the theorems speak of is RECURSIVE.

## 5. Not modelled

* *Runtime (configuration lock).*  `open` holds the read guard of the configuration
  while it waits for a connection.  Nothing in the daemon or the host tool calls
  `set_config`, so no writer ever waits for it.
* *GetStatus* and `get_status`: no program calls them.  DESTROY_DEV likewise is sent
  by nobody (`destroy_device` is dead code); what it does to a device is
  `DestroyDevice`, the part of REGISTER.
* *Time.*  A timer may fire at any moment its code allows; no property depends on a
  duration, and the 200 ms before the adapter is killed are no guarantee that it has
  processed what it was given.
* *Memory* of a device that REGISTER removes under a process: the model stops
  promising anything there (`cleaned`).
* *Start-up* of the daemon beyond registration and device creation (kernel module,
  configuration file), the listing of devices by adapters, and several devices in
  one host process, which share no state.
* *Clearing of the buffers* in the byte-exact model: FlowControl is one session with
  the device open, and `clear` of the kfifo and the backlog is a step of DriverSession,
  where both are one buffer.  Its effect on `pending_bytes` is not checked.
* *Receive errors* of the daemon's netlink socket (`ENOBUFS`, short messages).
* *In the configuration*: `device_name`, which a save takes from the listing, and the
  default options it adds; quotes and blanks are the only things a text is made of.
* Formatting and logging, TOML and terminal drawing, device I/O of the Python
  adapters, build scripts, benchmarks, demos.

## 6. Next

That the abstractions between the modules fit, which are stated in
prose so far, is worth proving.  Tcp takes a connection to be a pipe of packets, which is what
`CodecIsAPipe` says of Codec; Bridge takes a connection to be an inbox and an end, which
is what `ConnectionIsTwoPipes` and `CloseHandsOverAll` say of Connection; FlowControl
takes one session of what Session interleaves.  For properties under fairness, the safety
half: the states in which nothing more can happen are the ones in which everything has
been delivered.
