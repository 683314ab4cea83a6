# A TLA+ development for GoUblksrv

GoUblksrv serves Linux `ublk` block devices from Go. A C part (`ublkhelper.c`,
after ublksrv) drives an io_uring per hardware queue; a Go part (`c_bridge.go`,
`ublk.go`, `api.go`) hands each request to the application's `IOHandler` in a
goroutine and starts and deletes devices. This directory models the parts in
which threads, goroutines, processes and the driver meet, model-checks them
with TLC and proves all of their safety invariants with TLAPS.

## The system

| Component | State it keeps | Operations | What makes it correct |
|---|---|---|---|
| Queue I/O engine (`ublkhelper.c` 590-1137) | `q->ios[]` flags and results, `tgt_io_inflight`, `q->lock`, `cond`, `q->state`, the rings | `ublksrv_process_io`, `ublksrv_handle_cqe`, `ublksrv_queue_io_cmd`, idle enter/exit | one well-formed command per tag; no lost wake-up; every request ended; clean exit |
| Go bridge (`c_bridge.go` 37-84, `ublk.go`) | message pool `msgChan`, channel `requests`, `Request.Result` | `onRequestAsync`, its goroutine, `handleRequests`, `handleRead/Write/Unmap` | each request ended once, with its handler's outcome; buffers touched only while owned; messages returned |
| Device life cycle (`api.go`, `c_bridge.go` 86-164, `ublkhelper.c` 1105-1191, 1306-1346) | registry `devices`, global channel `Done`, `initDone`, the pid file, threads | `Start`, `startupC`, `ublksrv_start_daemon`, `Delete`, `cmd_dev_del` | a live device is served by its owner; `Start` reports failure; `Delete` returns, stops and removes |
| Control commands (`ublkhelper.c` 83-256, 385-476, 1193-1304) | the control ring, `ctrl_fd`, `dev_info.flags` | ADD_DEV, SET_PARAMS, GET_QUEUE_AFFINITY, START_DEV, GET_DEV_INFO2 and its fallbacks, STOP_DEV, DEL_DEV, GET_PARAMS | each result belongs to its command; the encoding fits the driver; a fallback for each version; descriptors closed |
| Queue layout (`ublkhelper.c` 477-576, 848-856) | none | depths, sizes, mmap offsets, `user_data`, `unsigned short` conversions | each queue sees its own descriptors; tags survive the round trip |
| Queue initialisation (`ublkhelper.c` 668-800) | a freshly allocated queue | `ublksrv_queue_init`, `ublksrv_submit_fetch_commands` | what is handed over does not depend on what `malloc` left |
| Request encoding (`ublkhelper.c` 859-1060, `c_bridge.go` 37-84, `ublksrv_tgt_endian.h`) | a message | I/O descriptor to `struct message` to `Request` | right handler, length and offset |
| Queries, CLI `list`/`info` | none | GET_DEV_INFO2, GET_PARAMS, print | -- |

How they interact. The queue thread calls `onRequestAsync` (cgo), which looks
the device up in the registry, takes a message from the pool and starts a
goroutine. That goroutine passes the message to the handler, waits, and calls
back into C (`ublksrv_complete_io`), which writes `q->ios[tag]` and the
submission ring. So the ring and the io table are shared between the queue
thread and all goroutines. Goroutines exclude each other with `q->lock`; the
queue thread does not take it. It sleeps until `tgt_io_inflight` is 0 before
it submits. When the driver aborts the fetch commands the thread leaves its
loop and calls `notifyShutdown`, which blocks until `deleteC` receives from
the process-wide channel `Done`.

What is hard: the lock-free submission, the increment that follows the start
of the goroutine it counts, early returns that keep a lock, a pool on which the
queue thread itself may block, the idle time-out racing a new request, a
goroutine that goes on after each failure, and rendezvous between processes.
`PROJECT.json` lists these hazards line by line.

## Modules

| Module | Content |
|---|---|
| `BlockDevice` | abstract specification: each request is accepted, handled once, ended once with the handler's outcome |
| `UblkQueue` | one queue: queue thread, goroutines, handler, rings, and the driver as the queue sees it (external) |
| `UblkQueueProofs` | theorems about `UblkQueue`: types, wake-ups, the barrier before the ring |
| `UblkQueueTokenProofs` | the remaining safety invariants of `UblkQueue`, from one token per tag |
| `UblkQueueRefinementProofs` | `UblkQueue` implements the safety part of `BlockDevice` |
| `DeviceLifecycle` | devices of one server process, `ublk del` in others, exit and restart of the server |
| `DeviceLifecycleProofs` | the safety invariants of `DeviceLifecycle` |
| `CtrlCommand` | one client of `/dev/ublk-control` against the versions of the driver |
| `CtrlCommandProofs` | the safety invariants of `CtrlCommand` |
| `QueueLayout`, `RequestCodec` | the pure parts: sizes and offsets; the encoding of a request |
| `QueueInit` | one queue from the application's numbers to its first requests; uses the two above, and hands over to `UblkQueue` |
| `QueueInitProofs` | the safety invariants of `QueueInit`, and the arithmetic they rest on |
| `MCUblkQueue`, `MCDeviceLifecycle`, `MCCtrlCommand`, `MCQueueInit` | instances for TLC |

`DeviceLifecycle` treats a control command as one step and a running queue as a
state; `CtrlCommand` and `UblkQueue` are what happens inside. `QueueInit` ends
where `UblkQueue` begins, and this is checked and proved: `HandsOver` instantiates
`UblkQueue` with the fields of the new queue and requires its `Init`.

Operators whose name begins with `fault_` are not part of any specification.
Each is a wrong version of the definition that follows it, and is substituted
for it to see that a property notices.

### UblkQueue

A step is one access of one thread to shared state. Accesses are merged only
where a lock makes them indivisible (the load of `tgt_io_inflight` and
`pthread_cond_wait`, under `cond_mutex`) or where only one thread can see the
data. The queue thread's position is `qpc`:

| `qpc` | code |
|---|---|
| process | `ublksrv_queue_is_done` at the top of `ublksrv_process_io` |
| test, asleep | the `while` around `pthread_cond_wait` |
| flush, submit, wait_cqe | inside `io_uring_submit_and_wait_timeout`: publish the tail, kernel consumes slots, wait |
| reap, request, count | `ublksrv_reap_events_uring`: a completion; inside `onRequestAsync`; the increment after it |
| discard | the `madvise` loop of `ublksrv_queue_discard_io_pages` |
| exit | `-ENODEV` returned |

A goroutine is identified with the message it carries: `gpc[m]` goes through
spawned, handling, replied, copy, mark, lock, reserve, fill, dec, signal,
unlock, return. `sq` holds slots handed out by `io_uring_get_sqe` and not yet
flushed, `ksq` flushed ones the kernel has not read, `cq` completions. A slot
that is flushed before it is filled is read as any command at all
(`KernelReads`), since a ring slot is reused memory.

The driver is modelled from how the code uses it: `drv[tag]` says who owns a
tag; a command that does not fit is completed with an error; requests are
dispatched in task work of the queue thread, once every tag has been fetched;
STOP_DEV waits for outstanding requests and then aborts the fetch commands.
With the flags `startupC` passes (none), NEED_GET_DATA and target I/O do not
occur. With the parameters `init_params` sets, neither FLUSH nor WRITE_ZEROES
are issued.

`op`, `handled`, `outcome` and `lost` record the fate of each request for the
properties and for the refinement mapping; no step reads them except for the
operation's kind.

### DeviceLifecycle

`daemon[d]` is the goroutine of `startupC` from `ublksrv_ctrl_init` to
`close(d.daemonDone)`, including that it goes on after a failed ADD_DEV or
SET_PARAMS. `app[d]` is the goroutine in `Start`, `thread[d][q]` are the queue
threads. A deletion has two goroutines: `call[c]` in `deleteC` and `del[c]` in
`cmd_dev_del`; `c` is a call of `Delete` in the server or a process that runs
`ublk del`. `notifyShutdown` is a rendezvous of a queue thread with a `deleteC`
in the same process. `startupC` never sets `dev_id`, so all Starts ask for
device 0 and the registry, the pid file and the driver have one entry
(`registry`, `pidFile`, `kdev`). The driver lets `/dev/ublkc0` be opened once,
and DEL_DEV waits until it is closed, which only the exit of the server does.

`Delete` may come at any time after `Start` has returned nil, which is before
the device is live, and `ublk del` at any time at all. What STOP_DEV does to a
device that START_DEV is still waiting for is not determined by this
repository, so it is a choice between nothing and stopping it. `Exit` is the
end of `main` or the death of the process at any point; `Restart` starts a new
one, which finds the driver's device and the pid file as they were left.

### CtrlCommand

A session is what one `ublksrv_ctrl_dev` is used for: `serve` (`startupC` and
`ublksrv_start_daemon`), `del` (`cmd_dev_del`) or `info` (`getDeviceInfo`).
`todo` holds the commands the present function still has to try: two encodings
for ADD_DEV and GET_DEV_INFO, which are sent before the driver's flags are known
(`Both`), one for the others, translated according to `info`. `pc` goes
through issue, wait and return in `__ublksrv_ctrl_cmd`. A submit may fail and
leave its entry in the ring, a wait may be interrupted (it is repeated) or fail;
each such failure is a slip, and later commands may then be handed the result of
an earlier one. GET_DEV_INFO2 that is handed such a result copies whatever its
buffer on the stack held. `ublksrv_start_daemon` may end a `serve` session before
START_DEV, for want of memory or of `/dev/ublkc0` (`daemon_fails`).

The driver (external) accepts the ioctl numbers, the legacy numbers or both, and
may or may not know GET_DEV_INFO2; a device may be unprivileged, and then wants
its path with every command. Other processes add and delete the device. `learned`
and `why` record, for the properties, whether the flags the client has are those
of the present device, and why its earlier attempts failed.

### QueueInit

`startupC` converts what the application asked for (`QueueLayout`), and the
driver takes or refuses it. Then one queue thread runs `ublksrv_queue_init` on
memory from `malloc`: `q->lock`, `cond_mutex`, `cond` and `tgt_io_inflight` have
any content, and the fetch commands lock the first, count down the last and, when
the count happens to pass 1, use the other two, all before they are initialised,
as the code does. A mutex or condition variable is `"free"`, as its
initialisation leaves it, or `"bad"`, any other bytes; a call on a bad one may
return, wait for ever or abort the process (`UsesGarbage`, `fetch_blocks`).
`ios[].result` is written by nobody and starts as `"UNSET"` in `UblkQueue`. Each
resource may be refused.

Nothing checks `q_id` against the 32 entries of `dev->__queues`. If the driver
grants more queues than that, the thread of queue 32 writes over the fields of
`dev` behind the array, which all threads use; from then on nothing is said of
any of them (`queue_overflow`, `pc = "undefined"`). The first requests
are built from the limits `init_params` sets, encoded and decoded by
`RequestCodec`, in which 32- and 64-bit numbers are sequences of bytes, so that
shifts lose what they lose in C.

Assumed, and named in the modules: at least one processor (`CpusAssumption`),
fewer than 2^31 sectors (`SizeAssumption`), a page size that is not 0
(`PageAssumption`).

## Runs

| Run | Bounds | Shows |
|---|---|---|
| `q_safety` | depth 2, ring 2, 2 messages, 3 requests, READ and UNMAP | all safety invariants below, no deadlock |
| `q_live` | depth 2, 2 messages, 2 READs, fair | requests complete, STOP_DEV ends the thread, `BlockDevice` is implemented |
| `q_pool` | depth 2, 1 message, 3 WRITEs, fair | a queue thread that waits for a message is not stuck |
| `life_serve` | 2 devices, 1 queue, 1 Delete, 1 `ublk del`, 1 restart, all steps of Start may fail, fair | registry and pid file while a device is live, what Start's nil and Delete's return mean, Delete returns, the daemon winds down |
| `ctrl` | 2 queues, 2 ring slots, 2 slips, 1 signal, all driver versions and sessions, fair | results, encodings, fallbacks, descriptors, every session ends |
| `init` | 4 numbers of queues, 8 depths, 2 page sizes, machines of 1 and of 33 processors, fair | the hand-over to `UblkQueue`, mapping, decoding of requests, initialisation succeeds |
| `q_sticky`, `q_premature`, `q_idle`, `life_hijack`, `life_remove`, `life_cli` | as small as the behaviour needs | disagreements, next section |

Bounds. Two tags and two goroutines are the least with which one goroutine
fills a slot while another counts itself off, and with which the counter passes
1 in both directions. Three requests make a tag and a message be used a second
time. One message for two tags is the least pool that blocks the queue thread.
READ is the operation with a copy, UNMAP the one with a result of its own;
WRITE takes the path of READ without the copy. Message symmetry is used in the
safety run only.

Two devices are the least that meet in the registry; a restart gives the second
incarnation a leftover device and pid file. The control ring has 32 slots in the
code and 2 in the run: two slips fill it, so that the path without a free slot
is taken. The numbers of `init` are those around which something changes: zero
and below (defaults), 1, 3 (not a power of two), 171 (one page of descriptors is
170), 4096 and 4097 (the driver's limit), 65536 and 65537 (cut to 0 and 1). 33
queues, one more than `dev->__queues` holds, are asked for with depth 3 only:
granted on the machine of 33 processors, cut down to 1 on the other.

Fairness. `UblkQueue!Fairness` says that the queue thread and each goroutine
that can go on do (kernel and Go scheduling, a handler that returns), and that
the driver finishes the aborts of a STOP_DEV. There is no fairness for the
arrival of requests, for stopping, for signals or for spurious wake-ups. The
time-out of the wait is under the queue thread's fairness, since the kernel
does return from it; without a request and in the idle state nothing happens,
as in the code. `DeviceLifecycle!FairSpec` has the same for goroutines and
threads; the application is not obliged to do anything. `CtrlCommand!FairSpec`
makes the client go on and the driver answer, except to START_DEV and DEL_DEV,
which wait for others; nothing is assumed of failures, signals and other
processes. `QueueInit!FairSpec` is fairness of the queue thread.

Deadlock is checked in `UblkQueue` where handlers succeed: the only final
states are those of a queue that has exited (`Terminated`). It is off in
`DeviceLifecycle`, `CtrlCommand` and `QueueInit`: an application may be done or
have failed to start, a session ends, and initialisation may fail; that nothing
stops earlier is said by their liveness properties.

### Invariants of the queue

- `NoTornSqe`, `BarrierInv`: the barrier of `tgt_io_inflight` is as good as a
  lock for the submission ring, although the increment comes after the start of
  the goroutine.
- `NoLostWakeup`: the decrement is outside `cond_mutex`, the signal inside.
- `OneCommandPerTag`, `LockNotLeaked`: none of the early returns of
  `ublksrv_queue_io_cmd` is taken, and the driver rejects nothing.
- `CommitsHandlerResult`, `BufferWrittenWhileOwned`, `DiscardSparesHandledIo`,
  `CleanExit`: results, buffers and the end of the loop. At its end requests are
  ended, nothing is counted or unsubmitted, and the goroutines that are left only
  have to signal, unlock and return their message; fetch commands and completions
  of other tags may remain, since the first ABORT ends the loop.
- `TokenInv`: the inductive invariant behind the last two lines (see Proofs).

All are checked with handlers that do not fail. When they do, several are false
(below, under the disagreements), except `TypeOK` and `NoLostWakeup`, which are
proved in general.

### Properties of the other modules

Device life cycle:

- `RegistryWhileLive`: the early return of `onRequestAsync` for an unknown
  device, which would leave a request in flight for ever, is not taken while a
  device is live, although every `unregisterDevice` clears the one entry.
- `PidFileWhileLive`, `StartMeansAdded`, `DeleteMeansStopped`: hold through
  early deletions, crashes and restarts. The last one rests on `/dev/ublkc0`
  never being closed.
- `LifeInv`: the inductive invariant behind these.
- `DeleteReturns`, `DaemonWindsDown`: stated for a command that finds the
  device live. A Delete that comes earlier may remove the device before
  there is a queue thread, and then waits on `Done` for ever; so does one that
  runs in another process. With more queues than Deletes a thread stays in
  `notifyShutdown`, and the daemon waits for it: `DaemonWindsDown` allows that
  only while no Delete of the process is there to receive.

Control commands:

- `OwnResult`: without slips, results and commands are in step, and the ring is
  empty between commands; each slip leaves exactly one command behind.
- `EncodingRight`, `FallbackReachesDriver`: no version of the driver and no kind
  of device makes the client speak an encoding that is not understood.
- `FdsReleased`: of deletions and queries; the `serve` session keeps its client.
- `ClientInv`: the inductive invariant behind these.
- `SessionEnds`: also after slips, and with a full ring.

Queue initialisation:

- `HandsOver`: the queue returned is the initial state of `UblkQueue`, whatever
  the memory held, if it is returned at all.
- `BuildInv`: the inductive invariant behind `HandsOver` and `MapsOwnQueue`, with
  the safety half of the next property.
- `InitSucceeds`: only a refused resource, a pthread call on bytes that were not
  initialised, or more than 32 queues keep a queue from coming up; no depth makes
  the fetch commands run out of ring slots.
- `MapsOwnQueue`, `RequestDecoded`, `NoSilentSuccess`: offsets, lengths, and no
  request reported as done that no handler has seen. FLUSH and WRITE_ZEROES
  would be, and are kept out by `init_params` alone. `RequestDecoded` is about
  little-endian machines; on others it is false.

## Where the code and its documentation disagree

Each is a run that TLC refutes.

- `q_sticky`: `Request.Result` is never reset, so one error makes later
  requests with the same message fail.
- `q_premature`: the `-EIO` branch falls through, and the second completion
  commits the tag's next request before its handler has run. It may also find
  the ring full, and the early return then keeps `q->lock` and the queue stops:
  with `HandlerMayFail` set to TRUE, `LockNotLeaked` fails.
- `q_idle`: a WRITE dispatched between the idle time-out and the `madvise` loop
  is read as zeroes. What is handled, or done, at that moment is safe
  (`DiscardSparesHandledIo`).
- `life_hijack`: a second device in the process takes the first one's place in
  the registry.
- `life_remove`: Delete may return, and the process exit, before DEL_DEV.
- `life_cli`: `ublk del` never returns.

## Proofs

Every safety invariant a run checks is also a theorem, for every value of the
constants that the named assumptions of the modules allow. TLC has checked each
inductive invariant first, as an invariant of the run of its module. A proof
that an invariant is kept has one lemma or case per action; facts about sizes of
sets, sequences and numbers that several actions need are lemmas of their own.

### The queue (`UblkQueueProofs`, `UblkQueueTokenProofs`)

For every depth, ring of at least that size, finite non-empty pool, request
bound and set of operations:

- `TypeCorrect`, `WakeupNeverLost`: `TypeOK` and `NoLostWakeup`, handlers failing
  or not. The counter falls to 0 only in a step that goes on to signal, and a
  signal finds the thread asleep or moves it nowhere.

The others have the hypothesis `HandlerMayFail = FALSE`: with failing handlers
they are false, as `q_premature` and `q_sticky` show.

- `BarrierCorrect`, `TornFree`: `BarrierInv` and `NoTornSqe`. `NoTornSqe` is not
  inductive: that no goroutine is filling a slot when the ring is flushed follows
  from `inflight = 0` only if the counter bounds the number of pending
  goroutines. `InflightCounts` says so, with a correction of one between the
  start of a goroutine and its increment; `Barrier` carries the fact from the
  test to the first completion reaped; `SlotsFilled` ties unfilled slots to
  goroutines that fill; `NoFailure` makes each goroutine count itself off once.
- `TokensKept`: `TokenInv`. A tag has one token, which is at any time in one of
  these places: with the driver, in a completion, with the queue thread (between
  reaping and `onRequestAsync`), with a goroutine, or in the submission ring.
  `OnePlace` and `OneToken` say that no tag is in two places or twice in one,
  `DriverAgrees` that the driver's view of the tag is the one that belongs to the
  place, `RequestsOnTags`, `HandledByPlace` and `ResultsStored` what is known of
  the tag's request, handler and result there, `LockHeld` and `InflightExact` who
  holds `q->lock` and what is counted, `StopOrder` that aborts come after the
  last request. The barrier is needed in it: a flush must not move a token whose
  slot is not yet filled.
- From the token: `CommandsAccepted` (`OneCommandPerTag`), `ResultsCommitted`
  (`CommitsHandlerResult`), `CopyWhileOwned` (`BufferWrittenWhileOwned`),
  `LockReleased` (`LockNotLeaked`: as many slots as tags, so the ring is never
  full when a goroutine asks), `DiscardHarmless` (`DiscardSparesHandledIo`),
  `ExitClean` (`CleanExit`).

### The refinement (`UblkQueueRefinementProofs`)

`QueueImplementsDevice`: `Spec => Device!Spec`, when handlers do not fail. A
`Dispatch` of the driver is `Submit`, the return of the handler (`handle`) is
`Handle`, and the driver's reading a COMMIT from the ring (`consume_sqe`) is
`Complete`, which needs `TokenInv` to know that the result in the slot is that of
the request's own handler. All other steps leave the status of every request as
it is. The fairness of `BlockDevice` is not part of the theorem; TLC checks it
(`ImplementsDevice`).

### The life cycle (`DeviceLifecycleProofs`)

For any sets of devices, queues, Deletes and `ublk del` processes, any number of
restarts, and any choice of failing steps:

- `LifecycleCorrect`: `LifeInv`. `OneOpener`: the daemon that opened `/dev/ublkc0`
  keeps it until the process exits, so only its threads run. `StoppedForGood`: a
  device is live only while that daemon joins its threads, and a thread or a
  Delete that has seen it stop will not see it live again. `ReadyToServe`: on its
  way there a daemon has filled the registry and written the pid file.
  `FirstVerdict`: what `Start` receives first is the verdict on ADD_DEV, because
  a daemon that goes on after a failure is held up by its unread report.
- From it: `LifecycleTypes`, `RegistryFilled`, `PidFileKept`, `StartTellsTruth`,
  `DeleteStops`.

### Control commands (`CtrlCommandProofs`)

For any number of queues, ring size, slips and signals, and each version of the
driver:

- `ControlCorrect`: `ClientInv`. `Programme` and `NoRepeat`: a session sends its
  commands in a fixed order and none twice, so that the ring may be counted as a
  set. `RingCount`: it holds the commands given up and the one waited for.
  `OwnAnswer`: without a slip the one completion is that of the one command.
  `FlagsKnown`: then the flags used are those of the device, once it has told
  them. `ReasonHeard`: a command that the driver understands was answered with a
  reason, and the attempts made include one if any can.
- From it: `ControlTypes`, `ResultsMatched`, `EncodingChosen`,
  `FallbackComplete`, `DescriptorsClosed`.

### Queue initialisation (`QueueInitProofs`)

For all integers an application may ask for, all contents of fresh memory, page
sizes and numbers of processors:

- `BuildCorrect`: `BuildInv`. `Agreed`: the numbers of a queue are those the
  driver took, and bounded by what was asked for and by the processors. `Filled`: each field gets its value in the order of
  `ublksrv_queue_init`; with `Agreed`, the ring has a slot for each tag when the
  fetch commands are queued, so none of them returns with `q->lock` held.
  `Excused`: a failure has a refused resource behind it, a thread that hangs a
  pthread call on bytes that were not initialised, and an overrun of
  `dev->__queues` more than 32 queues asked for and more than 32 processors
  (`NoMoreQueues`: the conversion to `unsigned short` never asks for more).
- From it: `BuildTypes`; `QueueHandedOver`, in which the instance of `UblkQueue`
  is expanded and its `Init` proved; `OwnQueueMapped`, from lemmas on `round_up`
  and on offsets (`RoundUp`, `Multiple`).
- `NothingSilent` and `DecodeCorrect` need no invariant: a request is decoded in
  one step. `ShiftBack` says that a shift by 9 in 4 or 8 bytes loses nothing of a
  length or a place. `DecodeCorrect` has the hypothesis that the machine is
  little-endian: on another the bytes `__longhorn_build_req` swaps are read
  unswapped by the handler.

### Only model-checked

- Liveness, which this prover does not do: `RequestsComplete`, `StopExits`,
  `MessagesReturn`, the fairness in `ImplementsDevice`, `DeleteReturns`,
  `DaemonWindsDown`, `SessionEnds`, `InitSucceeds` (its safety half is
  `Excused`).
- The refuted runs of the previous section, and deadlock.

## Not modelled

- Payload bytes, logging, parsing of arguments, printing, the fields copied into
  `DeviceInfo`, the file handler of the example: no control in them.
- Affinity, thread priorities, io-wq workers: they change when things happen,
  not what happens; the models allow every order.
- Memory errors, recorded as hazards: `info_array` freed under its threads after
  a failed START_DEV, the uninitialised `efd` that is written to when a queue is
  stopping, the uninitialised `pid_fd` that is closed when the pid file cannot
  be opened, unchecked results of `malloc`, and what happens after
  `dev->__queues` has been overrun (that it happens is in `QueueInit`).
- An error of `io_uring_submit_and_wait_timeout` that leaves flushed slots
  unread. `ublksrv_process_io` ignores it and submits again in its next round;
  in `UblkQueue` the kernel has read all of `ksq` before the call returns.
- Target I/O, NEED_GET_DATA and zero copy: `startupC` passes no flags, so this
  code of ublksrv is not reached.
- Devices of 2^31 sectors (1 TiB) and more.

## Plan

1. done: `UblkQueue`, `BlockDevice`, `DeviceLifecycle` and the first theorems.
2. done: `CtrlCommand`, `QueueLayout`, `RequestCodec`, `QueueInit`; early
   deletion, two devices, crash and restart in `DeviceLifecycle`.
3. done: theorems for all safety invariants of `UblkQueue`, `DeviceLifecycle`,
   `CtrlCommand` and `QueueInit`, and for the safety part of `ImplementsDevice`.
4. `QueueHandedOver` and the theorems of `UblkQueue` joined: the assumptions of
   `UblkQueue` on its constants, for the depth and the ring that `QueueInit`
   hands over, as a theorem of `QueueInit`.
5. In `UblkQueue`, a submission that fails half-way: `ksq` would count as occupied
   for `io_uring_get_sqe` and `io_uring_sq_ready`, and liveness would need that
   not every submission fails.
6. What of the invariants survives a failing handler: the part of `TokenInv` that
   concerns tags none of whose requests has failed.
