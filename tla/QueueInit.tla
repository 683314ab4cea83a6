------------------------------ MODULE QueueInit ------------------------------
(***************************************************************************)
(* One queue from the numbers given to NewUblkDevice to its first request: *)
(* the conversions of startupC, what the driver accepts, then              *)
(* ublksrv_queue_init in a thread of its own, with the memory it uses      *)
(* before it has initialised it, and the first I/O descriptor decoded.     *)
(* The queue that ublksrv_queue_init returns is the one UblkQueue starts   *)
(* from.                                                                   *)
(***************************************************************************)
EXTENDS QueueLayout, RequestCodec

CONSTANTS
    Asked,      \* UblkParams.Queues and QueueDepth an application may give
    CpuCounts,  \* processors a machine may have
    PageSizes,  \* of the machine
    Host,       \* its byte order
    DevSectors, \* size of the device
    Garbage     \* what malloc may leave in an int

ASSUME AskedAssumption == Asked \subseteq [queues : Int, depth : Int]
ASSUME CpusAssumption == CpuCounts \subseteq Nat \ {0}
ASSUME HostAssumption == Host \in {"little", "big"}
ASSUME GarbageAssumption == Garbage \subseteq Int
\* Shl9 is the shift of a number below 2^31.
ASSUME SizeAssumption == DevSectors \in Nat \ {0} /\ DevSectors <= 2147483647
ASSUME PageAssumption == PageSizes \subseteq Nat \ {0}

DEF_BUF_SIZE == 524288
RDataCap == 512 * 1024          \* make([]byte, Blocks*1024)

VARIABLES
    pc,
    asked,     \* what the application asked for
    page,      \* getpagesize()
    cpus,      \* processors of the machine: the driver gives no more queues
    info,      \* dev_info
    q_id,
    lacking,   \* history: has a resource been refused?
    \* struct _ublksrv_queue
    lock, cond_mutex, cond,  \* as their pthread_ initialisation leaves them?
    inflight,  \* tgt_io_inflight
    mapped,    \* whose descriptors io_cmd_buf shows
    flags,     \* ios[].flags
    entries,   \* slots of the ring
    sq,        \* user_data of the commands in it
    \* the first request
    iod, msg

configVars == <<asked, page, cpus, info, q_id>>
queueVars  == <<lock, cond_mutex, cond, inflight, mapped, flags, entries, sq>>
requestVars == <<iod, msg>>
vars == <<pc, lacking, configVars, queueVars, requestVars>>

FETCH_REQ == 32                 \* UBLK_IO_FETCH_REQ

None == -1
\* A mutex or a condition variable that nobody uses, or any other bytes: a call
\* on those may return, wait for ever, or abort the process.
PthreadStates == {"free", "bad"}
Tags == 0 .. info.queue_depth - 1

\* Every field keeps its type: a thread has the number of one of the driver's
\* queues, and the ring holds no more commands than it has slots.
TypeOK ==
    /\ pc \in {"start", "rejected", "malloc", "mmap", "bufs", "ring", "fetch", "hung",
               "publish", "ready", "served", "failed", "undefined"}
    /\ asked \in Asked /\ page \in PageSizes /\ cpus \in CpuCounts
    /\ info \in [nr_hw_queues : 0 .. USHRT_MAX, queue_depth : 0 .. USHRT_MAX]
    /\ q_id \in 0 .. USHRT_MAX
    /\ pc \notin {"start", "rejected"} => q_id < info.nr_hw_queues
    /\ {lock, cond_mutex, cond} \subseteq PthreadStates
    /\ inflight \in Int
    /\ mapped \in {None} \cup 0 .. USHRT_MAX
    /\ flags \in Seq(SUBSET {"NEED_FETCH", "FREE"})
    /\ entries \in 0 .. UBLK_MAX_QUEUE_DEPTH /\ sq \in Seq(Nat) /\ Len(sq) <= entries
    /\ lacking \in BOOLEAN

Unmalloced == /\ lock = "free" /\ cond_mutex = "free" /\ cond = "free" /\ inflight = 0
              /\ mapped = None /\ flags = <<>> /\ entries = 0 /\ sq = <<>>

NoRequest == [op_flags |-> 0, nr_sectors |-> 0, start_sector |-> 0, tag |-> 0]

Init ==
    /\ pc = "start" /\ lacking = FALSE
    /\ asked \in Asked /\ page \in PageSizes /\ cpus \in CpuCounts
    /\ info = [nr_hw_queues |-> 0, queue_depth |-> 0] /\ q_id = 0
    /\ Unmalloced
    /\ iod = NoRequest
    /\ msg = [Size |-> U32(0), Seq |-> U32(0), Type |-> U32(100), Offset |-> Shl9(0, 8),
              WData |-> U32(0)]

----------------------------------------------------------------------------
(* Start *)

\* ADD_DEV as the driver treats it (external).
Accepted(i) == i.queue_depth \in 1 .. UBLK_MAX_QUEUE_DEPTH /\ i.nr_hw_queues > 0
Granted(i) == [i EXCEPT !.nr_hw_queues = IF @ > cpus THEN cpus ELSE @]

\* (fault) one thread too many
fault_Qids(n) == 0 .. n

\* The loop of demo_null_io_handler that creates the queue threads.
Qids(n) == 0 .. n - 1

startupC ==
    LET i == [nr_hw_queues |-> nr_hw_queues(asked.queues),
              queue_depth |-> queue_depth(asked.depth)]
    IN /\ pc = "start"
       /\ \/ /\ Accepted(i) /\ info' = Granted(i)
             /\ pc' = "malloc" /\ q_id' \in Qids(info'.nr_hw_queues)
          \/ ~Accepted(i) /\ info' = i /\ pc' = "rejected" /\ q_id' = q_id
       /\ UNCHANGED <<lacking, asked, page, cpus, queueVars, requestVars>>

----------------------------------------------------------------------------
(* ublksrv_queue_init *)

At(from, to) == pc = from /\ pc' = to /\ UNCHANGED <<configVars, requestVars>>

\* goto fail, when the system refuses a resource.
Refused(from) == At(from, "failed") /\ lacking' = TRUE /\ UNCHANGED queueVars

\* malloc does not clear what it returns; the pointer goes to dev->__queues.
queue_malloc ==
    /\ q_id < MAX_NR_HW_QUEUES /\ At("malloc", "mmap")
    /\ lock' \in PthreadStates /\ cond_mutex' \in PthreadStates /\ cond' \in PthreadStates
    /\ inflight' \in Garbage
    /\ UNCHANGED <<lacking, mapped, flags, entries, sq>>

\* Nothing checks q_id against the length of dev->__queues.  The thread of a
\* queue that is not in it writes over the fields behind it, which all threads
\* read: after that nothing can be said of any of them.
queue_overflow ==
    /\ info.nr_hw_queues > MAX_NR_HW_QUEUES
    /\ pc \notin {"start", "rejected", "undefined"} /\ pc' = "undefined"
    /\ UNCHANGED <<lacking, configVars, queueVars, requestVars>>

\* mmap of /dev/ublkc0: the driver finds the queue by the offset (external).
queue_mmap ==
    LET off == cmd_buf_off(q_id, info.queue_depth, page)
    IN \/ /\ At("mmap", "bufs")
          /\ mapped' = off \div queue_max_cmd_buf_sz(page)
          /\ UNCHANGED <<lacking, lock, cond_mutex, cond, inflight, flags, entries, sq>>
       \/ Refused("mmap")

\* The loop over ios[]: a buffer for each tag.
alloc_bufs ==
    \/ /\ At("bufs", "ring")
       /\ flags' = [t \in 1 .. info.queue_depth |-> {"NEED_FETCH", "FREE"}]
       /\ UNCHANGED <<lacking, lock, cond_mutex, cond, inflight, mapped, entries, sq>>
    \/ Refused("bufs")

\* io_uring_queue_init_params rounds up to a power of two, and refuses 0.
RingSizes == {1, 2, 4, 8, 16, 32, 64, 128, 256, 512, 1024, 2048, 4096}
RingEntries(n) == CHOOSE e \in RingSizes : e >= n /\ \A f \in RingSizes : f >= n => f >= e

\* The target has no I/O of its own: tgt_ring_depth is 0 and there is no
\* eventfd.  io_uring_register_files may fail as well.
ring_init ==
    LET n == ring_depth(info.queue_depth, 0)
    IN \/ /\ n > 0 /\ At("ring", "fetch")
          /\ entries' = RingEntries(n)
          /\ UNCHANGED <<lacking, lock, cond_mutex, cond, inflight, mapped, flags, sq>>
       \/ At("ring", "failed") /\ lacking' = (n > 0) /\ UNCHANGED queueVars

\* (fault) leaves the last tag out
fault_Fetches == info.queue_depth - 1

\* The tags whose fetch command finds a slot in the ring.
Fetches == IF info.queue_depth < entries THEN info.queue_depth ELSE entries

\* ublksrv_queue_io_cmd calls pthread functions on what malloc left: on q->lock
\* for each tag, on cond_mutex and cond if the count happens to pass 1.
UsesGarbage == \/ lock = "bad"
               \/ inflight \in 1 .. Fetches /\ "bad" \in {cond_mutex, cond}

\* The thread waits for a lock of its own: a tag that found the ring full has
\* returned with q->lock, and another one follows.
FetchBlocks == lock = "free" /\ info.queue_depth > entries + 1

\* ublksrv_submit_fetch_commands
ublksrv_submit_fetch_commands ==
    /\ ~FetchBlocks /\ At("fetch", "publish")
    /\ sq' = [i \in 1 .. Fetches |-> build_user_data(i - 1, FETCH_REQ)]
    /\ flags' = [i \in 1 .. info.queue_depth |-> IF i <= Fetches THEN {} ELSE flags[i]]
    /\ inflight' = inflight - Fetches
    /\ UNCHANGED <<lacking, lock, cond_mutex, cond, mapped, entries>>

\* A call that does not return, or that ends the process.
fetch_blocks == (FetchBlocks \/ UsesGarbage) /\ At("fetch", "hung") /\ UNCHANGED <<lacking, queueVars>>

\* (fault) was set before the fetch commands only
fault_atomic_init == inflight

atomic_init == 0

\* atomic_init and the pthread_ initialisations that come last.
publish ==
    /\ At("publish", "ready")
    /\ inflight' = atomic_init
    /\ lock' = "free" /\ cond_mutex' = "free" /\ cond' = "free"
    /\ UNCHANGED <<lacking, mapped, flags, entries, sq>>

ublksrv_queue_init ==
    \/ queue_malloc \/ queue_overflow \/ queue_mmap \/ alloc_bufs \/ ring_init
    \/ ublksrv_submit_fetch_commands \/ fetch_blocks \/ publish

----------------------------------------------------------------------------
(* The first request *)

params == init_params(DEF_BUF_SIZE, DevSectors)

\* The block layer issues what the parameters allow (external).
Limit(op) == CASE op \in {"READ", "WRITE"} -> params.max_sectors
               [] op = "DISCARD" -> params.max_discard_sectors
               [] op = "WRITE_ZEROES" -> params.max_write_zeroes_sectors
               [] op = "FLUSH" -> IF "VOLATILE_CACHE" \in params.attrs THEN 1 ELSE 0

Smaller(a, b) == IF a < b THEN a ELSE b
Lengths(op) == {n \in {1, 8, Limit(op)} : 0 < n /\ n <= Smaller(Limit(op), DevSectors)}

\* demo_handle_io_async, onRequestAsync and handleRequests, one request at a
\* time, on the last tag and with a single message; flags such as FUA may be
\* set in op_flags.
demo_handle_io_async ==
    /\ pc \in {"ready", "served"} /\ pc' = "served"
    /\ \E op \in DOMAIN UBLK_IO_OP, fua \in {0, 32} :
         \E n \in Lengths(op) : \E start \in {0, DevSectors - n} :
           iod' = [op_flags |-> UBLK_IO_OP[op] + 256 * fua, nr_sectors |-> n,
                   start_sector |-> start, tag |-> user_data_to_tag(sq[Len(sq)])]
    /\ LET type == req_to_longhorn_cmd_type(iod')
           req == longhorn_build_req(iod', iod'.tag, type, Host)
       IN msg' = Decode(req, iod', type, msg.WData)
    /\ UNCHANGED <<lacking, configVars, queueVars>>

Next == startupC \/ ublksrv_queue_init \/ demo_handle_io_async

Spec == Init /\ [][Next]_vars

\* The queue thread goes on while it can; requests come or do not.
FairSpec == Spec /\ WF_vars(startupC) /\ WF_vars(ublksrv_queue_init)

----------------------------------------------------------------------------
(* Properties *)

\* A command of the ring, as the driver's completion will name it.
FetchOf(user_data) ==
    [cmd |-> IF user_data_to_op(user_data) = FETCH_REQ THEN "FETCH" ELSE "unknown",
     tag |-> user_data_to_tag(user_data), res |-> "ZERO", filled |-> TRUE]

\* UblkQueue with d tags; what it keeps besides the fields of this module has
\* not been touched: ios[].result is as malloc left it.
Queue(d) == INSTANCE UblkQueue WITH
    QueueDepth <- d, SqEntries <- d, Messages <- {"m"}, MaxRequests <- 0,
    Ops <- {"READ"}, HandlerMayFail <- FALSE,
    qpc <- "process", cur <- 0, ret <- "OK", reaped <- FALSE, idle <- FALSE,
    stopping <- FALSE,
    flags <- [t \in 0 .. d - 1 |-> flags[t + 1]], result <- [t \in 0 .. d - 1 |-> "UNSET"],
    lock <- (lock # "free"), sq <- [i \in 1 .. Len(sq) |-> FetchOf(sq[i])],
    ksq <- <<>>, cq <- <<>>, gpc <- [m \in {"m"} |-> "free"],
    msg <- [m \in {"m"} |-> [tag |-> 0, req |-> 0, result |-> 0, phase |-> "DONE"]],
    drv <- [t \in 0 .. d - 1 |-> "idle"], iod <- [t \in 0 .. d - 1 |-> 0], issued <- 0,
    stopped <- FALSE, op <- <<>>, handled <- <<>>, outcome <- <<>>, lost <- {}

\* Whatever was in the memory q was allocated from, a queue that
\* ublksrv_queue_init returns is in the initial state of UblkQueue, with as
\* many tags as the application asked for if the driver allows so many, and
\* with a slot for each: although the fetch commands have counted down from
\* garbage under a lock that was not initialised.
HandsOver ==
    pc = "ready" => \E d \in {info.queue_depth} :
        /\ asked.depth \in 1 .. UBLK_MAX_QUEUE_DEPTH => d = asked.depth
        /\ asked.depth <= 0 => d = DEF_QD
        /\ entries >= d
        /\ Queue(d)!Init

\* A queue is shown its own descriptors, for each number of queues and depth and
\* each page size, and the descriptor of its last tag lies within the mapping.
MapsOwnQueue ==
    mapped # None =>
        /\ mapped = q_id
        /\ ublksrv_get_iod(info.queue_depth) <=
             ublksrv_queue_cmd_buf_sz(info.queue_depth, page)

\* A queue the driver has agreed to comes up, unless the system refuses it a
\* resource, a pthread object is used before it is initialised and malloc left
\* other bytes in it, or there are more queues than dev->__queues has room for:
\* no depth makes the fetch commands run out of ring slots and wait for the
\* lock their own thread holds.
InitSucceeds ==
    pc = "malloc" ~> \/ pc \in {"ready", "served"} \/ lacking
                     \/ pc = "hung" /\ UsesGarbage
                     \/ pc = "undefined" /\ info.nr_hw_queues > MAX_NR_HW_QUEUES

\* A request that is reported as successful has been given to the method of the
\* IOHandler that is meant for it.  handleRequests completes what it does not
\* know without a word, so this hangs on init_params asking for nothing else.
NoSilentSuccess ==
    pc = "served" =>
        handler(msg) = CASE ublksrv_get_op(iod) = UBLK_IO_OP.READ    -> "ReadAt"
                         [] ublksrv_get_op(iod) = UBLK_IO_OP.WRITE   -> "WriteAt"
                         [] ublksrv_get_op(iod) = UBLK_IO_OP.DISCARD -> "UnmapAt"
                         [] OTHER -> "a handler"

\* The number of sectors a byte sequence stands for.
Sectors(v) == v[2] \div 2 + 128 * v[3] + 32768 * v[4]

\* The handler is told the length and the place of the request, a READ fits
\* into RData and into the buffer of its tag, a WRITE has its own data, and the
\* result is the length: no shift loses a bit, up to the longest discard.
RequestDecoded ==
    pc = "served" =>
        /\ Sectors(msg.Size) = iod.nr_sectors
        /\ Sectors(msg.Offset) + 8388608 * msg.Offset[5] = iod.start_sector
        /\ ublksrv_get_op(iod) \in {UBLK_IO_OP.READ, UBLK_IO_OP.WRITE} =>
             /\ 512 * iod.nr_sectors <= Smaller(RDataCap, DEF_BUF_SIZE)
             /\ Sectors(success(iod, req_to_longhorn_cmd_type(iod))) = iod.nr_sectors
        /\ ublksrv_get_op(iod) = UBLK_IO_OP.WRITE => Sectors(msg.WData) = iod.nr_sectors

----------------------------------------------------------------------------
(* The inductive invariant behind HandsOver and MapsOwnQueue *)

\* A queue thread exists only for numbers the driver has taken: what the
\* application asked for as startupC converts it, and no more queues than that
\* or than there are processors.
Agreed ==
    pc \notin {"start", "rejected"} =>
        /\ info.queue_depth = queue_depth(asked.depth)
        /\ info.queue_depth \in 1 .. UBLK_MAX_QUEUE_DEPTH
        /\ info.nr_hw_queues <= cpus
        /\ info.nr_hw_queues <= nr_hw_queues(asked.queues)

\* The fields of the queue are filled in the order of ublksrv_queue_init.
Filled ==
    /\ pc \in {"start", "rejected", "malloc", "mmap"} => mapped = None
    /\ mapped # None => mapped = q_id
    /\ pc \notin {"publish", "ready", "served", "undefined"} => sq = <<>>
    /\ pc \in {"fetch", "publish", "ready", "served"} => entries >= info.queue_depth
    /\ pc \in {"publish", "ready", "served"} =>
         /\ flags = [i \in 1 .. info.queue_depth |-> {}]
         /\ sq = [i \in 1 .. info.queue_depth |-> build_user_data(i - 1, FETCH_REQ)]
    /\ pc \in {"ready", "served"} =>
         lock = "free" /\ cond_mutex = "free" /\ cond = "free" /\ inflight = 0

\* ublksrv_queue_init fails only for want of a resource, and does not return only
\* after a pthread call on bytes that nobody had initialised.  Only an
\* application that asks for more than 32 queues on a machine of more than 32
\* processors has dev->__queues overwritten.
Excused ==
    /\ pc = "failed" => lacking
    /\ pc = "hung" => UsesGarbage
    /\ pc = "undefined" => asked.queues > MAX_NR_HW_QUEUES /\ cpus > MAX_NR_HW_QUEUES

\* The queue is built in order and from numbers that were agreed, and when it is
\* not built there is an excuse.
BuildInv == TypeOK /\ Agreed /\ Filled /\ Excused

==============================================================================
