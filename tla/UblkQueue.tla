------------------------------ MODULE UblkQueue ------------------------------
(***************************************************************************)
(* One hardware queue of a ublk device while it serves I/O: the queue      *)
(* thread that runs ublksrv_process_io in a loop, the goroutines that      *)
(* onRequestAsync starts (one per request, each carrying one Request       *)
(* message of the pool msgChan), the IOHandler they wait for, the          *)
(* submission and completion rings, and the part of the ublk driver the    *)
(* queue talks to (external).                                              *)
(*                                                                         *)
(* The queue thread and the goroutines share q->ios[], tgt_io_inflight and *)
(* the submission ring.  Goroutines exclude each other with q->lock; the   *)
(* queue thread takes no lock to submit.  It relies on tgt_io_inflight     *)
(* being 0 instead.                                                        *)
(*                                                                         *)
(* Each step is one access of one thread to shared state, or a group of    *)
(* accesses that a lock makes indivisible.  Requests are numbered only to  *)
(* tell them apart; payloads are not represented.                          *)
(***************************************************************************)
EXTENDS Integers, Sequences, FiniteSets

CONSTANTS
    QueueDepth,      \* tags of the queue (dev_info.queue_depth)
    SqEntries,       \* slots of the submission ring
    Messages,        \* the preallocated Request messages of the device
    MaxRequests,     \* bound: requests the block layer issues
    Ops,             \* the operations it issues
    HandlerMayFail   \* may the IOHandler return an error?

ASSUME DepthAssumption == QueueDepth \in Nat \ {0}
\* io_uring rounds the requested ring depth up, never down.
ASSUME RingAssumption == SqEntries \in Nat /\ SqEntries >= QueueDepth
ASSUME PoolAssumption == IsFiniteSet(Messages) /\ Messages # {}
ASSUME BoundAssumption == MaxRequests \in Nat
ASSUME OpsAssumption == Ops # {} /\ Ops \subseteq {"READ", "WRITE", "UNMAP"}
ASSUME FailAssumption == HandlerMayFail \in BOOLEAN

VARIABLES
    \* the queue thread
    qpc,       \* where it is in ublksrv_process_io
    cur,       \* the tag it is handling, or discarding (a local, 0 when unused)
    ret,       \* what submit_and_wait returned (a local of one pass)
    reaped,    \* has this pass reaped a completion? (a local of one pass)
    idle,      \* q->state & UBLKSRV_QUEUE_IDLE
    stopping,  \* q->state & UBLKSRV_QUEUE_STOPPING
    \* shared between the queue thread and the goroutines
    flags,     \* q->ios[tag].flags
    result,    \* q->ios[tag].result
    inflight,  \* q->tgt_io_inflight
    lock,      \* is q->lock held?
    sq,        \* submission ring: slots handed out, not yet flushed
    \* shared with the driver
    ksq,       \* submission ring: flushed, not yet consumed by the kernel
    cq,        \* completion ring
    \* the goroutines, one per message in use
    gpc,       \* where each one is
    msg,       \* what it knows: the message, the captured tag
    \* the driver (external)
    drv,       \* who owns each tag
    iod,       \* the request the I/O descriptor of each tag describes
    issued,    \* number of requests issued so far
    stopped,   \* has del_gendisk finished?
    \* the requests, by number
    op,        \* operation
    handled,   \* what the IOHandler made of it
    outcome,   \* the result the driver ended it with
    lost       \* those whose buffer was discarded under them

locals     == <<cur, ret, reaped, idle, stopping>>
threadVars == <<qpc, locals>>
ioVars     == <<flags, result>>
ringVars   == <<sq, ksq, cq>>
goVars     == <<gpc, msg>>
drvVars    == <<drv, iod, issued, stopped>>
reqVars    == <<op, handled, outcome, lost>>
worldVars  == <<ioVars, inflight, lock, ringVars, goVars, drvVars, reqVars>>
vars == <<threadVars, worldVars>>

----------------------------------------------------------------------------
(* Values *)

Tags == 0 .. QueueDepth - 1
Reqs == 1 .. MaxRequests

\* nr_sectors << 9, 0 and -EIO, and what malloc left in an io->result: what a
\* completion may carry.
Results == {"LEN", "ZERO", "EIO", "UNSET"}

IoFlags == {"NEED_FETCH", "NEED_COMMIT", "FREE"}

Sqe == [cmd : {"FETCH", "COMMIT"}, tag : Tags, res : Results, filled : BOOLEAN]

\* UBLK_IO_RES_OK, UBLK_IO_RES_ABORT, and any other negative result.
Cqe == [tag : Tags, res : {"OK", "ABORT", "ERROR"}]

QueuePc == {"process", "test", "asleep", "flush", "submit", "wait_cqe",
            "reap", "request", "count", "discard", "exit"}

GoPc == {"free", "spawned", "handling", "replied", "copy", "mark", "lock",
         "reserve", "fill", "dec", "signal", "unlock", "return"}

\* "result" is Request.Result; "phase" tells the call of ublksrv_complete_io
\* for a failed request from the one at the end of the goroutine.
Msg == [tag : Tags, req : 0 .. MaxRequests, result : {0, -1},
        phase : {"EIO", "DONE"}]

ThreadType == /\ qpc \in QueuePc
              /\ cur \in Tags
              /\ ret \in {"OK", "ETIME", "EINTR"}
              /\ reaped \in BOOLEAN /\ idle \in BOOLEAN /\ stopping \in BOOLEAN

IoType == /\ flags \in [Tags -> SUBSET IoFlags]
          /\ result \in [Tags -> Results]
          /\ inflight \in Int
          /\ lock \in BOOLEAN

RingType == sq \in Seq(Sqe) /\ ksq \in Seq(Sqe) /\ cq \in Seq(Cqe)

GoType == gpc \in [Messages -> GoPc] /\ msg \in [Messages -> Msg]

DrvType == /\ drv \in [Tags -> {"idle", "fetch", "served", "aborted"}]
           /\ iod \in [Tags -> 0 .. MaxRequests]
           /\ issued \in 0 .. MaxRequests
           /\ stopped \in BOOLEAN

ReqType == /\ op \in [Reqs -> {"none"} \cup Ops]
           /\ handled \in [Reqs -> {"no", "ok", "failed"}]
           /\ outcome \in [Reqs -> {"none"} \cup Results]
           /\ lost \subseteq 0 .. MaxRequests

\* Every field of the queue, of its goroutines and of the driver keeps its
\* type: no tag runs past the q_depth entries of q->ios.
TypeOK == ThreadType /\ IoType /\ RingType /\ GoType /\ DrvType /\ ReqType

----------------------------------------------------------------------------
(* ublksrv_queue_init has queued one FETCH command per tag
   (ublksrv_submit_fetch_commands), which left every io->flags 0, and has then
   set tgt_io_inflight to 0 and initialised q->lock.  Nothing has written
   io->result. *)
Init ==
    /\ qpc = "process" /\ cur = 0 /\ ret = "OK"
    /\ reaped = FALSE /\ idle = FALSE /\ stopping = FALSE
    /\ flags = [t \in Tags |-> {}]
    /\ result = [t \in Tags |-> "UNSET"]
    /\ inflight = 0
    /\ lock = FALSE
    /\ sq = [i \in 1 .. QueueDepth |->
               [cmd |-> "FETCH", tag |-> i - 1, res |-> "ZERO", filled |-> TRUE]]
    /\ ksq = <<>> /\ cq = <<>>
    /\ gpc = [m \in Messages |-> "free"]
    /\ msg = [m \in Messages |-> [tag |-> 0, req |-> 0, result |-> 0, phase |-> "DONE"]]
    /\ drv = [t \in Tags |-> "idle"]
    /\ iod = [t \in Tags |-> 0]
    /\ issued = 0
    /\ stopped = FALSE
    /\ op = [r \in Reqs |-> "none"]
    /\ handled = [r \in Reqs |-> "no"]
    /\ outcome = [r \in Reqs |-> "none"]
    /\ lost = {}

----------------------------------------------------------------------------
(* The queue thread: demo_null_io_handler_fn calls ublksrv_process_io until it
   returns -ENODEV. *)

\* (fault) forgets to test UBLKSRV_QUEUE_STOPPING
fault_is_done == sq = <<>>

ublksrv_queue_is_done == stopping /\ sq = <<>>

process_io_enter ==
    /\ qpc = "process"
    /\ qpc' = IF ublksrv_queue_is_done THEN "exit" ELSE "test"
    /\ UNCHANGED <<locals, worldVars>>

\* (fault) off by one
fault_must_wait == inflight > 1

must_wait == inflight > 0

\* cond_mutex is held from the load of tgt_io_inflight to the wait, so nothing
\* is signalled in between and the two are one step.
wait_inflight ==
    /\ qpc = "test"
    /\ qpc' = IF must_wait THEN "asleep" ELSE "flush"
    /\ UNCHANGED <<locals, worldVars>>

\* POSIX lets pthread_cond_wait return without a signal.
spurious_wakeup ==
    /\ qpc = "asleep"
    /\ qpc' = "test"
    /\ UNCHANGED <<locals, worldVars>>

\* io_uring_submit_and_wait_timeout publishes the ring's tail ...
flush_sq ==
    /\ qpc = "flush"
    /\ ksq' = ksq \o sq
    /\ sq' = <<>>
    /\ qpc' = "submit"
    /\ UNCHANGED <<locals, ioVars, inflight, lock,
                   cq, goVars, drvVars, reqVars>>

\* ... the kernel consumes the slots in order.  A slot that a goroutine has
\* reserved and is still filling is read as whatever is in it.
KernelReads(e) ==
    IF e.filled THEN {e}
    ELSE [cmd : {"FETCH", "COMMIT"}, tag : Tags, res : Results, filled : {TRUE}]

\* The driver's answer to one command (ublk_ch_uring_cmd).  A tag it has handed
\* to the server can be committed, a fresh tag can be fetched; a command for a
\* tag in any other state completes at once with an error.
consume_sqe ==
    /\ qpc = "submit" /\ ksq # <<>>
    /\ \E e \in KernelReads(Head(ksq)) :
         LET t == e.tag IN
         IF \/ e.cmd = "FETCH" /\ drv[t] = "idle"
            \/ e.cmd = "COMMIT" /\ drv[t] = "served"
         THEN /\ drv' = [drv EXCEPT ![t] = "fetch"]
              /\ outcome' = IF e.cmd = "COMMIT"
                            THEN [outcome EXCEPT ![iod[t]] = e.res] ELSE outcome
              /\ cq' = cq
         ELSE /\ cq' = Append(cq, [tag |-> t, res |-> "ERROR"])
              /\ UNCHANGED <<drv, outcome>>
    /\ ksq' = Tail(ksq)
    /\ UNCHANGED <<threadVars, ioVars, inflight, lock, sq, goVars,
                   iod, issued, stopped, op, handled, lost>>

submitted ==
    /\ qpc = "submit" /\ ksq = <<>>
    /\ qpc' = "wait_cqe"
    /\ UNCHANGED <<locals, worldVars>>

\* ... and the call waits for a completion, without a timeout when idle.
WaitReturns(r) ==
    /\ qpc = "wait_cqe"
    /\ qpc' = "reap" /\ ret' = r /\ reaped' = FALSE
    /\ UNCHANGED <<cur, idle, stopping, worldVars>>

wait_cqe    == cq # <<>> /\ WaitReturns("OK")
wait_etime  == cq = <<>> /\ ~idle /\ WaitReturns("ETIME")
wait_eintr  == cq = <<>> /\ WaitReturns("EINTR")

\* (fault) does not recognise UBLK_IO_RES_ABORT
fault_fetch(c) == ~stopping

fetch(c) == c.res # "ABORT" /\ ~stopping

\* ublksrv_reap_events_uring hands every completion to ublksrv_handle_cqe.
\* With flags = 0 at ADD_DEV the driver never asks for NEED_GET_DATA, and no
\* target I/O is ever queued.
ublksrv_handle_cqe ==
    /\ qpc = "reap" /\ cq # <<>>
    /\ LET c == Head(cq)
       IN /\ stopping' = ~fetch(c)
          /\ cur' = IF c.res = "OK" THEN c.tag ELSE 0
          /\ qpc' = IF c.res = "OK" THEN "request" ELSE "reap"
          /\ flags' = [flags EXCEPT ![c.tag] =
                         IF c.res # "OK" THEN {"FREE"}
                         ELSE IF fetch(c) THEN @ ELSE @ \ {"NEED_FETCH"}]
    /\ cq' = Tail(cq)
    /\ reaped' = TRUE
    /\ UNCHANGED <<ret, idle, result, inflight, lock, sq, ksq, goVars,
                   drvVars, reqVars>>

\* demo_handle_io_async calls onRequestAsync, which waits for a free message
\* of the pool (any of them: the pool's order is left open) ...
onRequestAsync(m) ==
    /\ qpc = "request"
    /\ gpc[m] = "free"
    /\ gpc' = [gpc EXCEPT ![m] = "spawned"]
    /\ msg' = [msg EXCEPT ![m].tag = cur, ![m].req = iod[cur]]
    /\ qpc' = "count"
    /\ UNCHANGED <<locals, ioVars, inflight, lock,
                   ringVars, drvVars, reqVars>>

\* ... and counts the request once the goroutine has been started.
demo_handle_io_async ==
    /\ qpc = "count"
    /\ inflight' = inflight + 1
    /\ qpc' = "reap" /\ cur' = 0
    /\ UNCHANGED <<ret, reaped, idle, stopping, ioVars, lock,
                   ringVars, goVars, drvVars, reqVars>>

\* (fault) goes idle although the pass has reaped a completion
fault_quiet == ret = "ETIME" /\ sq = <<>>

quiet == ret = "ETIME" /\ ~reaped /\ sq = <<>>

\* All completions seen: enter or leave the idle state, unless stopping.
process_io_leave ==
    /\ qpc = "reap" /\ cq = <<>>
    /\ qpc' = IF ~stopping /\ quiet /\ ~idle THEN "discard" ELSE "process"
    /\ idle' = (idle /\ (stopping \/ quiet))
    /\ ret' = "OK" /\ reaped' = FALSE
    /\ UNCHANGED <<cur, stopping, worldVars>>

\* (fault) one tag too far
fault_last_tag == QueueDepth

last_tag == QueueDepth - 1

\* One madvise(MADV_DONTNEED) per tag.
ublksrv_queue_discard_io_pages ==
    /\ qpc = "discard"
    /\ lost' = IF drv[cur] = "served" THEN lost \cup {iod[cur]} ELSE lost
    /\ IF cur = last_tag
       THEN qpc' = "process" /\ idle' = TRUE /\ cur' = 0
       ELSE cur' = cur + 1 /\ UNCHANGED <<qpc, idle>>
    /\ UNCHANGED <<ret, reaped, stopping, ioVars, inflight, lock,
                   ringVars, goVars, drvVars, op, handled, outcome>>

QueueThread ==
    \/ process_io_enter \/ wait_inflight \/ flush_sq \/ consume_sqe \/ submitted
    \/ wait_cqe \/ wait_etime
    \/ ublksrv_handle_cqe \/ (\E m \in Messages : onRequestAsync(m))
    \/ demo_handle_io_async \/ process_io_leave \/ ublksrv_queue_discard_io_pages

----------------------------------------------------------------------------
(* The goroutine of one request. *)

Goto(m, pc) == gpc' = [gpc EXCEPT ![m] = pc]

\* It sends the message on d.requests (its buffer exceeds the pool, so this
\* never blocks); handleRequests receives it and starts a handler goroutine.
handleRequests(m) ==
    /\ gpc[m] = "spawned"
    /\ Goto(m, "handling")
    /\ UNCHANGED <<threadVars, ioVars, inflight, lock, ringVars, msg,
                   drvVars, reqVars>>

\* handleRead, handleWrite or handleUnmap: the IOHandler runs; an error is
\* noted in the message, success leaves the message's Result as it is.
handle(m, err) ==
    /\ gpc[m] = "handling"
    /\ err => HandlerMayFail
    /\ Goto(m, "replied")
    /\ msg' = IF err THEN [msg EXCEPT ![m].result = -1] ELSE msg
    /\ handled' = [handled EXCEPT ![msg[m].req] = IF err THEN "failed" ELSE "ok"]
    /\ UNCHANGED <<threadVars, ioVars, inflight, lock, ringVars, drvVars,
                   op, outcome, lost>>

\* Where the goroutine goes after the failure branch: only a READ copies.
AfterReply(m) == IF op[msg[m].req] = "READ" THEN "copy" ELSE "mark"

\* (fault) takes the failure branch when the handler succeeded
fault_failed(m) == msg[m].result = 0

failed(m) == msg[m].result = -1

\* <-msgObj.Complete
resume(m) ==
    /\ gpc[m] = "replied"
    /\ IF failed(m)
       THEN Goto(m, "mark") /\ msg' = [msg EXCEPT ![m].phase = "EIO"]
       ELSE Goto(m, AfterReply(m)) /\ msg' = [msg EXCEPT ![m].phase = "DONE"]
    /\ UNCHANGED <<threadVars, ioVars, inflight, lock, ringVars, drvVars, reqVars>>

\* copy(dst, msgObj.RData): dst is the I/O buffer of the tag.
copy(m) ==
    /\ gpc[m] = "copy"
    /\ Goto(m, "mark")
    /\ UNCHANGED <<threadVars, ioVars, inflight, lock, ringVars, msg,
                   drvVars, reqVars>>

\* (fault) forgets that an UNMAP transfers nothing
fault_Res(m) == IF msg[m].phase = "EIO" THEN "EIO" ELSE "LEN"

\* The result the goroutine passes to ublksrv_complete_io.
Res(m) == IF msg[m].phase = "EIO" THEN "EIO"
          ELSE IF op[msg[m].req] = "UNMAP" THEN "ZERO" ELSE "LEN"

\* (fault) does not mark the io free
fault_done_flags == {"NEED_COMMIT"}

done_flags == {"NEED_COMMIT", "FREE"}

\* ublksrv_complete_io marks the io, without a lock ...
ublksrv_mark_io_done(m) ==
    /\ gpc[m] = "mark"
    /\ Goto(m, "lock")
    /\ flags' = [flags EXCEPT ![msg[m].tag] = @ \cup done_flags]
    /\ result' = [result EXCEPT ![msg[m].tag] = Res(m)]
    /\ UNCHANGED <<threadVars, inflight, lock, ringVars, msg, drvVars, reqVars>>

\* ... and calls ublksrv_queue_io_cmd, which takes q->lock,
pthread_mutex_lock(m) ==
    /\ gpc[m] = "lock"
    /\ ~lock
    /\ lock' = TRUE
    /\ Goto(m, "reserve")
    /\ UNCHANGED <<threadVars, ioVars, inflight, ringVars, msg, drvVars, reqVars>>

\* (fault) copies READ data after completing the request
fault_AfterComplete(m) == IF op[msg[m].req] = "READ" THEN "copy" ELSE "return"

\* What the goroutine does when ublksrv_complete_io returns.
AfterComplete(m) == IF msg[m].phase = "EIO" THEN AfterReply(m) ELSE "return"

\* reserves a slot -- unless the io may not be issued or the ring is full, in
\* which case it returns with the lock still held --
io_uring_get_sqe(m) ==
    LET f == flags[msg[m].tag] IN
    /\ gpc[m] = "reserve"
    /\ IF /\ "FREE" \in f
          /\ f \cap {"NEED_FETCH", "NEED_COMMIT"} # {}
          /\ Len(sq) + Len(ksq) < SqEntries
       THEN /\ sq' = Append(sq, [cmd |-> IF "NEED_COMMIT" \in f THEN "COMMIT" ELSE "FETCH",
                                 tag |-> msg[m].tag, res |-> "ZERO", filled |-> FALSE])
            /\ Goto(m, "fill")
            /\ UNCHANGED msg
       ELSE /\ Goto(m, AfterComplete(m))
            /\ msg' = [msg EXCEPT ![m].phase = "DONE"]
            /\ UNCHANGED sq
    /\ UNCHANGED <<threadVars, ioVars, inflight, lock, ksq, cq, drvVars, reqVars>>

\* Only one slot is being filled at a time: the lock's holder's.
Fill(s, res) == [i \in DOMAIN s |->
                   IF s[i].filled THEN s[i]
                   ELSE [s[i] EXCEPT !.res = res, !.filled = TRUE]]

\* fills the slot, wherever the queue thread has moved the tail meanwhile,
fill_sqe(m) ==
    LET t == msg[m].tag IN
    /\ gpc[m] = "fill"
    /\ sq' = Fill(sq, result[t])
    /\ ksq' = Fill(ksq, result[t])
    /\ flags' = [flags EXCEPT ![t] = {}]
    /\ Goto(m, "dec")
    /\ UNCHANGED <<threadVars, result, inflight, lock, cq, msg, drvVars, reqVars>>

\* (fault) compares the new value of the counter, not the old one
fault_was_last == inflight - 1 = 1

was_last == inflight = 1

\* takes the request off the count,
atomic_fetch_sub(m) ==
    /\ gpc[m] = "dec"
    /\ inflight' = inflight - 1
    /\ Goto(m, IF was_last THEN "signal" ELSE "unlock")
    /\ UNCHANGED <<threadVars, ioVars, lock, ringVars, msg, drvVars, reqVars>>

\* wakes the queue thread (under cond_mutex) if it was the last,
pthread_cond_signal(m) ==
    /\ gpc[m] = "signal"
    /\ qpc' = IF qpc = "asleep" THEN "test" ELSE qpc
    /\ Goto(m, "unlock")
    /\ UNCHANGED <<locals, ioVars, inflight, lock,
                   ringVars, msg, drvVars, reqVars>>

\* and unlocks.  A failed request goes on to be completed a second time.
pthread_mutex_unlock(m) ==
    /\ gpc[m] = "unlock"
    /\ lock' = FALSE
    /\ Goto(m, AfterComplete(m))
    /\ msg' = [msg EXCEPT ![m].phase = "DONE"]
    /\ UNCHANGED <<threadVars, ioVars, inflight, ringVars, drvVars, reqVars>>

\* d.msgChan <- msgObj; what the goroutine captured is gone, Result is not.
return_message(m) ==
    /\ gpc[m] = "return"
    /\ Goto(m, "free")
    /\ msg' = [msg EXCEPT ![m].tag = 0, ![m].req = 0]
    /\ UNCHANGED <<threadVars, ioVars, inflight, lock, ringVars, drvVars, reqVars>>

Goroutine(m) ==
    \/ handleRequests(m) \/ (\E err \in BOOLEAN : handle(m, err)) \/ resume(m)
    \/ copy(m) \/ ublksrv_mark_io_done(m) \/ pthread_mutex_lock(m)
    \/ io_uring_get_sqe(m) \/ fill_sqe(m) \/ atomic_fetch_sub(m)
    \/ pthread_cond_signal(m) \/ pthread_mutex_unlock(m) \/ return_message(m)

----------------------------------------------------------------------------
(* The driver (external). *)

\* Task work of the queue thread copies a request into the buffer of a fetched
\* tag and completes its command.  It runs in the queue thread's context, so
\* never while that thread is consuming submissions; the device is live once
\* every tag has been fetched.
Dispatch(t, o) ==
    /\ drv[t] = "fetch" /\ \A u \in Tags : drv[u] # "idle"
    /\ qpc # "submit" /\ ~stopped
    /\ issued < MaxRequests
    /\ issued' = issued + 1
    /\ op' = [op EXCEPT ![issued + 1] = o]
    /\ iod' = [iod EXCEPT ![t] = issued + 1]
    /\ drv' = [drv EXCEPT ![t] = "served"]
    /\ cq' = Append(cq, [tag |-> t, res |-> "OK"])
    /\ UNCHANGED <<threadVars, ioVars, inflight, lock, sq, ksq, goVars,
                   stopped, handled, outcome, lost>>

\* STOP_DEV: del_gendisk returns once no request is outstanding ...
StopDev ==
    /\ ~stopped /\ \A t \in Tags : drv[t] = "fetch"
    /\ stopped' = TRUE
    /\ UNCHANGED <<threadVars, ioVars, inflight, lock, ringVars, goVars,
                   drv, iod, issued, reqVars>>

\* ... and then every fetch command is completed with UBLK_IO_RES_ABORT.
Abort(t) ==
    /\ stopped /\ drv[t] = "fetch"
    /\ drv' = [drv EXCEPT ![t] = "aborted"]
    /\ cq' = Append(cq, [tag |-> t, res |-> "ABORT"])
    /\ UNCHANGED <<threadVars, ioVars, inflight, lock, sq, ksq, goVars,
                   iod, issued, stopped, reqVars>>

Driver == \/ \E t \in Tags, o \in Ops : Dispatch(t, o)
          \/ StopDev
          \/ \E t \in Tags : Abort(t)

----------------------------------------------------------------------------
\* The queue thread has returned, and so has every goroutine.
Terminated == qpc = "exit" /\ (\A m \in Messages : gpc[m] = "free")
              /\ (\A t \in Tags : drv[t] = "aborted") /\ UNCHANGED vars

Next == \/ QueueThread \/ spurious_wakeup \/ wait_eintr
        \/ \E m \in Messages : Goroutine(m)
        \/ Driver
        \/ Terminated

Spec == Init /\ [][Next]_vars

\* The kernel schedules every thread, the Go runtime every goroutine, the
\* IOHandler returns, and the driver finishes a STOP_DEV it has begun.  Nothing
\* makes the block layer issue a request, an administrator stop the device, a
\* signal arrive, or a wait wake up for no reason.
Fairness == /\ WF_vars(QueueThread)
            /\ \A m \in Messages : WF_vars(Goroutine(m))
            /\ \A t \in Tags : WF_vars(Abort(t))

FairSpec == Spec /\ Fairness

----------------------------------------------------------------------------
(* Safety *)

\* Goroutines of requests that have been started and not yet been counted off.
Pending == {m \in Messages : gpc[m] \notin {"free", "signal", "unlock", "return"}}

\* Goroutines inside ublksrv_queue_io_cmd, between lock and unlock.
Critical == {m \in Messages : gpc[m] \in {"reserve", "fill", "dec", "signal", "unlock"}}

\* The result that tells the driver a request succeeded in full.
FullResult(r) == IF op[r] = "UNMAP" THEN "ZERO" ELSE "LEN"

\* The kernel never consumes a submission slot that ublksrv_queue_io_cmd is
\* still filling: the wait for tgt_io_inflight = 0 in ublksrv_process_io keeps
\* the lock-free submission and the goroutines apart.
NoTornSqe == \A i \in DOMAIN ksq : ksq[i].filled

\* The queue thread sleeps in pthread_cond_wait only while some request is
\* still counted, or the goroutine that counted the last one off is about to
\* signal: a wake-up is never missed.
NoLostWakeup == qpc = "asleep" => inflight > 0 \/ \E m \in Messages : gpc[m] = "signal"

\* "only freed io can be issued" (ublksrv_queue_io_cmd): a tag has at most one
\* command on the submission ring, and none while the driver still holds the
\* previous one; so the driver has no reason to reject a command.
OneCommandPerTag ==
    LET all == ksq \o sq IN
    /\ \A i, j \in DOMAIN all : all[i].tag = all[j].tag => i = j
    /\ \A i \in DOMAIN all : drv[all[i].tag] =
                               IF all[i].cmd = "FETCH" THEN "idle" ELSE "served"
    /\ \A i \in DOMAIN cq : cq[i].res # "ERROR"

\* The driver ends a request only after its handler has returned, and with the
\* result that says what the handler said: the io->result a goroutine stores
\* without the lock is the one its own commit carries.
CommitsHandlerResult ==
    \A r \in Reqs : \/ outcome[r] = "none"
                    \/ handled[r] = "ok" /\ outcome[r] = FullResult(r)
                    \/ handled[r] = "failed" /\ outcome[r] = "EIO"

\* A goroutine copies READ data into the buffer of a tag (c_bridge.go) only
\* while the driver still waits for that very request on that tag.
BufferWrittenWhileOwned ==
    \A m \in Messages : gpc[m] = "copy" => /\ drv[msg[m].tag] = "served"
                                           /\ iod[msg[m].tag] = msg[m].req

\* q->lock is never left held by a goroutine that has returned from
\* ublksrv_queue_io_cmd by one of its early returns.
LockNotLeaked == lock => Critical # {}

\* While the idle queue gives the buffers back (ublksrv_queue_discard_io_pages),
\* no goroutine works on one and no buffer holds a result the driver has still
\* to copy out.
DiscardSparesHandledIo ==
    qpc = "discard" => /\ Pending = {}
                       /\ \A t \in Tags : drv[t] = "served" => handled[iod[t]] = "no"

\* When ublksrv_process_io returns -ENODEV, every request has been ended, no
\* goroutine will touch the queue's rings or its counter any more, nothing is
\* counted, and no command is left unsubmitted.
CleanExit ==
    qpc = "exit" => /\ \A r \in Reqs : op[r] # "none" => outcome[r] # "none"
                    /\ Pending = {} /\ inflight = 0 /\ sq = <<>>

----------------------------------------------------------------------------
(* The inductive invariant behind NoTornSqe, for handlers that do not fail *)

\* No message has met an error, so each goroutine completes its request once.
NoFailure == \A m \in Messages : msg[m].result = 0 /\ msg[m].phase = "DONE"

\* tgt_io_inflight counts at least the goroutines that have yet to count
\* themselves off; the one being started is counted a step later.
InflightCounts == inflight >= Cardinality(Pending) - (IF qpc = "count" THEN 1 ELSE 0)

\* From the moment it has seen tgt_io_inflight = 0 until it takes the first
\* completion of the pass, the queue thread is alone.
Alone == \/ qpc \in {"flush", "submit", "wait_cqe", "discard"}
         \/ qpc = "reap" /\ ~reaped

Barrier == /\ Alone => Pending = {}
           /\ qpc \in {"request", "count"} => reaped

\* A slot is incomplete only while its goroutine is filling it, and only in
\* the unflushed part of the ring.
SlotsFilled == /\ (\E i \in DOMAIN sq : ~sq[i].filled) => \E m \in Messages : gpc[m] = "fill"
               /\ NoTornSqe

BarrierInv == TypeOK /\ NoFailure /\ InflightCounts /\ Barrier /\ SlotsFilled

----------------------------------------------------------------------------
(* The inductive invariant behind the other safety properties, for handlers
   that do not fail: each tag has one token, which travels from the driver
   through the completion ring, the queue thread, a goroutine and the
   submission ring back to the driver. *)

\* The submission ring is one sequence: what has been flushed is consumed before
\* a goroutine adds to the ring again.
Ring == IF qpc = "submit" THEN ksq ELSE sq

RingSplit == /\ IF qpc = "submit" THEN sq = <<>> ELSE ksq = <<>>
             /\ qpc \in {"discard", "exit"} => sq = <<>>

\* Goroutines whose command is not on the ring yet, and those whose slot is.
Working == {m \in Messages : gpc[m] \in {"spawned", "handling", "replied", "copy",
                                         "mark", "lock", "reserve"}}
Submitting == {m \in Messages : gpc[m] \in {"fill", "dec"}}

\* Where the token of tag t is.
OnRing(t)      == \E i \in DOMAIN Ring : Ring[i].tag = t
OnCq(t)        == \E i \in DOMAIN cq : cq[i].tag = t
OnThread(t)    == qpc = "request" /\ cur = t
OnGoroutine(t) == \E m \in Working : msg[m].tag = t

\* A token is in one place at a time, and there once.
OnePlace == \A t \in Tags : /\ OnRing(t) => ~OnCq(t) /\ ~OnThread(t) /\ ~OnGoroutine(t)
                            /\ OnCq(t) => ~OnThread(t) /\ ~OnGoroutine(t)
                            /\ OnThread(t) => ~OnGoroutine(t)

OneToken == /\ \A i, j \in DOMAIN Ring : Ring[i].tag = Ring[j].tag => i = j
            /\ \A i, j \in DOMAIN cq : cq[i].tag = cq[j].tag => i = j
            /\ \A m, n \in Working : msg[m].tag = msg[n].tag => m = n

\* The driver agrees with the place of the token, and a tag it has handed out
\* has one somewhere.
DriverAgrees ==
    /\ \A i \in DOMAIN Ring : drv[Ring[i].tag] =
                                 IF Ring[i].cmd = "FETCH" THEN "idle" ELSE "served"
    /\ \A i \in DOMAIN cq : /\ cq[i].res # "ERROR"
                            /\ drv[cq[i].tag] = IF cq[i].res = "OK" THEN "served" ELSE "aborted"
    /\ qpc = "request" => drv[cur] = "served"
    /\ \A m \in Working : drv[msg[m].tag] = "served" /\ iod[msg[m].tag] = msg[m].req
    /\ \A t \in Tags : drv[t] = "served" =>
                         OnRing(t) \/ OnCq(t) \/ OnThread(t) \/ OnGoroutine(t)

\* Requests 1 to issued have been dispatched; those that have not been ended
\* are each on a tag of their own.
RequestsOnTags ==
    /\ \A r \in Reqs : /\ op[r] = "none" <=> r > issued
                       /\ r > issued => handled[r] = "no" /\ outcome[r] = "none"
                       /\ r <= issued /\ outcome[r] = "none" =>
                            \E t \in Tags : drv[t] = "served" /\ iod[t] = r
    /\ \A t \in Tags : drv[t] = "served" => iod[t] \in 1 .. issued /\ outcome[iod[t]] = "none"
    /\ \A t, u \in Tags : drv[t] = "served" /\ drv[u] = "served" /\ iod[t] = iod[u] => t = u

\* How far the request on a tag has come follows from where its token is.
HandledByPlace ==
    /\ \A t \in Tags : drv[t] = "served" /\ (OnCq(t) \/ OnThread(t))
                         => handled[iod[t]] = "no"
    /\ \A m \in Working : handled[msg[m].req] =
                            IF gpc[m] \in {"spawned", "handling"} THEN "no" ELSE "ok"
    /\ \A i \in DOMAIN Ring : Ring[i].cmd = "COMMIT" => handled[iod[Ring[i].tag]] = "ok"

\* What a goroutine has stored for its tag is what its slot will be filled with.
ResultsStored ==
    /\ \A m \in Messages : gpc[m] \in {"lock", "reserve", "fill"} =>
                             result[msg[m].tag] = FullResult(iod[msg[m].tag])
    /\ \A m \in Messages : gpc[m] \in {"lock", "reserve"} =>
                             {"NEED_COMMIT", "FREE"} \subseteq flags[msg[m].tag]
    /\ \A m \in Submitting : \E i \in DOMAIN sq : sq[i].cmd = "COMMIT" /\ sq[i].tag = msg[m].tag
    /\ \A i \in DOMAIN Ring : ~Ring[i].filled =>
                               \E m \in Messages : gpc[m] = "fill" /\ msg[m].tag = Ring[i].tag
    /\ \A i \in DOMAIN Ring : Ring[i].filled /\ Ring[i].cmd = "COMMIT" =>
                               Ring[i].res = FullResult(iod[Ring[i].tag])

\* q->lock is held by the one goroutine that is inside ublksrv_queue_io_cmd.
LockHeld == /\ lock <=> Critical # {}
            /\ \A m, n \in Critical : m = n

\* tgt_io_inflight counts exactly: no request is counted twice or never.
InflightExact == inflight = Cardinality(Pending) - (IF qpc = "count" THEN 1 ELSE 0)

\* The queue stops only after the driver has ended all requests.
StopOrder == /\ stopped => \A t \in Tags : drv[t] \in {"fetch", "aborted"}
             /\ stopping \/ (\E t \in Tags : drv[t] = "aborted") => stopped
             /\ qpc = "exit" => stopping

TokenInv == /\ RingSplit /\ OnePlace /\ OneToken /\ DriverAgrees /\ RequestsOnTags
            /\ HandledByPlace /\ ResultsStored /\ LockHeld /\ InflightExact /\ StopOrder
            /\ CommitsHandlerResult

----------------------------------------------------------------------------

(* Liveness and refinement *)

\* Every request the driver hands out is ended, idle or stopping or not.
RequestsComplete == \A r \in Reqs : op[r] # "none" ~> outcome[r] # "none"

\* STOP_DEV gets the queue thread out of its loop.
StopExits == stopped ~> qpc = "exit"

\* Every message taken from msgChan comes back to it.
MessagesReturn == \A m \in Messages : gpc[m] # "free" ~> gpc[m] = "free"

StatusOf(r) ==
    CASE op[r] = "none" -> "absent"
      [] op[r] # "none" /\ outcome[r] = "none" ->
           [no |-> "queued", ok |-> "ok", failed |-> "failed"][handled[r]]
      [] handled[r] = "ok" /\ outcome[r] = FullResult(r) -> "ended_ok"
      [] handled[r] = "failed" /\ outcome[r] = "EIO" -> "ended_error"
      [] OTHER -> "ended_wrongly"

Device == INSTANCE BlockDevice WITH status <- [r \in Reqs |-> StatusOf(r)]

\* The queue, its goroutines and its driver together implement BlockDevice:
\* each request is handled once and ended once, with the handler's outcome.
ImplementsDevice == Device!FairSpec

----------------------------------------------------------------------------
(* What the repository says and the code does not do when a handler fails, or
   when a request arrives as the queue goes idle. *)

\* examples/README.md: "Handle all IO requests to that device by
\* reading/writing from the file." -- a request the file served is not
\* reported as an I/O error.
NoSpuriousError ==
    \A m \in Messages : gpc[m] = "replied" /\ msg[m].result = -1
                          => handled[msg[m].req] = "failed"

\* ublksrv_mark_io_done: "mark io done by target, so that ->ubq_daemon can
\* commit its result" -- a result is committed only for a request the target
\* is done with.
CommittedWhenDone ==
    \A i \in DOMAIN ksq :
        LET e == ksq[i] IN
        e.filled /\ e.cmd = "COMMIT" /\ drv[e.tag] = "served" => handled[iod[e.tag]] # "no"

\* examples/README.md, again: the handler of a WRITE is given the data the
\* driver copied in, not pages discarded by ublksrv_queue_discard_io_pages.
WriteDataIntact == \A r \in Reqs : r \in lost => op[r] # "WRITE"

==============================================================================
