--------------------------- MODULE UblkQueueProofs ---------------------------
(***************************************************************************)
(* Theorems about UblkQueue, for every depth, ring size, pool and number   *)
(* of requests.                                                            *)
(***************************************************************************)
EXTENDS UblkQueue, FiniteSetTheorems, TLAPS

\* The groups of variables, and the tests the code makes in place, are
\* abbreviations: they are expanded everywhere.
USE DEF vars, threadVars, locals, worldVars, ioVars, ringVars, goVars, drvVars, reqVars
USE DEF must_wait, quiet, last_tag, failed, done_flags, was_last

----------------------------------------------------------------------------
(* Type correctness *)

\* The types have their extreme values: there is a tag 0 and a request 0.
LEMMA Constants ==
  /\ QueueDepth \in Nat /\ 0 \in Tags /\ \A t \in Tags : t \in Int
  /\ MaxRequests \in Nat /\ 0 \in 0 .. MaxRequests
BY DepthAssumption, BoundAssumption DEF Tags

\* The state ublksrv_queue_init leaves is well typed.
LEMMA InitTypeOK == Init => TypeOK
<1> SUFFICES ASSUME Init PROVE TypeOK
  OBVIOUS
<1>1. ThreadType
  BY Constants DEF Init, ThreadType, QueuePc
<1>2. IoType
  <2>1. flags \in [Tags -> SUBSET IoFlags]
    BY DEF Init
  <2>2. result \in [Tags -> Results]
    BY DEF Init, Results
  <2>3. inflight \in Int
    BY DEF Init
  <2>4. lock \in BOOLEAN
    BY DEF Init
  <2> QED BY <2>1, <2>2, <2>3, <2>4 DEF IoType
<1>3. RingType
  <2>1. \A i \in 1 .. QueueDepth : i - 1 \in Tags
    BY Constants DEF Tags
  <2> QED BY Constants, <2>1 DEF Init, RingType, Sqe, Results
<1>4. GoType
  BY Constants DEF Init, GoType, GoPc, Msg
<1>5. DrvType
  BY Constants DEF Init, DrvType
<1>6. ReqType
  BY DEF Init, ReqType
<1> QED BY <1>1, <1>2, <1>3, <1>4, <1>5, <1>6 DEF TypeOK

\* Filling a slot of a ring leaves a ring of slots, of the same length.
LEMMA FillType ==
  ASSUME NEW s \in Seq(Sqe), NEW r \in Results
  PROVE  /\ Fill(s, r) \in Seq(Sqe)
         /\ DOMAIN Fill(s, r) = DOMAIN s
         /\ \A i \in DOMAIN s : Fill(s, r)[i].filled
<1>1. \A i \in DOMAIN s : s[i] \in Sqe
  OBVIOUS
<1>2. \A i \in DOMAIN s : Fill(s, r)[i] \in Sqe /\ Fill(s, r)[i].filled
  BY <1>1 DEF Fill, Sqe
<1>3. DOMAIN s = 1 .. Len(s) /\ Len(s) \in Nat /\ DOMAIN Fill(s, r) = DOMAIN s
  BY DEF Fill
<1>4. Fill(s, r) \in [1 .. Len(s) -> Sqe]
  BY <1>2, <1>3 DEF Fill
<1> QED BY <1>2, <1>3, <1>4

\* Assigning one field of a message leaves a message.
LEMMA MsgUpdate ==
  ASSUME NEW x \in Msg
  PROVE  /\ \A t \in Tags, r \in 0 .. MaxRequests : [x EXCEPT !.tag = t, !.req = r] \in Msg
         /\ \A p \in {"EIO", "DONE"} : [x EXCEPT !.phase = p] \in Msg
         /\ [x EXCEPT !.result = -1] \in Msg
BY DEF Msg

\* Every step of every thread keeps the types.
LEMMA NextTypeOK == TypeOK /\ [Next]_vars => TypeOK'
<1> SUFFICES ASSUME TypeOK, [Next]_vars PROVE TypeOK'
  OBVIOUS
<1> USE Constants DEF TypeOK
<1>1. CASE process_io_enter
  BY <1>1 DEF process_io_enter, ThreadType, QueuePc, IoType, RingType, GoType,
     DrvType, ReqType
<1>2. CASE wait_inflight
  BY <1>2 DEF wait_inflight, ThreadType, QueuePc, IoType, RingType, GoType,
     DrvType, ReqType
<1>3. CASE spurious_wakeup
  BY <1>3 DEF spurious_wakeup, ThreadType, QueuePc, IoType, RingType, GoType,
     DrvType, ReqType
<1>4. CASE flush_sq
  <2>1. ThreadType' /\ IoType' /\ GoType' /\ DrvType' /\ ReqType'
    BY <1>4 DEF flush_sq, ThreadType, QueuePc, IoType, GoType,
       DrvType, ReqType
  <2>2. RingType'
    BY <1>4 DEF flush_sq, RingType
  <2> QED BY <2>1, <2>2
<1>5. CASE consume_sqe
  <2>1. ksq # <<>> /\ Head(ksq) \in Sqe /\ Tail(ksq) \in Seq(Sqe)
    BY <1>5 DEF consume_sqe, RingType
  <2>2. PICK e \in KernelReads(Head(ksq)) :
          LET t == e.tag IN
          IF \/ e.cmd = "FETCH" /\ drv[t] = "idle"
             \/ e.cmd = "COMMIT" /\ drv[t] = "served"
          THEN /\ drv' = [drv EXCEPT ![t] = "fetch"]
               /\ outcome' = IF e.cmd = "COMMIT"
                             THEN [outcome EXCEPT ![iod[t]] = e.res] ELSE outcome
               /\ cq' = cq
          ELSE /\ cq' = Append(cq, [tag |-> t, res |-> "ERROR"])
               /\ UNCHANGED <<drv, outcome>>
    BY <1>5 DEF consume_sqe
  <2>3. e \in Sqe
    BY <2>1 DEF KernelReads, Sqe
  <2>4. e.tag \in Tags /\ e.res \in Results
    BY <2>3 DEF Sqe
  <2>5. ThreadType' /\ IoType' /\ GoType'
    BY <1>5 DEF consume_sqe, ThreadType, IoType, GoType
  <2>6. RingType'
    <3>1. [tag |-> e.tag, res |-> "ERROR"] \in Cqe
      BY <2>4 DEF Cqe
    <3>2. cq' = cq \/ cq' = Append(cq, [tag |-> e.tag, res |-> "ERROR"])
      BY <2>2
    <3>3. cq' \in Seq(Cqe)
      <4>1. cq \in Seq(Cqe)
        BY DEF RingType
      <4>2. Append(cq, [tag |-> e.tag, res |-> "ERROR"]) \in Seq(Cqe)
        BY <3>1, <4>1
      <4> QED BY <3>2, <4>1, <4>2
    <3> QED BY <1>5, <2>1, <3>3 DEF consume_sqe, RingType
  <2>7. DrvType'
    BY <1>5, <2>2, <2>4 DEF consume_sqe, DrvType
  <2>8. ReqType'
    <3>1. outcome' \in [Reqs -> {"none"} \cup Results]
      BY <2>2, <2>4 DEF ReqType
    <3> QED BY <1>5, <3>1 DEF consume_sqe, ReqType
  <2> QED BY <2>5, <2>6, <2>7, <2>8
<1>6. CASE submitted
  BY <1>6 DEF submitted, ThreadType, QueuePc, IoType, RingType, GoType,
     DrvType, ReqType
<1>7. CASE wait_cqe \/ wait_etime \/ wait_eintr
  BY <1>7 DEF wait_cqe, wait_etime, wait_eintr, WaitReturns, ThreadType, QueuePc,
     IoType, RingType, GoType, DrvType, ReqType
<1>8. CASE ublksrv_handle_cqe
  <2>1. Head(cq) \in Cqe /\ Tail(cq) \in Seq(Cqe)
    BY <1>8 DEF ublksrv_handle_cqe, RingType
  <2>2. Head(cq).tag \in Tags
    BY <2>1 DEF Cqe
  <2>3. ThreadType'
    BY <1>8, <2>2 DEF ublksrv_handle_cqe, ThreadType, QueuePc
  <2>4. IoType'
    BY <1>8, <2>2 DEF ublksrv_handle_cqe, IoType, IoFlags
  <2>5. RingType' /\ GoType' /\ DrvType' /\ ReqType'
    BY <1>8, <2>1 DEF ublksrv_handle_cqe, RingType, GoType, DrvType, ReqType
  <2> QED BY <2>3, <2>4, <2>5
<1>9. ASSUME NEW m \in Messages, onRequestAsync(m) PROVE TypeOK'
  <2>1. GoType'
    <3>1. cur \in Tags /\ iod[cur] \in 0 .. MaxRequests /\ msg[m] \in Msg
      BY DEF ThreadType, DrvType, GoType
    <3>2. [msg[m] EXCEPT !.tag = cur, !.req = iod[cur]] \in Msg
      BY <3>1, MsgUpdate
    <3>3. msg' = [msg EXCEPT ![m] = [msg[m] EXCEPT !.tag = cur, !.req = iod[cur]]]
      BY <1>9 DEF onRequestAsync, GoType
    <3>4. msg' \in [Messages -> Msg]
      BY <3>2, <3>3 DEF GoType
    <3> QED BY <1>9, <3>4 DEF onRequestAsync, GoType, GoPc
  <2>2. ThreadType' /\ IoType' /\ RingType' /\ DrvType' /\ ReqType'
    BY <1>9 DEF onRequestAsync, ThreadType, QueuePc, IoType, RingType, DrvType,
       ReqType
  <2> QED BY <2>1, <2>2
<1>10. CASE demo_handle_io_async
  BY <1>10 DEF demo_handle_io_async, ThreadType, QueuePc, IoType, RingType, GoType,
     DrvType, ReqType
<1>11. CASE process_io_leave
  BY <1>11 DEF process_io_leave, ThreadType, QueuePc, IoType, RingType, GoType,
     DrvType, ReqType
<1>12. CASE ublksrv_queue_discard_io_pages
  <2>1. cur = QueueDepth - 1 \/ cur + 1 \in Tags
    BY DEF ThreadType, Tags
  <2>2. ThreadType'
    BY <1>12, <2>1 DEF ublksrv_queue_discard_io_pages, ThreadType, QueuePc
  <2>3. IoType' /\ RingType' /\ GoType' /\ DrvType' /\ ReqType'
    BY <1>12 DEF ublksrv_queue_discard_io_pages, ThreadType, IoType, RingType,
       GoType, DrvType, ReqType
  <2> QED BY <2>2, <2>3
<1>13. ASSUME NEW m \in Messages, Goroutine(m) PROVE TypeOK'
  <2>1. CASE handleRequests(m)
    BY <2>1 DEF handleRequests, Goto, ThreadType, IoType, RingType, GoType, GoPc,
       DrvType, ReqType
  <2>2. ASSUME NEW err \in BOOLEAN, handle(m, err) PROVE TypeOK'
    BY <2>2 DEF handle, Goto, ThreadType, IoType, RingType, GoType, GoPc, Msg,
       DrvType, ReqType
  <2>3. CASE resume(m)
    <3>1. PICK p \in {"EIO", "DONE"} : msg' = [msg EXCEPT ![m].phase = p]
      BY <2>3 DEF resume
    <3>2. msg' \in [Messages -> Msg]
      BY <3>1, MsgUpdate DEF GoType
    <3>3. gpc' \in [Messages -> GoPc]
      BY <2>3 DEF resume, Goto, AfterReply, GoType, GoPc
    <3> QED
      BY <2>3, <3>2, <3>3 DEF resume, ThreadType, IoType, RingType, GoType,
         DrvType, ReqType
  <2>4. CASE copy(m)
    BY <2>4 DEF copy, Goto, ThreadType, IoType, RingType, GoType, GoPc,
       DrvType, ReqType
  <2>5. CASE ublksrv_mark_io_done(m)
    <3>1. msg[m].tag \in Tags /\ Res(m) \in Results
      BY DEF GoType, Msg, Res, Results
    <3> QED
      BY <2>5, <3>1 DEF ublksrv_mark_io_done, Goto, ThreadType, IoType, IoFlags,
         RingType, GoType, GoPc, DrvType, ReqType
  <2>6. CASE pthread_mutex_lock(m)
    BY <2>6 DEF pthread_mutex_lock, Goto, ThreadType, IoType, RingType, GoType, GoPc,
       DrvType, ReqType
  <2>7. CASE io_uring_get_sqe(m)
    <3>1. ThreadType' /\ IoType' /\ DrvType' /\ ReqType'
      BY <2>7 DEF io_uring_get_sqe, ThreadType, IoType, DrvType, ReqType
    <3>2. GoType'
      <4>1. msg' = msg \/ msg' = [msg EXCEPT ![m].phase = "DONE"]
        BY <2>7 DEF io_uring_get_sqe
      <4>2. msg' \in [Messages -> Msg]
        <5>1. msg \in [Messages -> Msg]
          BY DEF GoType
        <5>2. [msg EXCEPT ![m].phase = "DONE"] \in [Messages -> Msg]
          BY <5>1, MsgUpdate
        <5> QED BY <4>1, <5>1, <5>2
      <4>3. \E pc \in GoPc : gpc' = [gpc EXCEPT ![m] = pc]
        BY <2>7 DEF io_uring_get_sqe, Goto, AfterComplete, AfterReply, GoPc
      <4> QED BY <4>2, <4>3 DEF GoType
    <3>3. RingType'
      <4>1. \A c \in {"FETCH", "COMMIT"} :
              [cmd |-> c, tag |-> msg[m].tag, res |-> "ZERO", filled |-> FALSE] \in Sqe
        BY DEF GoType, Msg, Sqe, Results
      <4>2. \/ sq' = sq
            \/ \E c \in {"FETCH", "COMMIT"} : sq' = Append(sq,
                 [cmd |-> c, tag |-> msg[m].tag, res |-> "ZERO", filled |-> FALSE])
        BY <2>7 DEF io_uring_get_sqe
      <4>3. sq' \in Seq(Sqe)
        <5>1. sq \in Seq(Sqe)
          BY DEF RingType
        <5>2. \A x \in Sqe : Append(sq, x) \in Seq(Sqe)
          BY <5>1
        <5> QED BY <4>1, <4>2, <5>1, <5>2
      <4> QED BY <2>7, <4>3 DEF io_uring_get_sqe, RingType
    <3> QED BY <3>1, <3>2, <3>3
  <2>8. CASE fill_sqe(m)
    <3>1. msg[m].tag \in Tags /\ result[msg[m].tag] \in Results
      BY DEF GoType, Msg, IoType
    <3>2. sq' \in Seq(Sqe) /\ ksq' \in Seq(Sqe)
      BY <2>8, <3>1, FillType DEF fill_sqe, RingType
    <3> QED
      BY <2>8, <3>1, <3>2 DEF fill_sqe, Goto, ThreadType, IoType, RingType, GoType,
         GoPc, DrvType, ReqType
  <2>9. CASE atomic_fetch_sub(m)
    BY <2>9 DEF atomic_fetch_sub, Goto, ThreadType, IoType, RingType, GoType, GoPc,
       DrvType, ReqType
  <2>10. CASE pthread_cond_signal(m)
    BY <2>10 DEF pthread_cond_signal, Goto, ThreadType, QueuePc, IoType, RingType,
       GoType, GoPc, DrvType, ReqType
  <2>11. CASE pthread_mutex_unlock(m)
    BY <2>11 DEF pthread_mutex_unlock, Goto, AfterComplete, AfterReply, ThreadType,
       IoType, RingType, GoType, GoPc, Msg, DrvType, ReqType
  <2>12. CASE return_message(m)
    <3>1. [msg[m] EXCEPT !.tag = 0, !.req = 0] \in Msg
      BY MsgUpdate DEF GoType
    <3>2. msg' = [msg EXCEPT ![m] = [msg[m] EXCEPT !.tag = 0, !.req = 0]]
      BY <2>12 DEF return_message, GoType
    <3>3. msg' \in [Messages -> Msg]
      BY <3>1, <3>2 DEF GoType
    <3> QED
      BY <2>12, <3>3 DEF return_message, Goto, ThreadType, IoType, RingType, GoType, GoPc,
         DrvType, ReqType
  <2> QED
    BY <1>13, <2>1, <2>2, <2>3, <2>4, <2>5, <2>6, <2>7, <2>8, <2>9, <2>10, <2>11,
       <2>12 DEF Goroutine
<1>14. ASSUME NEW t \in Tags, NEW o \in Ops, Dispatch(t, o) PROVE TypeOK'
  <2>1. ThreadType' /\ IoType' /\ GoType'
    BY <1>14 DEF Dispatch, ThreadType, IoType, GoType
  <2>2. RingType'
    BY <1>14 DEF Dispatch, RingType, Cqe
  <2>3. issued + 1 \in 0 .. MaxRequests
    BY <1>14 DEF Dispatch, DrvType
  <2>4. DrvType' /\ ReqType'
    BY <1>14, <2>3 DEF Dispatch, DrvType, ReqType
  <2> QED BY <2>1, <2>2, <2>4
<1>15. CASE StopDev
  BY <1>15 DEF StopDev, ThreadType, IoType, RingType, GoType, DrvType, ReqType
<1>16. ASSUME NEW t \in Tags, Abort(t) PROVE TypeOK'
  <2>1. RingType'
    BY <1>16 DEF Abort, RingType, Cqe
  <2>2. ThreadType' /\ IoType' /\ GoType' /\ DrvType' /\ ReqType'
    BY <1>16 DEF Abort, ThreadType, IoType, GoType, DrvType, ReqType
  <2> QED BY <2>1, <2>2
<1>17. CASE UNCHANGED vars
  BY <1>17 DEF ThreadType, IoType, RingType, GoType, DrvType, ReqType
<1> QED
  BY <1>1, <1>2, <1>3, <1>4, <1>5, <1>6, <1>7, <1>8, <1>9, <1>10, <1>11, <1>12,
     <1>13, <1>14, <1>15, <1>16, <1>17 DEF Next, QueueThread, Driver, Terminated

\* Whatever the handlers return and however the threads interleave, no index
\* leaves its array and no field its type.
THEOREM TypeCorrect == Spec => []TypeOK
BY InitTypeOK, NextTypeOK, PTL DEF Spec

----------------------------------------------------------------------------
(* The condition variable *)

\* No step leaves the queue thread asleep with nothing counted and nobody
\* about to signal.
LEMMA NextNoLostWakeup ==
  TypeOK /\ NoLostWakeup /\ [Next]_vars => NoLostWakeup'
<1> SUFFICES ASSUME TypeOK, NoLostWakeup, [Next]_vars, qpc' = "asleep"
             PROVE  inflight' > 0 \/ \E m \in Messages : gpc'[m] = "signal"
  BY DEF NoLostWakeup
<1>0. inflight \in Int /\ gpc \in [Messages -> GoPc]
  BY DEF TypeOK, IoType, GoType
<1>1. CASE QueueThread \/ spurious_wakeup \/ wait_eintr
  <2>1. CASE wait_inflight
    BY <2>1 DEF wait_inflight
  <2>2. CASE consume_sqe
    BY <2>2 DEF consume_sqe
  <2> QED
    BY <1>1, <2>1, <2>2 DEF QueueThread, process_io_enter, flush_sq, submitted,
       wait_cqe, wait_etime, wait_eintr, WaitReturns, ublksrv_handle_cqe,
       onRequestAsync, demo_handle_io_async, process_io_leave, spurious_wakeup,
       ublksrv_queue_discard_io_pages
<1>2. ASSUME NEW m \in Messages, Goroutine(m)
      PROVE  inflight' > 0 \/ \E n \in Messages : gpc'[n] = "signal"
  <2>1. CASE pthread_cond_signal(m)
    BY <2>1 DEF pthread_cond_signal
  <2>2. CASE atomic_fetch_sub(m)
    <3>1. qpc = "asleep" /\ inflight' = inflight - 1 /\ gpc[m] = "dec"
      BY <2>2 DEF atomic_fetch_sub
    <3>2. CASE inflight = 1
      BY <1>0, <2>2, <3>2 DEF atomic_fetch_sub, Goto
    <3>3. CASE inflight > 1
      BY <1>0, <3>1, <3>3
    <3>4. CASE inflight < 1
      <4>1. PICK n \in Messages : gpc[n] = "signal"
        BY <1>0, <3>1, <3>4 DEF NoLostWakeup
      <4>2. gpc'[n] = "signal"
        BY <1>0, <2>2, <3>1, <4>1 DEF atomic_fetch_sub, Goto
      <4> QED BY <4>2
    <3> QED BY <1>0, <3>2, <3>3, <3>4
  <2>3. CASE ~pthread_cond_signal(m) /\ ~atomic_fetch_sub(m)
    <3>1. /\ qpc = "asleep" /\ inflight' = inflight /\ gpc[m] # "signal"
          /\ \A n \in Messages \ {m} : gpc'[n] = gpc[n]
      BY <1>0, <1>2, <2>3 DEF Goroutine, handleRequests, handle, resume, copy,
         ublksrv_mark_io_done, pthread_mutex_lock, io_uring_get_sqe, fill_sqe,
         pthread_mutex_unlock, return_message, Goto
    <3> QED BY <3>1 DEF NoLostWakeup
  <2> QED BY <2>1, <2>2, <2>3
<1>3. CASE Driver \/ UNCHANGED vars
  <2>1. qpc' = qpc /\ inflight' = inflight /\ gpc' = gpc
    BY <1>3 DEF Driver, Dispatch, StopDev, Abort
  <2> QED BY <2>1 DEF NoLostWakeup
<1> QED BY <1>1, <1>2, <1>3 DEF Next, Terminated

\* A queue thread that sleeps in pthread_cond_wait has work outstanding or a
\* wake-up on its way, whether or not handlers fail.
THEOREM WakeupNeverLost == Spec => []NoLostWakeup
<1>1. Init => NoLostWakeup
  BY DEF Init, NoLostWakeup
<1> QED BY <1>1, TypeCorrect, NextNoLostWakeup, PTL DEF Spec

----------------------------------------------------------------------------
(* The barrier between submission and the goroutines *)

\* The goroutines that have yet to count themselves off can be counted: there
\* are no more of them than messages in the pool.
LEMMA PendingFinite == IsFiniteSet(Pending) /\ Cardinality(Pending) \in Nat
<1>1. Pending \subseteq Messages
  BY DEF Pending
<1> QED BY <1>1, PoolAssumption, FS_Subset, FS_CardinalityType

\* Nothing is in flight only if no goroutine is pending.
LEMMA ZeroMeansNone ==
  ASSUME inflight \in Int, InflightCounts, inflight <= 0, qpc # "count"
  PROVE  Pending = {}
<1>1. Cardinality(Pending) = 0
  BY PendingFinite DEF InflightCounts
<1> QED BY <1>1, PendingFinite, FS_EmptySet

\* A step that leaves the goroutines, the counter and the submission ring alone
\* concerns the barrier only through the queue thread's position.
LEMMA OtherStep ==
  ASSUME BarrierInv, UNCHANGED <<gpc, msg, sq, ksq, inflight>>,
         qpc' = "count" <=> qpc = "count"
  PROVE  /\ NoFailure' /\ InflightCounts' /\ SlotsFilled'
         /\ Pending' = Pending
<1>1. Pending' = Pending
  BY DEF Pending
<1> QED BY <1>1 DEF BarrierInv, NoFailure, InflightCounts, SlotsFilled, NoTornSqe

\* The parts of the invariant that TypeOK does not cover, for steps of the
\* queue thread.
LEMMA QueueThreadKeepsBarrier ==
  ASSUME BarrierInv, QueueThread \/ spurious_wakeup \/ wait_eintr
  PROVE  NoFailure' /\ InflightCounts' /\ Barrier' /\ SlotsFilled'
<1> USE DEF BarrierInv
<1>1. CASE wait_inflight
  <2>1. qpc = "test" /\ UNCHANGED <<gpc, msg, sq, ksq, inflight>>
    BY <1>1 DEF wait_inflight
  <2>2. inflight \in Int
    BY DEF TypeOK, IoType
  <2>3. qpc' \in {"asleep", "flush"} /\ (qpc' = "flush" => inflight <= 0)
    BY <1>1, <2>2 DEF wait_inflight
  <2>4. NoFailure' /\ InflightCounts' /\ SlotsFilled' /\ Pending' = Pending
    BY <2>1, <2>3, OtherStep
  <2>5. qpc' = "flush" => Pending = {}
    BY <2>1, <2>2, <2>3, ZeroMeansNone
  <2>6. Barrier'
    BY <2>3, <2>4, <2>5 DEF Barrier, Alone
  <2> QED BY <2>4, <2>6
<1>2. CASE flush_sq
  <2>1. /\ qpc = "flush" /\ qpc' = "submit" /\ sq' = <<>> /\ ksq' = ksq \o sq
        /\ UNCHANGED <<gpc, msg, inflight>>
    BY <1>2 DEF flush_sq
  <2>2. Pending = {} /\ Pending' = {}
    BY <2>1 DEF Barrier, Alone, Pending
  <2>3. \A i \in DOMAIN sq : sq[i].filled
    BY <2>2 DEF SlotsFilled, Pending
  <2>4. \A i \in DOMAIN ksq' : ksq'[i].filled
    <3>1. sq \in Seq(Sqe) /\ ksq \in Seq(Sqe)
      BY DEF TypeOK, RingType
    <3>2. \A i \in DOMAIN ksq : ksq[i].filled
      BY DEF SlotsFilled, NoTornSqe
    <3>3. SUFFICES ASSUME NEW i \in DOMAIN (ksq \o sq) PROVE (ksq \o sq)[i].filled
      BY <2>1
    <3>4. CASE i <= Len(ksq)
      <4>1. i \in DOMAIN ksq /\ (ksq \o sq)[i] = ksq[i]
        BY <3>1, <3>3, <3>4
      <4> QED BY <3>2, <4>1
    <3>5. CASE i > Len(ksq)
      <4>1. i - Len(ksq) \in DOMAIN sq /\ (ksq \o sq)[i] = sq[i - Len(ksq)]
        BY <3>1, <3>3, <3>5
      <4> QED BY <2>3, <4>1
    <3>6. i \in Nat /\ Len(ksq) \in Nat
      BY <3>1, <3>3
    <3> QED BY <3>4, <3>5, <3>6
  <2>5. SlotsFilled'
    BY <2>1, <2>4 DEF SlotsFilled, NoTornSqe
  <2>6. NoFailure' /\ InflightCounts'
    BY <2>1, <2>2 DEF NoFailure, InflightCounts
  <2>7. Barrier'
    BY <2>1, <2>2 DEF Barrier, Alone
  <2> QED BY <2>5, <2>6, <2>7
<1>3. CASE consume_sqe
  <2>1. /\ qpc = "submit" /\ UNCHANGED <<qpc, reaped, gpc, msg, sq, inflight>>
        /\ ksq # <<>> /\ ksq' = Tail(ksq)
    BY <1>3 DEF consume_sqe
  <2>2. Pending' = Pending
    BY <2>1 DEF Pending
  <2>3. \A i \in DOMAIN ksq' : ksq'[i].filled
    <3>1. ksq \in Seq(Sqe)
      BY DEF TypeOK, RingType
    <3>2. \A i \in DOMAIN Tail(ksq) : i + 1 \in DOMAIN ksq /\ Tail(ksq)[i] = ksq[i + 1]
      BY <2>1, <3>1
    <3> QED BY <2>1, <3>2 DEF SlotsFilled, NoTornSqe
  <2>4. SlotsFilled'
    BY <2>1, <2>3 DEF SlotsFilled, NoTornSqe
  <2> QED
    BY <2>1, <2>2, <2>4 DEF NoFailure, InflightCounts, Barrier, Alone
<1>4. ASSUME NEW m \in Messages, onRequestAsync(m)
      PROVE  NoFailure' /\ InflightCounts' /\ Barrier' /\ SlotsFilled'
  <2>1. /\ qpc = "request" /\ qpc' = "count" /\ gpc[m] = "free"
        /\ gpc' = [gpc EXCEPT ![m] = "spawned"]
        /\ UNCHANGED <<reaped, sq, ksq, inflight>>
    BY <1>4 DEF onRequestAsync
  <2>2. Pending' = Pending \cup {m} /\ m \notin Pending
    BY <2>1 DEF Pending, TypeOK, GoType
  <2>3. Cardinality(Pending') = Cardinality(Pending) + 1
    BY <2>2, PendingFinite, FS_AddElement
  <2>4. InflightCounts'
    BY <2>1, <2>3, PendingFinite DEF InflightCounts, TypeOK, IoType
  <2>5. NoFailure'
    BY <1>4 DEF onRequestAsync, NoFailure, TypeOK, GoType, Msg
  <2>6. SlotsFilled'
    BY <2>1 DEF SlotsFilled, NoTornSqe, TypeOK, GoType
  <2> QED BY <2>1, <2>4, <2>5, <2>6 DEF Barrier, Alone
<1>5. CASE demo_handle_io_async
  <2>1. /\ qpc = "count" /\ qpc' = "reap" /\ inflight' = inflight + 1
        /\ UNCHANGED <<reaped, gpc, msg, sq, ksq>>
    BY <1>5 DEF demo_handle_io_async
  <2>2. Pending' = Pending
    BY <2>1 DEF Pending
  <2>3. InflightCounts'
    BY <2>1, <2>2, PendingFinite DEF InflightCounts, TypeOK, IoType
  <2>4. reaped
    BY <2>1 DEF Barrier, Alone
  <2> QED
    BY <2>1, <2>2, <2>3, <2>4 DEF NoFailure, SlotsFilled, NoTornSqe, Barrier, Alone
<1>6. CASE wait_cqe \/ wait_etime \/ wait_eintr
  <2>1. /\ qpc = "wait_cqe" /\ qpc' = "reap"
        /\ UNCHANGED <<gpc, msg, sq, ksq, inflight>>
    BY <1>6 DEF wait_cqe, wait_etime, wait_eintr, WaitReturns
  <2>2. NoFailure' /\ InflightCounts' /\ SlotsFilled' /\ Pending' = Pending
    BY <2>1, OtherStep
  <2> QED BY <2>1, <2>2 DEF Barrier, Alone
<1>7. CASE ublksrv_handle_cqe
  <2>1. /\ qpc = "reap" /\ qpc' \in {"request", "reap"} /\ reaped' = TRUE
        /\ UNCHANGED <<gpc, msg, sq, ksq, inflight>>
    BY <1>7 DEF ublksrv_handle_cqe
  <2>2. NoFailure' /\ InflightCounts' /\ SlotsFilled' /\ Pending' = Pending
    BY <2>1, OtherStep
  <2> QED BY <2>1, <2>2 DEF Barrier, Alone
<1>8. CASE process_io_leave
  <2>1. /\ qpc = "reap" /\ qpc' \in {"discard", "process"}
        /\ qpc' = "discard" => ~reaped
        /\ UNCHANGED <<gpc, msg, sq, ksq, inflight>>
    BY <1>8 DEF process_io_leave
  <2>2. NoFailure' /\ InflightCounts' /\ SlotsFilled' /\ Pending' = Pending
    BY <2>1, OtherStep
  <2> QED BY <2>1, <2>2 DEF Barrier, Alone
<1>9. CASE \/ process_io_enter \/ spurious_wakeup \/ submitted
           \/ ublksrv_queue_discard_io_pages
  <2>1. /\ \/ qpc' \in {"exit", "test", "process"}
           \/ qpc = "submit" /\ qpc' = "wait_cqe"
           \/ qpc = "discard" /\ qpc' = "discard"
        /\ qpc # "count"
        /\ UNCHANGED <<gpc, msg, sq, ksq, inflight>>
    BY <1>9 DEF process_io_enter, spurious_wakeup, submitted,
       ublksrv_queue_discard_io_pages
  <2>2. NoFailure' /\ InflightCounts' /\ SlotsFilled' /\ Pending' = Pending
    BY <2>1, OtherStep
  <2> QED BY <2>1, <2>2 DEF Barrier, Alone
<1> QED
  BY <1>1, <1>2, <1>3, <1>4, <1>5, <1>6, <1>7, <1>8, <1>9 DEF QueueThread

\* A step of a goroutine that is neither its decrement nor an early return.
LEMMA GoroutineKeepsPending ==
  ASSUME BarrierInv, NEW m \in Messages, NEW pc \in GoPc,
         gpc' = [gpc EXCEPT ![m] = pc],
         m \in Pending <=> pc \notin {"free", "signal", "unlock", "return"}
  PROVE  Pending' = Pending
BY DEF Pending, BarrierInv, TypeOK, GoType

\* ... and for steps of a goroutine, when handlers do not fail.
LEMMA GoroutineKeepsBarrier ==
  ASSUME BarrierInv, NEW m \in Messages, Goroutine(m), HandlerMayFail = FALSE
  PROVE  NoFailure' /\ InflightCounts' /\ Barrier' /\ SlotsFilled'
<1> USE DEF BarrierInv
<1>1. gpc \in [Messages -> GoPc] /\ msg \in [Messages -> Msg] /\ inflight \in Int
  BY DEF TypeOK, GoType, IoType
<1>2. NoFailure'
  <2>1. msg[m].result = 0 /\ msg[m].phase = "DONE" /\ msg[m] \in Msg
    BY <1>1 DEF NoFailure
  <2>2. \/ UNCHANGED msg
        \/ msg' = [msg EXCEPT ![m].phase = "DONE"]
        \/ msg' = [msg EXCEPT ![m].tag = 0, ![m].req = 0]
    BY <2>1 DEF Goroutine, handleRequests, handle, resume, copy,
       ublksrv_mark_io_done, pthread_mutex_lock, io_uring_get_sqe, fill_sqe,
       atomic_fetch_sub, pthread_cond_signal, pthread_mutex_unlock, return_message
  <2> QED BY <1>1, <2>1, <2>2 DEF NoFailure, Msg
<1>3. /\ (qpc' = qpc \/ (qpc = "asleep" /\ qpc' = "test"))
      /\ reaped' = reaped
  <2>1. CASE pthread_cond_signal(m)
    <3>1. reaped' = reaped
      BY <2>1 DEF pthread_cond_signal
    <3>2. qpc' = qpc \/ (qpc = "asleep" /\ qpc' = "test")
      BY <2>1 DEF pthread_cond_signal
    <3> QED BY <3>1, <3>2
  <2>2. CASE ~pthread_cond_signal(m)
    <3>1. UNCHANGED threadVars
      BY <2>2 DEF Goroutine, handleRequests, handle, resume, copy, ublksrv_mark_io_done,
         pthread_mutex_lock, io_uring_get_sqe, fill_sqe, atomic_fetch_sub,
         pthread_mutex_unlock, return_message
    <3> QED BY <3>1
  <2> QED BY <2>1, <2>2
<1>4. InflightCounts' /\ Pending' \subseteq Pending
  <2>1. CASE gpc[m] = "dec" \/ (gpc[m] = "reserve" /\ gpc'[m] # "fill")
    <3>1. /\ gpc' = [gpc EXCEPT ![m] = gpc'[m]]
          /\ gpc'[m] \in {"signal", "unlock", "return"}
          /\ inflight' >= inflight - 1
      <4>1. msg[m].phase = "DONE"
        BY DEF NoFailure
      <4>2. CASE atomic_fetch_sub(m)
        BY <1>1, <4>2 DEF atomic_fetch_sub, Goto
      <4>3. CASE io_uring_get_sqe(m)
        BY <1>1, <2>1, <4>1, <4>3 DEF io_uring_get_sqe, Goto, AfterComplete
      <4> QED
        BY <2>1, <4>2, <4>3 DEF Goroutine, handleRequests, handle, resume, copy,
           ublksrv_mark_io_done, pthread_mutex_lock, fill_sqe, pthread_cond_signal,
           pthread_mutex_unlock, return_message
    <3>2. m \in Pending /\ Pending' = Pending \ {m}
      BY <1>1, <2>1, <3>1 DEF Pending
    <3>3. Cardinality(Pending') = Cardinality(Pending) - 1
      BY <3>2, PendingFinite, FS_RemoveElement
    <3>4. inflight' \in Int
      BY NextTypeOK DEF Next, TypeOK, IoType
    <3> QED
      BY <1>1, <1>3, <3>1, <3>2, <3>3, <3>4, PendingFinite DEF InflightCounts
  <2>2. CASE gpc[m] # "dec" /\ (gpc[m] = "reserve" => gpc'[m] = "fill")
    <3>1. /\ gpc' = [gpc EXCEPT ![m] = gpc'[m]] /\ gpc'[m] \in GoPc
          /\ (m \in Pending <=> gpc'[m] \notin {"free", "signal", "unlock", "return"})
          /\ inflight' = inflight
      <4>1. msg[m].phase = "DONE"
        BY DEF NoFailure
      <4>2. CASE pthread_mutex_unlock(m)
        BY <1>1, <4>1, <4>2
        DEF pthread_mutex_unlock, Goto, AfterComplete, Pending, GoPc
      <4>3. CASE io_uring_get_sqe(m)
        BY <1>1, <2>2, <4>3 DEF io_uring_get_sqe, Goto, Pending, GoPc
      <4>4. CASE resume(m)
        BY <1>1, <4>4 DEF resume, Goto, AfterReply, Pending, GoPc
      <4> QED
        BY <1>1, <2>2, <4>2, <4>3, <4>4 DEF Goroutine, handleRequests, handle, copy,
           ublksrv_mark_io_done, pthread_mutex_lock, fill_sqe, atomic_fetch_sub,
           pthread_cond_signal, return_message, Goto, Pending, GoPc
    <3>2. Pending' = Pending
      BY <3>1, GoroutineKeepsPending
    <3>3. qpc' = "count" <=> qpc = "count"
      BY <1>3
    <3>4. InflightCounts
      OBVIOUS
    <3> QED BY <3>1, <3>2, <3>3, <3>4 DEF InflightCounts
  <2> QED BY <2>1, <2>2
<1>5. Barrier'
  BY <1>3, <1>4 DEF Barrier, Alone
<1>6. SlotsFilled'
  <2>0. sq \in Seq(Sqe) /\ ksq \in Seq(Sqe)
    BY DEF TypeOK, RingType
  <2>1. CASE fill_sqe(m)
    <3>1. result[msg[m].tag] \in Results
      BY <1>1 DEF TypeOK, IoType, Msg
    <3> QED
      BY <2>0, <2>1, <3>1, FillType DEF fill_sqe, SlotsFilled, NoTornSqe
  <2>2. CASE io_uring_get_sqe(m) /\ gpc'[m] = "fill"
    <3>1. ksq' = ksq
      BY <2>2 DEF io_uring_get_sqe
    <3> QED BY <2>2, <3>1 DEF SlotsFilled, NoTornSqe
  <2>3. CASE ~fill_sqe(m) /\ ~(io_uring_get_sqe(m) /\ gpc'[m] = "fill")
    <3>1. /\ sq' = sq /\ ksq' = ksq /\ gpc[m] # "fill"
          /\ \A n \in Messages \ {m} : gpc'[n] = gpc[n]
      <4>1. CASE io_uring_get_sqe(m)
        BY <1>1, <2>3, <4>1 DEF io_uring_get_sqe, Goto
      <4> QED
        BY <1>1, <2>3, <4>1 DEF Goroutine, handleRequests, handle, resume, copy,
           ublksrv_mark_io_done, pthread_mutex_lock, atomic_fetch_sub,
           pthread_cond_signal, pthread_mutex_unlock, return_message, Goto
    <3> QED BY <3>1 DEF SlotsFilled, NoTornSqe
  <2> QED BY <2>1, <2>2, <2>3
<1> QED BY <1>2, <1>4, <1>5, <1>6

\* BarrierInv holds when ublksrv_queue_init returns ...
LEMMA InitBarrierInv == Init => BarrierInv
<1> SUFFICES ASSUME Init PROVE BarrierInv
  OBVIOUS
<1>1. Pending = {}
  BY DEF Init, Pending
<1>2. InflightCounts
  BY <1>1, FS_EmptySet DEF Init, InflightCounts
<1>3. NoFailure
  BY DEF Init, NoFailure
<1>4. Barrier
  BY <1>1 DEF Init, Barrier, Alone
<1>5. SlotsFilled
  <2>1. \A i \in DOMAIN sq : sq[i].filled = TRUE
    BY DEF Init
  <2>2. NoTornSqe
    BY DEF Init, NoTornSqe
  <2> QED BY <2>1, <2>2 DEF SlotsFilled
<1> QED BY <1>2, <1>3, <1>4, <1>5, InitTypeOK DEF BarrierInv

\* ... and every step keeps it, as long as no handler fails.
LEMMA NextBarrierInv ==
  ASSUME HandlerMayFail = FALSE
  PROVE  BarrierInv /\ [Next]_vars => BarrierInv'
<1> SUFFICES ASSUME BarrierInv, [Next]_vars PROVE BarrierInv'
  OBVIOUS
<1>1. TypeOK'
  BY NextTypeOK DEF BarrierInv
<1>2. CASE QueueThread \/ spurious_wakeup \/ wait_eintr
  BY <1>1, <1>2, QueueThreadKeepsBarrier DEF BarrierInv
<1>3. ASSUME NEW m \in Messages, Goroutine(m) PROVE BarrierInv'
  BY <1>1, <1>3, GoroutineKeepsBarrier DEF BarrierInv
<1>4. CASE Driver \/ UNCHANGED vars
  <2>1. UNCHANGED <<qpc, reaped, gpc, msg, sq, ksq, inflight>>
    BY <1>4 DEF Driver, Dispatch, StopDev, Abort
  <2>2. NoFailure' /\ InflightCounts' /\ SlotsFilled' /\ Pending' = Pending
    BY <2>1, OtherStep
  <2>3. Barrier'
    BY <2>1, <2>2 DEF BarrierInv, Barrier, Alone
  <2> QED BY <1>1, <2>2, <2>3 DEF BarrierInv
<1> QED BY <1>2, <1>3, <1>4 DEF Next, Terminated

\* The invariant that explains why submission needs no lock.
THEOREM BarrierCorrect == ASSUME HandlerMayFail = FALSE PROVE Spec => []BarrierInv
BY InitBarrierInv, NextBarrierInv, PTL DEF Spec

\* As long as no handler fails, the kernel never consumes a slot that
\* ublksrv_queue_io_cmd is still filling.
THEOREM TornFree == ASSUME HandlerMayFail = FALSE PROVE Spec => []NoTornSqe
<1>1. BarrierInv => NoTornSqe
  BY DEF BarrierInv, SlotsFilled
<1> QED BY <1>1, BarrierCorrect, PTL

==============================================================================
