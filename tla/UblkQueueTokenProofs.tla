------------------------ MODULE UblkQueueTokenProofs ------------------------
(***************************************************************************)
(* The token argument: when handlers do not fail, each tag of UblkQueue    *)
(* has one token, and the remaining safety properties of the queue follow. *)
(***************************************************************************)
EXTENDS UblkQueueProofs

USE DEF vars, threadVars, locals, worldVars, ioVars, ringVars, goVars, drvVars, reqVars
USE DEF must_wait, quiet, last_tag, failed, done_flags, was_last

\* The invariant, with the barrier it rests on.
QueueInv == BarrierInv /\ TokenInv

----------------------------------------------------------------------------
(* Consequences of the invariant *)

\* The fields of a submission and of a completion.
LEMMA EntryFields ==
  /\ \A e \in Sqe : /\ e.cmd \in {"FETCH", "COMMIT"} /\ e.tag \in Tags
                    /\ e.res \in Results /\ e.filled \in BOOLEAN
  /\ \A c \in Cqe : c.tag \in Tags /\ c.res \in {"OK", "ABORT", "ERROR"}
BY DEF Sqe, Cqe

\* The types of everything the token argument looks at.
LEMMA TokenTypes ==
  ASSUME QueueInv
  PROVE  /\ qpc \in QueuePc /\ cur \in Tags /\ inflight \in Int
         /\ sq \in Seq(Sqe) /\ ksq \in Seq(Sqe) /\ cq \in Seq(Cqe) /\ Ring \in Seq(Sqe)
         /\ gpc \in [Messages -> GoPc] /\ msg \in [Messages -> Msg]
         /\ drv \in [Tags -> {"idle", "fetch", "served", "aborted"}]
         /\ iod \in [Tags -> 0 .. MaxRequests] /\ issued \in 0 .. MaxRequests
         /\ flags \in [Tags -> SUBSET IoFlags] /\ result \in [Tags -> Results]
         /\ \A m \in Messages : msg[m].tag \in Tags /\ msg[m].req \in 0 .. MaxRequests
         /\ \A i \in DOMAIN Ring : Ring[i] \in Sqe /\ Ring[i].tag \in Tags
         /\ \A i \in DOMAIN cq : cq[i] \in Cqe /\ cq[i].tag \in Tags
<1>1. TypeOK
  BY DEF QueueInv, BarrierInv
<1>2. sq \in Seq(Sqe) /\ ksq \in Seq(Sqe) /\ cq \in Seq(Cqe)
  BY <1>1 DEF TypeOK, RingType
<1>3. Ring \in Seq(Sqe)
  BY <1>2 DEF Ring
<1>4. \A i \in DOMAIN Ring : Ring[i] \in Sqe /\ Ring[i].tag \in Tags
  <2>1. \A i \in DOMAIN Ring : Ring[i] \in Sqe
    BY <1>3
  <2> QED BY <2>1, EntryFields
<1>5. \A i \in DOMAIN cq : cq[i] \in Cqe /\ cq[i].tag \in Tags
  <2>1. \A i \in DOMAIN cq : cq[i] \in Cqe
    BY <1>2
  <2> QED BY <2>1, EntryFields
<1>6. \A m \in Messages : msg[m].tag \in Tags /\ msg[m].req \in 0 .. MaxRequests
  BY <1>1 DEF TypeOK, GoType, Msg
<1> QED
  BY <1>1, <1>2, <1>3, <1>4, <1>5, <1>6
     DEF TypeOK, ThreadType, IoType, GoType, DrvType

\* A pending goroutine is before or after the reservation of its slot.
LEMMA PendingParts ==
  ASSUME gpc \in [Messages -> GoPc]
  PROVE  Pending = Working \cup Submitting /\ Working \cap Submitting = {}
BY DEF Pending, Working, Submitting, GoPc

\* A request that still has a goroutine is on the tag of that goroutine.
LEMMA PendingServed ==
  ASSUME QueueInv, NEW m \in Pending
  PROVE  drv[msg[m].tag] = "served"
<1>1. m \in Working \/ m \in Submitting
  BY TokenTypes, PendingParts
<1>2. CASE m \in Working
  BY <1>2 DEF QueueInv, TokenInv, DriverAgrees
<1>3. CASE m \in Submitting
  <2>1. PICK i \in DOMAIN sq : sq[i].cmd = "COMMIT" /\ sq[i].tag = msg[m].tag
    BY <1>3 DEF QueueInv, TokenInv, ResultsStored
  <2>2. qpc # "submit"
    BY <2>1 DEF QueueInv, TokenInv, RingSplit
  <2>3. Ring = sq
    BY <2>2 DEF Ring
  <2>4. drv[Ring[i].tag] = IF Ring[i].cmd = "FETCH" THEN "idle" ELSE "served"
    BY <2>1, <2>3 DEF QueueInv, TokenInv, DriverAgrees
  <2> QED BY <2>1, <2>3, <2>4
<1> QED BY <1>1, <1>2, <1>3

\* A goroutine that is pending finds the flushed part of the ring consumed.
LEMMA PendingNotSubmit ==
  ASSUME QueueInv, NEW m \in Pending
  PROVE  qpc # "submit" /\ qpc # "exit" /\ ksq = <<>> /\ Ring = sq /\ ~stopped
<1>1. qpc # "submit"
  BY DEF QueueInv, BarrierInv, Barrier, Alone
<1>2. drv[msg[m].tag] = "served" /\ msg[m].tag \in Tags
  BY PendingServed, TokenTypes DEF Pending
<1>3. ~stopped
  BY <1>2 DEF QueueInv, TokenInv, StopOrder
<1> QED BY <1>1, <1>3 DEF QueueInv, TokenInv, StopOrder, RingSplit, Ring

----------------------------------------------------------------------------
(* Steps that move no token *)

\* If neither the rings nor the queue thread's request nor the set of working
\* goroutines changes, the tokens are where they were.
LEMMA SameTokens ==
  ASSUME QueueInv, UNCHANGED <<cq, drv, iod>>, Ring' = Ring,
         qpc' = "request" <=> qpc = "request", qpc = "request" => cur' = cur,
         Working' = Working,
         \A m \in Working : msg'[m].tag = msg[m].tag /\ msg'[m].req = msg[m].req
  PROVE  /\ \A t \in Tags : /\ OnRing(t)' <=> OnRing(t)
                            /\ OnCq(t)' <=> OnCq(t)
                            /\ OnThread(t)' <=> OnThread(t)
                            /\ OnGoroutine(t)' <=> OnGoroutine(t)
         /\ OnePlace' /\ OneToken' /\ DriverAgrees'
<1>1. \A t \in Tags : /\ OnRing(t)' <=> OnRing(t)
                      /\ OnCq(t)' <=> OnCq(t)
                      /\ OnThread(t)' <=> OnThread(t)
                      /\ OnGoroutine(t)' <=> OnGoroutine(t)
  BY DEF OnRing, OnCq, OnThread, OnGoroutine
<1>2. OnePlace'
  BY <1>1 DEF QueueInv, TokenInv, OnePlace
<1>3. OneToken'
  BY DEF QueueInv, TokenInv, OneToken
<1>4. DriverAgrees'
  BY <1>1 DEF QueueInv, TokenInv, DriverAgrees
<1> QED BY <1>1, <1>2, <1>3, <1>4

\* The book of requests is kept if nothing in it changes.
LEMMA SameRequests ==
  ASSUME QueueInv, UNCHANGED <<drv, iod, issued, op, handled, outcome>>
  PROVE  RequestsOnTags' /\ CommitsHandlerResult' /\ (\A r : FullResult(r)' = FullResult(r))
<1>1. \A r : FullResult(r)' = FullResult(r)
  BY DEF FullResult
<1>2. RequestsOnTags'
  BY DEF QueueInv, TokenInv, RequestsOnTags
<1>3. CommitsHandlerResult'
  BY <1>1 DEF QueueInv, TokenInv, CommitsHandlerResult
<1> QED BY <1>1, <1>2, <1>3

\* The queue thread goes on without taking or giving a token.
LEMMA ThreadFrame ==
  ASSUME QueueInv,
         UNCHANGED <<flags, result, lock, gpc, msg, cq, drv, iod, issued, stopped,
                     stopping, op, handled, outcome>>,
         Ring' = Ring, RingSplit', InflightExact', Submitting = {} \/ sq' = sq,
         qpc # "request", qpc' # "request", qpc' = "exit" => stopping
  PROVE  TokenInv'
<1>1. Working' = Working /\ Submitting' = Submitting /\ Critical' = Critical
  BY DEF Working, Submitting, Critical
<1>2. /\ \A t \in Tags : (OnCq(t)' <=> OnCq(t)) /\ (OnThread(t)' <=> OnThread(t))
      /\ OnePlace' /\ OneToken' /\ DriverAgrees'
  BY <1>1, SameTokens
<1>3. RequestsOnTags' /\ CommitsHandlerResult' /\ (\A r : FullResult(r)' = FullResult(r))
  BY SameRequests
<1>4. HandledByPlace'
  BY <1>1, <1>2 DEF QueueInv, TokenInv, HandledByPlace
<1>5. ResultsStored'
  BY <1>1, <1>3 DEF QueueInv, TokenInv, ResultsStored
<1>6. LockHeld'
  BY <1>1 DEF QueueInv, TokenInv, LockHeld
<1>7. StopOrder'
  BY DEF QueueInv, TokenInv, StopOrder
<1> QED BY <1>2, <1>3, <1>4, <1>5, <1>6, <1>7 DEF TokenInv

\* The count stays exact while the same goroutines are pending.
LEMMA SameCount ==
  ASSUME QueueInv, UNCHANGED inflight, Pending' = Pending, qpc' = "count" <=> qpc = "count"
  PROVE  InflightExact'
BY DEF QueueInv, TokenInv, InflightExact

\* Steps of the queue thread that take or give no token.
LEMMA ThreadKeepsTokens ==
  ASSUME QueueInv,
         \/ process_io_enter \/ wait_inflight \/ spurious_wakeup \/ flush_sq \/ submitted
         \/ wait_cqe \/ wait_etime \/ wait_eintr \/ demo_handle_io_async
         \/ process_io_leave \/ ublksrv_queue_discard_io_pages
  PROVE  TokenInv'
<1> DEFINE Rest == UNCHANGED <<flags, result, lock, gpc, msg, cq, drv, iod, issued, stopped,
                               stopping, op, handled, outcome>>
<1>0. RingSplit /\ Barrier /\ sq \in Seq(Sqe) /\ ksq \in Seq(Sqe) /\ inflight \in Int
  BY TokenTypes DEF QueueInv, TokenInv, BarrierInv
<1>1. Rest => Pending' = Pending
  BY DEF Pending
<1>2. CASE flush_sq
  <2>1. /\ Rest /\ qpc = "flush" /\ qpc' = "submit" /\ UNCHANGED inflight
        /\ sq' = <<>> /\ ksq' = ksq \o sq
    BY <1>2 DEF flush_sq
  <2>2. ksq = <<>> /\ ksq' = sq
    BY <1>0, <2>1 DEF RingSplit
  <2>3. Ring' = Ring /\ RingSplit'
    BY <2>1, <2>2 DEF Ring, RingSplit
  <2>4. InflightExact'
    BY <1>1, <2>1, SameCount
  <2>5. Submitting = {}
    <3>1. Pending = {}
      BY <1>0, <2>1 DEF Barrier, Alone
    <3> QED BY <3>1, TokenTypes, PendingParts
  <2> QED BY <2>1, <2>3, <2>4, <2>5, ThreadFrame
<1>3. CASE demo_handle_io_async
  <2>1. /\ Rest /\ qpc = "count" /\ qpc' = "reap" /\ inflight' = inflight + 1
        /\ UNCHANGED <<sq, ksq>>
    BY <1>3 DEF demo_handle_io_async
  <2>2. Ring' = Ring /\ RingSplit'
    BY <1>0, <2>1 DEF Ring, RingSplit
  <2>3. InflightExact'
    BY <1>0, <1>1, <2>1, PendingFinite DEF QueueInv, TokenInv, InflightExact
  <2> QED BY <2>1, <2>2, <2>3, ThreadFrame
<1>4. CASE submitted
  <2>1. /\ Rest /\ qpc = "submit" /\ ksq = <<>> /\ qpc' = "wait_cqe"
        /\ UNCHANGED <<sq, ksq, inflight>>
    BY <1>4 DEF submitted
  <2>2. Ring' = Ring /\ RingSplit'
    BY <1>0, <2>1 DEF Ring, RingSplit
  <2>3. InflightExact'
    BY <1>1, <2>1, SameCount
  <2> QED BY <2>1, <2>2, <2>3, ThreadFrame
<1>5. CASE ~flush_sq /\ ~demo_handle_io_async /\ ~submitted
  <2>1. /\ Rest /\ UNCHANGED <<sq, ksq, inflight>>
        /\ qpc \notin {"submit", "count", "request"}
        /\ qpc' \notin {"submit", "count", "request"}
        /\ qpc' = "exit" => stopping
        /\ qpc' = "exit" => sq = <<>>
        /\ qpc' = "discard" => sq = <<>> \/ qpc = "discard"
    BY <1>5 DEF process_io_enter, ublksrv_queue_is_done, wait_inflight, spurious_wakeup,
       wait_cqe, wait_etime, wait_eintr, WaitReturns, process_io_leave,
       ublksrv_queue_discard_io_pages
  <2>2. Ring' = Ring /\ RingSplit'
    BY <1>0, <2>1 DEF Ring, RingSplit
  <2>3. InflightExact'
    BY <1>1, <2>1, SameCount
  <2> QED BY <2>1, <2>2, <2>3, ThreadFrame
<1> QED BY <1>2, <1>3, <1>4, <1>5

----------------------------------------------------------------------------
(* Steps of a goroutine that keeps its token, or has none any more *)

\* Such a step leaves the rings and the driver alone.
LEMMA GoroutineFrame ==
  ASSUME QueueInv, NEW m \in Messages,
         UNCHANGED <<sq, ksq, cq, cur, stopping, drv, iod, stopped>>,
         qpc' = qpc \/ (qpc = "asleep" /\ qpc' = "test"),
         \A n \in Messages \ {m} : gpc'[n] = gpc[n] /\ msg'[n] = msg[n],
         m \in Working' <=> m \in Working,
         m \in Working => msg'[m].tag = msg[m].tag /\ msg'[m].req = msg[m].req
  PROVE  /\ Ring' = Ring /\ Working' = Working
         /\ \A n \in Working : msg'[n].tag = msg[n].tag /\ msg'[n].req = msg[n].req
         /\ \A t \in Tags : (OnCq(t)' <=> OnCq(t)) /\ (OnThread(t)' <=> OnThread(t))
         /\ RingSplit' /\ OnePlace' /\ OneToken' /\ DriverAgrees' /\ StopOrder'
<1>1. Ring' = Ring
  BY DEF Ring
<1>2. Working' = Working
  BY DEF Working
<1>3. \A n \in Working : msg'[n].tag = msg[n].tag /\ msg'[n].req = msg[n].req
  BY DEF Working
<1>4. /\ \A t \in Tags : (OnCq(t)' <=> OnCq(t)) /\ (OnThread(t)' <=> OnThread(t))
      /\ OnePlace' /\ OneToken' /\ DriverAgrees'
  BY <1>1, <1>2, <1>3, SameTokens
<1>5. RingSplit'
  BY DEF QueueInv, TokenInv, RingSplit
<1>6. StopOrder'
  BY DEF QueueInv, TokenInv, StopOrder
<1> QED BY <1>1, <1>2, <1>3, <1>4, <1>5, <1>6

\* The part of the invariant that only positions and locals bear on, for a step
\* that stores nothing in q->ios and runs no handler.
LEMMA GoroutineQuiet ==
  ASSUME QueueInv, NEW m \in Messages, NEW pc \in GoPc,
         UNCHANGED <<sq, ksq, cq, cur, stopping, drv, iod, stopped, flags, result,
                     issued, op, handled, outcome>>,
         qpc' = qpc \/ (qpc = "asleep" /\ qpc' = "test"),
         gpc' = [gpc EXCEPT ![m] = pc],
         \A n \in Messages \ {m} : msg'[n] = msg[n],
         m \in Working <=> pc \in {"spawned", "handling", "replied", "copy",
                                   "mark", "lock", "reserve"},
         gpc[m] \in {"spawned", "handling"} <=> pc \in {"spawned", "handling"},
         gpc[m] # "fill", pc \notin {"fill", "dec"},
         pc \in {"lock", "reserve"} => gpc[m] = "lock",
         m \in Working => msg'[m].tag = msg[m].tag /\ msg'[m].req = msg[m].req
  PROVE  /\ RingSplit' /\ OnePlace' /\ OneToken' /\ DriverAgrees' /\ StopOrder'
         /\ RequestsOnTags' /\ CommitsHandlerResult' /\ HandledByPlace' /\ ResultsStored'
<1>0. gpc \in [Messages -> GoPc] /\ gpc'[m] = pc
  BY TokenTypes
<1>1. \A n \in Messages \ {m} : gpc'[n] = gpc[n] /\ msg'[n] = msg[n]
  BY <1>0
<1>2. m \in Working' <=> m \in Working
  BY <1>0 DEF Working
<1>3. /\ Ring' = Ring /\ Working' = Working
      /\ \A n \in Working : msg'[n].tag = msg[n].tag /\ msg'[n].req = msg[n].req
      /\ \A t \in Tags : (OnCq(t)' <=> OnCq(t)) /\ (OnThread(t)' <=> OnThread(t))
      /\ RingSplit' /\ OnePlace' /\ OneToken' /\ DriverAgrees' /\ StopOrder'
  BY <1>1, <1>2, GoroutineFrame
<1>4. RequestsOnTags' /\ CommitsHandlerResult' /\ (\A r : FullResult(r)' = FullResult(r))
  BY SameRequests
<1>5. HandledByPlace'
  <2>1. \A n \in Working : gpc'[n] \in {"spawned", "handling"}
                             <=> gpc[n] \in {"spawned", "handling"}
    BY <1>0, <1>1 DEF Working
  <2> QED BY <1>3, <2>1 DEF QueueInv, TokenInv, HandledByPlace
<1>6. ResultsStored'
  <2>1. \A n \in Messages : gpc'[n] \in {"lock", "reserve"} =>
          gpc[n] \in {"lock", "reserve"} /\ msg'[n].tag = msg[n].tag
    BY <1>0, <1>1 DEF Working
  <2>2. \A n \in Messages : (gpc'[n] = "fill" <=> gpc[n] = "fill")
                            /\ (gpc[n] = "fill" => msg'[n].tag = msg[n].tag)
    BY <1>0, <1>1
  <2>3. \A n \in Submitting' : n \in Submitting /\ msg'[n].tag = msg[n].tag
    BY <1>0, <1>1 DEF Submitting
  <2> QED BY <1>3, <1>4, <2>1, <2>2, <2>3 DEF QueueInv, TokenInv, ResultsStored
<1> QED BY <1>3, <1>4, <1>5, <1>6

\* The lock and the count, for a step that neither locks nor counts off.
LEMMA SameLockAndCount ==
  ASSUME QueueInv, NEW m \in Messages, NEW pc \in GoPc,
         gpc' = [gpc EXCEPT ![m] = pc], UNCHANGED <<lock, inflight>>,
         qpc' = qpc \/ (qpc = "asleep" /\ qpc' = "test"),
         m \in Critical <=> pc \in {"reserve", "fill", "dec", "signal", "unlock"},
         m \in Pending <=> pc \notin {"free", "signal", "unlock", "return"}
  PROVE  LockHeld' /\ InflightExact'
<1>1. Critical' = Critical
  BY TokenTypes DEF Critical
<1>2. Pending' = Pending
  BY GoroutineKeepsPending DEF QueueInv
<1>3. InflightExact'
  BY <1>2, SameCount
<1> QED BY <1>1, <1>3 DEF QueueInv, TokenInv, LockHeld

\* Every step of a goroutine but the handler's return, the marking of the io, the
\* reservation of the slot and its filling.
LEMMA QuietStep ==
  ASSUME QueueInv, NEW m \in Messages,
         \/ handleRequests(m) \/ resume(m) \/ copy(m) \/ pthread_mutex_lock(m)
         \/ atomic_fetch_sub(m) \/ pthread_cond_signal(m) \/ pthread_mutex_unlock(m)
         \/ return_message(m)
  PROVE  TokenInv'
<1>0. /\ gpc \in [Messages -> GoPc] /\ msg \in [Messages -> Msg] /\ msg[m] \in Msg
      /\ inflight \in Int /\ msg[m].result = 0 /\ msg[m].phase = "DONE"
  BY TokenTypes DEF QueueInv, BarrierInv, NoFailure
<1> DEFINE Rest == /\ UNCHANGED <<sq, ksq, cq, cur, stopping, drv, iod, stopped, flags,
                                  result, issued, op, handled, outcome>>
                   /\ qpc' = qpc \/ (qpc = "asleep" /\ qpc' = "test")
           Goes(pc) == pc \in GoPc /\ gpc' = [gpc EXCEPT ![m] = pc]
           Parts == /\ RingSplit' /\ OnePlace' /\ OneToken' /\ DriverAgrees' /\ StopOrder'
                    /\ RequestsOnTags' /\ CommitsHandlerResult'
                    /\ HandledByPlace' /\ ResultsStored'
<1>1. CASE handleRequests(m) \/ copy(m) \/ resume(m)
  <2>1. PICK pc \in {"handling", "mark", "copy"} :
             /\ Goes(pc) /\ Rest /\ UNCHANGED <<lock, inflight>>
             /\ gpc[m] \in {"spawned", "replied", "copy"}
             /\ gpc[m] = "spawned" <=> pc = "handling"
             /\ msg' = msg \/ msg' = [msg EXCEPT ![m].phase = "DONE"]
    BY <1>0, <1>1 DEF handleRequests, copy, resume, Goto, AfterReply, GoPc
  <2>2. /\ msg'[m].tag = msg[m].tag /\ msg'[m].req = msg[m].req
        /\ \A n \in Messages \ {m} : msg'[n] = msg[n]
    BY <1>0, <2>1 DEF Msg
  <2>3. Parts
    BY <1>0, <2>1, <2>2, GoroutineQuiet DEF Working
  <2>4. LockHeld' /\ InflightExact'
    BY <2>1, SameLockAndCount DEF Critical, Pending
  <2> QED BY <2>3, <2>4 DEF TokenInv
<1>2. CASE pthread_mutex_lock(m)
  <2>1. /\ Goes("reserve") /\ Rest /\ gpc[m] = "lock" /\ ~lock /\ lock' = TRUE
        /\ UNCHANGED <<inflight, msg>>
    BY <1>2 DEF pthread_mutex_lock, Goto, GoPc
  <2>2. Parts
    BY <1>0, <2>1, GoroutineQuiet DEF Working
  <2>3. Critical = {} /\ Critical' = {m}
    BY <1>0, <2>1 DEF QueueInv, TokenInv, LockHeld, Critical
  <2>4. LockHeld'
    BY <2>1, <2>3 DEF LockHeld
  <2>5. InflightExact'
    <3>1. Pending' = Pending
      BY <2>1, GoroutineKeepsPending DEF QueueInv, Pending
    <3> QED BY <2>1, <3>1, SameCount
  <2> QED BY <2>2, <2>4, <2>5 DEF TokenInv
<1>3. CASE atomic_fetch_sub(m)
  <2>1. PICK pc \in {"signal", "unlock"} :
             /\ Goes(pc) /\ Rest /\ gpc[m] = "dec" /\ inflight' = inflight - 1
             /\ UNCHANGED <<qpc, lock, msg>>
    BY <1>3 DEF atomic_fetch_sub, Goto, GoPc
  <2>2. Parts
    BY <1>0, <2>1, GoroutineQuiet DEF Working
  <2>3. Critical' = Critical
    BY <1>0, <2>1 DEF Critical
  <2>4. LockHeld'
    BY <2>1, <2>3 DEF QueueInv, TokenInv, LockHeld
  <2>5. m \in Pending /\ Pending' = Pending \ {m}
    BY <1>0, <2>1 DEF Pending
  <2>6. Cardinality(Pending') = Cardinality(Pending) - 1
    BY <2>5, PendingFinite, FS_RemoveElement
  <2>7. InflightExact'
    BY <1>0, <2>1, <2>6, PendingFinite DEF QueueInv, TokenInv, InflightExact
  <2> QED BY <2>2, <2>4, <2>7 DEF TokenInv
<1>4. CASE pthread_cond_signal(m)
  <2>1. /\ Goes("unlock") /\ Rest /\ gpc[m] = "signal" /\ UNCHANGED <<lock, inflight, msg>>
    BY <1>4 DEF pthread_cond_signal, Goto, GoPc
  <2>2. Parts
    BY <1>0, <2>1, GoroutineQuiet DEF Working
  <2>3. LockHeld' /\ InflightExact'
    BY <2>1, SameLockAndCount DEF Critical, Pending, GoPc
  <2> QED BY <2>2, <2>3 DEF TokenInv
<1>5. CASE pthread_mutex_unlock(m)
  <2>1. /\ Goes("return") /\ Rest /\ gpc[m] = "unlock" /\ lock' = FALSE
        /\ UNCHANGED inflight
        /\ msg' = [msg EXCEPT ![m].phase = "DONE"]
    BY <1>0, <1>5 DEF pthread_mutex_unlock, Goto, AfterComplete, GoPc
  <2>2. \A n \in Messages \ {m} : msg'[n] = msg[n]
    BY <1>0, <2>1
  <2>3. Parts
    BY <1>0, <2>1, <2>2, GoroutineQuiet DEF Working
  <2>4. Critical = {m} /\ Critical' = {}
    BY <1>0, <2>1 DEF QueueInv, TokenInv, LockHeld, Critical
  <2>5. LockHeld'
    BY <2>1, <2>4 DEF LockHeld
  <2>6. InflightExact'
    <3>1. Pending' = Pending
      BY <2>1, GoroutineKeepsPending DEF QueueInv, Pending
    <3> QED BY <2>1, <3>1, SameCount
  <2> QED BY <2>3, <2>5, <2>6 DEF TokenInv
<1>6. CASE return_message(m)
  <2>1. /\ Goes("free") /\ Rest /\ gpc[m] = "return" /\ UNCHANGED <<lock, inflight>>
        /\ msg' = [msg EXCEPT ![m].tag = 0, ![m].req = 0]
    BY <1>6 DEF return_message, Goto, GoPc
  <2>2. \A n \in Messages \ {m} : msg'[n] = msg[n]
    BY <1>0, <2>1
  <2>3. Parts
    BY <1>0, <2>1, <2>2, GoroutineQuiet DEF Working
  <2>4. LockHeld' /\ InflightExact'
    BY <2>1, SameLockAndCount DEF Critical, Pending
  <2> QED BY <2>3, <2>4 DEF TokenInv
<1> QED BY <1>1, <1>2, <1>3, <1>4, <1>5, <1>6

----------------------------------------------------------------------------
(* The handler returns, and the goroutine marks the io *)

\* A working goroutine has its tag and its request to itself.
LEMMA WorkingAlone ==
  ASSUME QueueInv, NEW m \in Working
  PROVE  /\ m \in Messages /\ m \in Pending /\ msg[m].tag \in Tags
         /\ drv[msg[m].tag] = "served" /\ iod[msg[m].tag] = msg[m].req
         /\ msg[m].req \in 1 .. issued /\ msg[m].req \in Reqs
         /\ outcome[msg[m].req] = "none"
         /\ OnGoroutine(msg[m].tag) /\ ~OnRing(msg[m].tag)
         /\ ~OnCq(msg[m].tag) /\ ~OnThread(msg[m].tag)
         /\ \A t \in Tags : drv[t] = "served" /\ iod[t] = msg[m].req => t = msg[m].tag
<1>1. m \in Messages /\ m \in Pending /\ msg[m].tag \in Tags
  BY TokenTypes, PendingParts DEF Working
<1>2. drv[msg[m].tag] = "served" /\ iod[msg[m].tag] = msg[m].req
  BY DEF QueueInv, TokenInv, DriverAgrees
<1>3. msg[m].req \in 1 .. issued /\ outcome[msg[m].req] = "none"
  BY <1>1, <1>2 DEF QueueInv, TokenInv, RequestsOnTags
<1>4. msg[m].req \in Reqs
  BY <1>3, TokenTypes, BoundAssumption DEF Reqs
<1>5. OnGoroutine(msg[m].tag)
  BY DEF OnGoroutine
<1>6. ~OnRing(msg[m].tag) /\ ~OnCq(msg[m].tag) /\ ~OnThread(msg[m].tag)
  BY <1>1, <1>5 DEF QueueInv, TokenInv, OnePlace
<1>7. \A t \in Tags : drv[t] = "served" /\ iod[t] = msg[m].req => t = msg[m].tag
  BY <1>1, <1>2 DEF QueueInv, TokenInv, RequestsOnTags
<1> QED BY <1>1, <1>2, <1>3, <1>4, <1>5, <1>6, <1>7

\* The IOHandler returns without an error.
LEMMA HandleStep ==
  ASSUME QueueInv, NEW m \in Messages, NEW err \in BOOLEAN, handle(m, err),
         HandlerMayFail = FALSE
  PROVE  TokenInv'
<1> DEFINE r == msg[m].req
<1>0. gpc \in [Messages -> GoPc] /\ handled \in [Reqs -> {"no", "ok", "failed"}]
  BY TokenTypes DEF QueueInv, BarrierInv, TypeOK, ReqType
<1>1. /\ gpc[m] = "handling" /\ gpc' = [gpc EXCEPT ![m] = "replied"]
      /\ handled' = [handled EXCEPT ![r] = "ok"]
      /\ UNCHANGED <<msg, qpc, cur, stopping, flags, result, inflight, lock, sq, ksq, cq,
                     drv, iod, issued, stopped, op, outcome>>
  BY DEF handle, Goto
<1>2. m \in Working
  BY <1>1 DEF Working
<1>3. /\ msg[m].tag \in Tags /\ r \in 1 .. issued /\ r \in Reqs /\ outcome[r] = "none"
      /\ ~OnRing(msg[m].tag) /\ ~OnCq(msg[m].tag) /\ ~OnThread(msg[m].tag)
      /\ \A t \in Tags : drv[t] = "served" /\ iod[t] = r => t = msg[m].tag
  BY <1>2, WorkingAlone
<1>4. \A n \in Messages \ {m} : gpc'[n] = gpc[n] /\ msg'[n] = msg[n]
  BY <1>0, <1>1
<1>5. gpc'[m] = "replied" /\ m \in Working'
  BY <1>0, <1>1 DEF Working
<1>6. /\ Ring' = Ring /\ Working' = Working
      /\ \A t \in Tags : (OnCq(t)' <=> OnCq(t)) /\ (OnThread(t)' <=> OnThread(t))
      /\ RingSplit' /\ OnePlace' /\ OneToken' /\ DriverAgrees' /\ StopOrder'
  BY <1>1, <1>2, <1>4, <1>5, GoroutineFrame
<1>7. \A q \in Reqs : handled'[q] = IF q = r THEN "ok" ELSE handled[q]
  BY <1>0, <1>1
<1>8. \A q : FullResult(q)' = FullResult(q)
  BY <1>1 DEF FullResult
<1>9. RequestsOnTags'
  <2>1. \A q \in Reqs : q > issued => q # r
    BY <1>3, TokenTypes DEF Reqs
  <2> QED BY <1>1, <1>7, <2>1 DEF QueueInv, TokenInv, RequestsOnTags
<1>10. CommitsHandlerResult'
  BY <1>1, <1>3, <1>7, <1>8 DEF QueueInv, TokenInv, CommitsHandlerResult
<1>11. HandledByPlace'
  <2>1. \A t \in Tags : drv[t] = "served" => iod[t] \in Reqs
    BY TokenTypes, BoundAssumption DEF QueueInv, TokenInv, RequestsOnTags, Reqs
  <2>2. \A t \in Tags : drv[t] = "served" /\ (OnCq(t) \/ OnThread(t)) =>
                          handled'[iod[t]] = "no"
    BY <1>3, <1>7, <2>1 DEF QueueInv, TokenInv, HandledByPlace
  <2>3. \A n \in Working : handled'[msg[n].req] =
                             IF gpc'[n] \in {"spawned", "handling"} THEN "no" ELSE "ok"
    <3>1. SUFFICES ASSUME NEW n \in Working
                   PROVE  handled'[msg[n].req] =
                            IF gpc'[n] \in {"spawned", "handling"} THEN "no" ELSE "ok"
      OBVIOUS
    <3>2. CASE n = m
      BY <1>3, <1>5, <1>7, <3>2
    <3>3. CASE n # m
      <4>1. /\ msg[n].tag \in Tags /\ drv[msg[n].tag] = "served"
            /\ iod[msg[n].tag] = msg[n].req /\ msg[n].req \in Reqs /\ n \in Messages
        BY WorkingAlone
      <4>2. msg[n].tag # msg[m].tag
        BY <1>2, <3>3 DEF QueueInv, TokenInv, OneToken
      <4>3. handled'[msg[n].req] = handled[msg[n].req] /\ gpc'[n] = gpc[n]
        BY <1>3, <1>4, <1>7, <3>3, <4>1, <4>2
      <4> QED BY <4>3 DEF QueueInv, TokenInv, HandledByPlace
    <3> QED BY <3>2, <3>3
  <2>4. \A i \in DOMAIN Ring : Ring[i].cmd = "COMMIT" => handled'[iod[Ring[i].tag]] = "ok"
    <3>1. SUFFICES ASSUME NEW i \in DOMAIN Ring, Ring[i].cmd = "COMMIT"
                   PROVE  handled'[iod[Ring[i].tag]] = "ok"
      OBVIOUS
    <3>2. handled[iod[Ring[i].tag]] = "ok"
      BY <3>1 DEF QueueInv, TokenInv, HandledByPlace
    <3>3. drv[Ring[i].tag] = "served" /\ Ring[i].tag \in Tags
      BY <3>1, TokenTypes DEF QueueInv, TokenInv, DriverAgrees
    <3> QED BY <1>7, <2>1, <3>2, <3>3
  <2> QED BY <1>1, <1>6, <2>2, <2>3, <2>4 DEF HandledByPlace
<1>12. ResultsStored'
  <2>1. \A n \in Messages : /\ gpc'[n] \in {"lock", "reserve"} <=> gpc[n] \in {"lock", "reserve"}
                            /\ gpc'[n] = "fill" <=> gpc[n] = "fill"
    BY <1>1, <1>4, <1>5
  <2>2. Submitting' = Submitting
    BY <1>1, <1>4, <1>5 DEF Submitting
  <2> QED BY <1>1, <1>6, <1>8, <2>1, <2>2 DEF QueueInv, TokenInv, ResultsStored
<1>13. LockHeld' /\ InflightExact'
  BY <1>1, SameLockAndCount DEF Critical, Pending, GoPc
<1> QED BY <1>6, <1>9, <1>10, <1>11, <1>12, <1>13 DEF TokenInv

\* ublksrv_mark_io_done stores the result and the flags of the goroutine's own
\* tag; no other goroutine has that tag, so nothing stored is overwritten.
LEMMA MarkStep ==
  ASSUME QueueInv, NEW m \in Messages, ublksrv_mark_io_done(m)
  PROVE  TokenInv'
<1> DEFINE t == msg[m].tag
<1>0. /\ gpc \in [Messages -> GoPc] /\ flags \in [Tags -> SUBSET IoFlags]
      /\ result \in [Tags -> Results] /\ msg[m].phase = "DONE"
  BY TokenTypes DEF QueueInv, BarrierInv, NoFailure
<1>1. /\ gpc[m] = "mark" /\ gpc' = [gpc EXCEPT ![m] = "lock"]
      /\ flags' = [flags EXCEPT ![t] = @ \cup {"NEED_COMMIT", "FREE"}]
      /\ result' = [result EXCEPT ![t] = Res(m)]
      /\ UNCHANGED <<msg, qpc, cur, stopping, inflight, lock, sq, ksq, cq,
                     drv, iod, issued, stopped, op, handled, outcome>>
  BY DEF ublksrv_mark_io_done, Goto
<1>2. m \in Working
  BY <1>1 DEF Working
<1>3. t \in Tags /\ iod[t] = msg[m].req /\ ~OnRing(t) /\ m \in Pending
  BY <1>2, WorkingAlone
<1>4. \A n \in Messages \ {m} : gpc'[n] = gpc[n] /\ msg'[n] = msg[n]
  BY <1>0, <1>1
<1>5. gpc'[m] = "lock" /\ m \in Working'
  BY <1>0, <1>1 DEF Working
<1>6. /\ Ring' = Ring /\ Working' = Working
      /\ \A u \in Tags : (OnCq(u)' <=> OnCq(u)) /\ (OnThread(u)' <=> OnThread(u))
      /\ RingSplit' /\ OnePlace' /\ OneToken' /\ DriverAgrees' /\ StopOrder'
  BY <1>1, <1>2, <1>4, <1>5, GoroutineFrame
<1>7. RequestsOnTags' /\ CommitsHandlerResult' /\ (\A q : FullResult(q)' = FullResult(q))
  BY <1>1, SameRequests
<1>8. HandledByPlace'
  BY <1>1, <1>4, <1>5, <1>6 DEF QueueInv, TokenInv, HandledByPlace
<1>9. ResultsStored'
  <2>1. Res(m) = FullResult(iod[t])
    BY <1>0, <1>3 DEF Res, FullResult
  <2>2. /\ result'[t] = FullResult(iod[t]) /\ {"NEED_COMMIT", "FREE"} \subseteq flags'[t]
        /\ \A u \in Tags \ {t} : result'[u] = result[u] /\ flags'[u] = flags[u]
    BY <1>0, <1>1, <1>3, <2>1
  <2>3. \A n \in Messages \ {m} : gpc[n] \in {"lock", "reserve", "fill"} =>
                                    msg[n].tag \in Tags \ {t}
    <3>1. SUFFICES ASSUME NEW n \in Messages \ {m}, gpc[n] \in {"lock", "reserve", "fill"}
                   PROVE  msg[n].tag # t
      BY TokenTypes
    <3>2. CASE n \in Working
      BY <1>2, <3>1, <3>2 DEF QueueInv, TokenInv, OneToken
    <3>3. CASE gpc[n] = "fill"
      <4>1. \E i \in DOMAIN sq : sq[i].tag = msg[n].tag
        BY <3>3 DEF QueueInv, TokenInv, ResultsStored, Submitting
      <4>2. Ring = sq
        BY <1>3, PendingNotSubmit
      <4> QED BY <1>3, <4>1, <4>2 DEF OnRing
    <3> QED BY <3>1, <3>2, <3>3 DEF Working
  <2>4. \A n \in Messages : gpc'[n] \in {"lock", "reserve", "fill"} =>
                              result'[msg[n].tag] = FullResult(iod[msg[n].tag])
    BY <1>4, <2>2, <2>3 DEF QueueInv, TokenInv, ResultsStored
  <2>5. \A n \in Messages : gpc'[n] \in {"lock", "reserve"} =>
                              {"NEED_COMMIT", "FREE"} \subseteq flags'[msg[n].tag]
    BY <1>4, <2>2, <2>3 DEF QueueInv, TokenInv, ResultsStored
  <2>6. /\ Submitting' = Submitting
        /\ \A n \in Messages : gpc'[n] = "fill" <=> gpc[n] = "fill"
    BY <1>1, <1>4, <1>5 DEF Submitting
  <2> QED
    BY <1>1, <1>6, <1>7, <2>4, <2>5, <2>6 DEF QueueInv, TokenInv, ResultsStored
<1>10. LockHeld' /\ InflightExact'
  BY <1>1, SameLockAndCount DEF Critical, Pending, GoPc
<1> QED BY <1>6, <1>7, <1>8, <1>9, <1>10 DEF TokenInv

----------------------------------------------------------------------------
(* Steps that move a token *)

\* The entries of a ring after something has been put on it.
LEMMA AppendEntries ==
  ASSUME NEW S, NEW s \in Seq(S), NEW e \in S
  PROVE  /\ \A i \in DOMAIN s : i \in DOMAIN Append(s, e) /\ Append(s, e)[i] = s[i]
         /\ Len(s) + 1 \in DOMAIN Append(s, e) /\ Append(s, e)[Len(s) + 1] = e
         /\ \A i \in DOMAIN Append(s, e) : i \in DOMAIN s \/ i = Len(s) + 1
         /\ Len(s) + 1 \notin DOMAIN s
OBVIOUS

\* The entries of a ring after the first one has been taken off.
LEMMA TailEntries ==
  ASSUME NEW S, NEW s \in Seq(S), s # <<>>
  PROVE  /\ 1 \in DOMAIN s /\ s[1] = Head(s) /\ DOMAIN s \subseteq Int
         /\ \A i \in DOMAIN Tail(s) : i + 1 \in DOMAIN s /\ i + 1 # 1 /\ Tail(s)[i] = s[i + 1]
         /\ \A i \in DOMAIN s : i # 1 => i - 1 \in DOMAIN Tail(s) /\ Tail(s)[i - 1] = s[i]
OBVIOUS

\* io_uring_get_sqe finds room: the ring holds at most one command per tag, and
\* none for the tag of the goroutine that asks.
LEMMA RingRoom ==
  ASSUME QueueInv, NEW m \in Working
  PROVE  Len(sq) + Len(ksq) < SqEntries
<1> DEFINE f == [i \in 1 .. Len(sq) |-> sq[i].tag]
           T == Tags \ {msg[m].tag}
<1>1. m \in Pending /\ msg[m].tag \in Tags /\ ~OnRing(msg[m].tag)
  BY WorkingAlone
<1>2. ksq = <<>> /\ Ring = sq /\ sq \in Seq(Sqe)
  BY <1>1, PendingNotSubmit, TokenTypes
<1>3. DOMAIN sq = 1 .. Len(sq) /\ Len(sq) \in Nat /\ Len(ksq) = 0
  BY <1>2
<1>4. f \in [1 .. Len(sq) -> T]
  BY <1>1, <1>2, <1>3, TokenTypes DEF OnRing
<1>5. \A i, j \in 1 .. Len(sq) : f[i] = f[j] => i = j
  BY <1>2, <1>3 DEF QueueInv, TokenInv, OneToken
<1>6. IsFiniteSet(Tags) /\ Cardinality(Tags) = QueueDepth
  BY DepthAssumption, FS_Interval DEF Tags
<1>7. IsFiniteSet(T) /\ Cardinality(T) = QueueDepth - 1
  BY <1>1, <1>6, FS_RemoveElement
<1>8. IsFiniteSet(1 .. Len(sq)) /\ Cardinality(1 .. Len(sq)) = Len(sq)
  <2>1. 1 \in Int /\ Len(sq) \in Int
    BY <1>3
  <2>2. Cardinality(1 .. Len(sq)) = IF 1 > Len(sq) THEN 0 ELSE Len(sq) - 1 + 1
    BY <2>1, FS_Interval
  <2> QED BY <1>3, <2>1, <2>2, FS_Interval
<1>9. ~(Cardinality(T) < Cardinality(1 .. Len(sq)))
  <2> HIDE DEF f, T
  <2> QED BY <1>4, <1>5, <1>7, <1>8, FS_PigeonHole
<1> QED BY <1>3, <1>7, <1>8, <1>9, DepthAssumption, RingAssumption

\* The goroutine hands its token over to the submission ring.
LEMMA ReserveStep ==
  ASSUME QueueInv, NEW m \in Messages, io_uring_get_sqe(m)
  PROVE  TokenInv'
<1> DEFINE t == msg[m].tag
           e == [cmd |-> "COMMIT", tag |-> t, res |-> "ZERO", filled |-> FALSE]
<1>1. gpc[m] = "reserve" /\ m \in Working
  BY DEF io_uring_get_sqe, Working
<1>2. {"NEED_COMMIT", "FREE"} \subseteq flags[t]
  BY <1>1 DEF QueueInv, TokenInv, ResultsStored
<1>3. /\ sq' = Append(sq, e) /\ gpc' = [gpc EXCEPT ![m] = "fill"]
      /\ UNCHANGED <<msg, qpc, cur, stopping, flags, result, inflight, lock, ksq, cq,
                     drv, iod, issued, stopped, op, handled, outcome>>
  BY <1>1, <1>2, RingRoom DEF io_uring_get_sqe, Goto
<1>4. /\ t \in Tags /\ m \in Pending /\ drv[t] = "served" /\ iod[t] = msg[m].req
      /\ ~OnRing(t) /\ ~OnCq(t) /\ ~OnThread(t)
  BY <1>1, WorkingAlone
<1>5. /\ gpc \in [Messages -> GoPc] /\ sq \in Seq(Sqe) /\ e \in Sqe
      /\ qpc \notin {"submit", "exit", "discard"} /\ Ring = sq /\ ksq = <<>>
  <2>1. qpc # "discard"
    BY <1>4 DEF QueueInv, BarrierInv, Barrier, Alone
  <2>2. e \in Sqe
    BY <1>4 DEF Sqe, Results
  <2> QED BY <1>4, <2>1, <2>2, TokenTypes, PendingNotSubmit
<1>6. Ring' = Append(Ring, e)
  BY <1>3, <1>5 DEF Ring
<1> DEFINE k == Len(Ring) + 1
<1>7. /\ \A i \in DOMAIN Ring : i \in DOMAIN Ring' /\ Ring'[i] = Ring[i]
      /\ k \in DOMAIN Ring' /\ Ring'[k] = e /\ k \notin DOMAIN Ring
      /\ \A i \in DOMAIN Ring' : i \in DOMAIN Ring \/ i = k
  <2> HIDE DEF e
  <2> QED BY <1>5, <1>6, AppendEntries
<1>8. /\ \A n \in Messages \ {m} : gpc'[n] = gpc[n]
      /\ gpc'[m] = "fill"
  BY <1>3, <1>5
<1>9. /\ Working' = Working \ {m} /\ Submitting' = Submitting \cup {m}
  BY <1>1, <1>8 DEF Working, Submitting
<1> HIDE DEF k
<1>10. \A u \in Tags : /\ OnRing(u)' <=> OnRing(u) \/ u = t
                       /\ OnCq(u)' <=> OnCq(u)
                       /\ OnThread(u)' <=> OnThread(u)
                       /\ OnGoroutine(u)' <=> OnGoroutine(u) /\ u # t
  <2>1. \A n \in Working : msg[n].tag = t => n = m
    BY <1>1 DEF QueueInv, TokenInv, OneToken
  <2>2. \A u \in Tags : OnRing(u)' <=> OnRing(u) \/ u = t
    BY <1>7 DEF OnRing
  <2>3. \A u \in Tags : OnGoroutine(u)' <=> OnGoroutine(u) /\ u # t
    BY <1>3, <1>9, <2>1 DEF OnGoroutine
  <2> QED BY <1>3, <2>2, <2>3 DEF OnCq, OnThread
<1>11. OnePlace'
  BY <1>4, <1>10 DEF QueueInv, TokenInv, OnePlace
<1>12. OneToken'
  <2>1. \A i \in DOMAIN Ring : Ring[i].tag # t
    BY <1>4 DEF OnRing
  <2>2. \A i, j \in DOMAIN Ring' : Ring'[i].tag = Ring'[j].tag => i = j
    BY <1>7, <2>1 DEF QueueInv, TokenInv, OneToken
  <2> QED BY <1>3, <1>9, <2>2 DEF QueueInv, TokenInv, OneToken
<1>13. DriverAgrees'
  <2>1. \A i \in DOMAIN Ring' : drv[Ring'[i].tag] =
                                   IF Ring'[i].cmd = "FETCH" THEN "idle" ELSE "served"
    BY <1>4, <1>7 DEF QueueInv, TokenInv, DriverAgrees
  <2> QED BY <1>3, <1>9, <1>10, <2>1 DEF QueueInv, TokenInv, DriverAgrees
<1>14. RequestsOnTags' /\ CommitsHandlerResult' /\ (\A r : FullResult(r)' = FullResult(r))
  BY <1>3, SameRequests
<1>15. HandledByPlace'
  <2>1. handled[msg[m].req] = "ok"
    BY <1>1 DEF QueueInv, TokenInv, HandledByPlace
  <2>2. \A i \in DOMAIN Ring' : Ring'[i].cmd = "COMMIT" => handled[iod[Ring'[i].tag]] = "ok"
    BY <1>4, <1>7, <2>1 DEF QueueInv, TokenInv, HandledByPlace
  <2>3. \A n \in Working' : n \in Working /\ gpc'[n] = gpc[n]
    BY <1>8, <1>9 DEF Working
  <2> QED BY <1>3, <1>10, <2>2, <2>3 DEF QueueInv, TokenInv, HandledByPlace
<1>16. ResultsStored'
  <2>1. \A n \in Messages : /\ gpc'[n] \in {"lock", "reserve"} => gpc[n] \in {"lock", "reserve"}
                            /\ gpc'[n] = "fill" <=> (gpc[n] = "fill" \/ n = m)
    BY <1>1, <1>8
  <2>2. result[t] = FullResult(iod[t])
    BY <1>1 DEF QueueInv, TokenInv, ResultsStored
  <2>3. \A n \in Submitting' : \E i \in DOMAIN sq' : sq'[i].cmd = "COMMIT" /\ sq'[i].tag = msg[n].tag
    <3>1. sq' = Ring' /\ sq = Ring
      BY <1>3, <1>5 DEF Ring
    <3> QED BY <1>7, <1>9, <3>1 DEF QueueInv, TokenInv, ResultsStored
  <2>4. \A i \in DOMAIN Ring' : ~Ring'[i].filled =>
           \E n \in Messages : gpc'[n] = "fill" /\ msg[n].tag = Ring'[i].tag
    BY <1>7, <2>1 DEF QueueInv, TokenInv, ResultsStored
  <2>5. \A i \in DOMAIN Ring' : Ring'[i].filled /\ Ring'[i].cmd = "COMMIT" =>
                                  Ring'[i].res = FullResult(iod[Ring'[i].tag])
    BY <1>7 DEF QueueInv, TokenInv, ResultsStored
  <2> QED
    BY <1>3, <1>14, <2>1, <2>2, <2>3, <2>4, <2>5 DEF QueueInv, TokenInv, ResultsStored
<1>17. LockHeld' /\ InflightExact'
  BY <1>1, <1>3, SameLockAndCount DEF Critical, Pending, GoPc
<1>18. RingSplit'
  BY <1>3, <1>5 DEF RingSplit
<1>19. StopOrder'
  BY <1>3 DEF QueueInv, TokenInv, StopOrder
<1> QED
  BY <1>11, <1>12, <1>13, <1>14, <1>15, <1>16, <1>17, <1>18, <1>19 DEF TokenInv

\* Filling a slot changes neither its command nor its tag.
LEMMA FillEntries ==
  ASSUME NEW s \in Seq(Sqe), NEW r \in Results
  PROVE  /\ DOMAIN Fill(s, r) = DOMAIN s
         /\ \A i \in DOMAIN s : /\ Fill(s, r)[i].cmd = s[i].cmd
                                /\ Fill(s, r)[i].tag = s[i].tag
                                /\ Fill(s, r)[i].filled
                                /\ Fill(s, r)[i].res = IF s[i].filled THEN s[i].res ELSE r
<1>1. \A i \in DOMAIN s : s[i] \in Sqe
  OBVIOUS
<1> QED BY <1>1 DEF Fill, Sqe

\* There is nothing to fill on an empty ring.
LEMMA FillEmpty == ASSUME NEW r \in Results PROVE Fill(<<>>, r) = <<>>
<1>1. <<>> \in Seq(Sqe) /\ DOMAIN <<>> = {}
  OBVIOUS
<1>2. Fill(<<>>, r) \in Seq(Sqe) /\ DOMAIN Fill(<<>>, r) = {}
  BY <1>1, FillType
<1> QED BY <1>2

\* ublksrv_queue_io_cmd completes the slot it has reserved: the holder of the lock
\* finds no other incomplete slot.
LEMMA FillStep ==
  ASSUME QueueInv, NEW m \in Messages, fill_sqe(m)
  PROVE  TokenInv'
<1> DEFINE t == msg[m].tag
<1>1. /\ gpc[m] = "fill" /\ gpc' = [gpc EXCEPT ![m] = "dec"]
      /\ sq' = Fill(sq, result[t]) /\ ksq' = Fill(ksq, result[t])
      /\ flags' = [flags EXCEPT ![t] = {}]
      /\ UNCHANGED <<msg, qpc, cur, stopping, result, inflight, lock, cq,
                     drv, iod, issued, stopped, op, handled, outcome>>
  BY DEF fill_sqe, Goto
<1>2. /\ gpc \in [Messages -> GoPc] /\ sq \in Seq(Sqe) /\ t \in Tags
      /\ result[t] \in Results /\ flags \in [Tags -> SUBSET IoFlags] /\ m \in Pending
  BY <1>1, TokenTypes DEF Pending
<1>3. ksq = <<>> /\ Ring = sq /\ qpc # "submit"
  BY <1>2, PendingNotSubmit
<1>4. ksq' = <<>> /\ Ring' = Fill(Ring, result[t])
  BY <1>1, <1>2, <1>3, FillEmpty DEF Ring
<1>5. /\ DOMAIN Ring' = DOMAIN Ring
      /\ \A i \in DOMAIN Ring : /\ Ring'[i].cmd = Ring[i].cmd /\ Ring'[i].tag = Ring[i].tag
                                /\ Ring'[i].filled
                                /\ Ring'[i].res = IF Ring[i].filled THEN Ring[i].res
                                                                    ELSE result[t]
  BY <1>2, <1>3, <1>4, FillEntries
<1>6. gpc'[m] = "dec" /\ \A n \in Messages \ {m} : gpc'[n] = gpc[n]
  BY <1>1, <1>2
<1>7. Working' = Working /\ Submitting' = Submitting
  BY <1>1, <1>6 DEF Working, Submitting
<1>8. \A u \in Tags : /\ OnRing(u)' <=> OnRing(u)
                      /\ OnCq(u)' <=> OnCq(u)
                      /\ OnThread(u)' <=> OnThread(u)
                      /\ OnGoroutine(u)' <=> OnGoroutine(u)
  BY <1>1, <1>5, <1>7 DEF OnRing, OnCq, OnThread, OnGoroutine
<1>9. OnePlace'
  BY <1>8 DEF QueueInv, TokenInv, OnePlace
<1>10. OneToken'
  BY <1>1, <1>5, <1>7 DEF QueueInv, TokenInv, OneToken
<1>11. DriverAgrees'
  BY <1>1, <1>5, <1>7, <1>8 DEF QueueInv, TokenInv, DriverAgrees
<1>12. RequestsOnTags' /\ CommitsHandlerResult' /\ (\A r : FullResult(r)' = FullResult(r))
  BY <1>1, SameRequests
<1>13. HandledByPlace'
  <2>1. \A n \in Working : gpc'[n] = gpc[n]
    BY <1>1, <1>6 DEF Working
  <2> QED BY <1>1, <1>5, <1>7, <1>8, <2>1 DEF QueueInv, TokenInv, HandledByPlace
<1>14. ResultsStored'
  <2>1. m \in Submitting /\ OnRing(t)
    BY <1>1, <1>3 DEF Submitting, QueueInv, TokenInv, ResultsStored, OnRing
  <2>2. \A n \in Working : msg[n].tag # t
    BY <1>2, <2>1 DEF QueueInv, TokenInv, OnePlace, OnGoroutine
  <2>3. \A n \in Messages : gpc'[n] \in {"lock", "reserve"} =>
                              {"NEED_COMMIT", "FREE"} \subseteq flags'[msg[n].tag]
    <3>1. SUFFICES ASSUME NEW n \in Messages, gpc'[n] \in {"lock", "reserve"}
                   PROVE  {"NEED_COMMIT", "FREE"} \subseteq flags'[msg[n].tag]
      OBVIOUS
    <3>2. n \in Working /\ gpc[n] \in {"lock", "reserve"} /\ msg[n].tag \in Tags
      BY <1>6, <3>1, TokenTypes DEF Working
    <3>3. flags'[msg[n].tag] = flags[msg[n].tag]
      BY <1>1, <1>2, <2>2, <3>2
    <3> QED BY <3>2, <3>3 DEF QueueInv, TokenInv, ResultsStored
  <2>4. \A n \in Messages : gpc[n] = "fill" => n = m
    BY <1>1 DEF QueueInv, TokenInv, LockHeld, Critical
  <2>5. \A i \in DOMAIN Ring : Ring'[i].cmd = "COMMIT" =>
                                 Ring'[i].res = FullResult(iod[Ring[i].tag])
    <3>1. SUFFICES ASSUME NEW i \in DOMAIN Ring, Ring[i].cmd = "COMMIT"
                   PROVE  Ring'[i].res = FullResult(iod[Ring[i].tag])
      BY <1>5
    <3>2. CASE Ring[i].filled
      BY <1>5, <3>1, <3>2 DEF QueueInv, TokenInv, ResultsStored
    <3>3. CASE ~Ring[i].filled
      <4>1. Ring[i].tag = t
        BY <2>4, <3>3 DEF QueueInv, TokenInv, ResultsStored
      <4>2. result[t] = FullResult(iod[t])
        BY <1>1 DEF QueueInv, TokenInv, ResultsStored
      <4> QED BY <1>5, <3>3, <4>1, <4>2
    <3> QED BY <3>2, <3>3
  <2>6. \A n \in Messages : gpc'[n] \in {"lock", "reserve", "fill"} =>
                              gpc[n] \in {"lock", "reserve", "fill"}
    BY <1>1, <1>6
  <2>7. sq' = Ring' /\ sq = Ring
    BY <1>1, <1>3 DEF Ring
  <2>8. \A n \in Submitting' : \E i \in DOMAIN sq' : sq'[i].cmd = "COMMIT" /\ sq'[i].tag = msg[n].tag
    BY <1>5, <1>7, <2>7 DEF QueueInv, TokenInv, ResultsStored
  <2> QED
    BY <1>1, <1>5, <1>12, <2>3, <2>5, <2>6, <2>8 DEF QueueInv, TokenInv, ResultsStored
<1>15. LockHeld' /\ InflightExact'
  BY <1>1, SameLockAndCount DEF Critical, Pending, GoPc
<1>16. RingSplit'
  <2>1. sq = <<>> => sq' = <<>>
    BY <1>1, <1>2, FillEmpty
  <2> QED BY <1>1, <1>3, <1>4, <2>1 DEF QueueInv, TokenInv, RingSplit
<1>17. StopOrder'
  BY <1>1 DEF QueueInv, TokenInv, StopOrder
<1> QED
  BY <1>9, <1>10, <1>11, <1>12, <1>13, <1>14, <1>15, <1>16, <1>17 DEF TokenInv

\* onRequestAsync hands the queue thread's token over to a new goroutine.
LEMMA RequestStep ==
  ASSUME QueueInv, NEW m \in Messages, onRequestAsync(m)
  PROVE  TokenInv'
<1> DEFINE t == cur
<1>0. /\ gpc \in [Messages -> GoPc] /\ msg \in [Messages -> Msg] /\ msg[m] \in Msg
      /\ t \in Tags /\ inflight \in Int /\ drv \in [Tags -> {"idle", "fetch", "served", "aborted"}]
  BY TokenTypes
<1>1. /\ qpc = "request" /\ qpc' = "count" /\ gpc[m] = "free"
      /\ gpc' = [gpc EXCEPT ![m] = "spawned"]
      /\ msg' = [msg EXCEPT ![m] = [msg[m] EXCEPT !.tag = t, !.req = iod[t]]]
      /\ UNCHANGED <<cur, stopping, flags, result, inflight, lock, sq, ksq, cq,
                     drv, iod, issued, stopped, op, handled, outcome>>
  BY <1>0 DEF onRequestAsync
<1>2. /\ gpc'[m] = "spawned" /\ msg'[m].tag = t /\ msg'[m].req = iod[t]
      /\ \A n \in Messages \ {m} : gpc'[n] = gpc[n] /\ msg'[n] = msg[n]
  BY <1>0, <1>1 DEF Msg
<1>3. /\ Working' = Working \cup {m} /\ Submitting' = Submitting /\ Critical' = Critical
      /\ Pending' = Pending \cup {m} /\ m \notin Pending
      /\ m \notin Working /\ m \notin Submitting
  BY <1>1, <1>2 DEF Working, Submitting, Critical, Pending
<1>4. Ring' = Ring
  BY <1>1 DEF Ring
<1>5. OnThread(t) /\ ~OnRing(t) /\ ~OnCq(t) /\ ~OnGoroutine(t)
  BY <1>0, <1>1 DEF QueueInv, TokenInv, OnePlace, OnThread
<1>6. \A u \in Tags : /\ OnRing(u)' <=> OnRing(u)
                      /\ OnCq(u)' <=> OnCq(u)
                      /\ ~OnThread(u)'
                      /\ OnThread(u) => u = t
                      /\ OnGoroutine(u)' <=> OnGoroutine(u) \/ u = t
  <2>1. \A n \in Working : n \in Messages \ {m}
    BY <1>3 DEF Working
  <2> QED BY <1>1, <1>2, <1>3, <1>4, <2>1 DEF OnRing, OnCq, OnThread, OnGoroutine
<1>7. OnePlace'
  BY <1>5, <1>6 DEF QueueInv, TokenInv, OnePlace
<1>8. \A n \in Working : n \in Messages \ {m} /\ msg'[n] = msg[n] /\ msg[n].tag # t
  BY <1>2, <1>3, <1>5 DEF Working, OnGoroutine
<1>9. OneToken'
  <2>1. \A n1, n2 \in Working' : msg'[n1].tag = msg'[n2].tag => n1 = n2
    BY <1>2, <1>3, <1>8 DEF QueueInv, TokenInv, OneToken
  <2> QED BY <1>1, <1>4, <2>1 DEF QueueInv, TokenInv, OneToken
<1>10. drv[t] = "served"
  BY <1>1 DEF QueueInv, TokenInv, DriverAgrees
<1>11. DriverAgrees'
  <2>1. \A n \in Working' : drv[msg'[n].tag] = "served" /\ iod[msg'[n].tag] = msg'[n].req
    BY <1>2, <1>3, <1>8, <1>10 DEF QueueInv, TokenInv, DriverAgrees
  <2> QED BY <1>1, <1>4, <1>6, <2>1 DEF QueueInv, TokenInv, DriverAgrees
<1>12. RequestsOnTags' /\ CommitsHandlerResult' /\ (\A r : FullResult(r)' = FullResult(r))
  BY <1>1, SameRequests
<1>13. HandledByPlace'
  <2>1. handled[iod[t]] = "no"
    BY <1>0, <1>5, <1>10 DEF QueueInv, TokenInv, HandledByPlace
  <2>2. \A n \in Working' : handled[msg'[n].req] =
                              IF gpc'[n] \in {"spawned", "handling"} THEN "no" ELSE "ok"
    BY <1>2, <1>3, <1>8, <2>1 DEF QueueInv, TokenInv, HandledByPlace
  <2> QED BY <1>1, <1>4, <1>6, <2>2 DEF QueueInv, TokenInv, HandledByPlace
<1>14. ResultsStored'
  <2>1. \A n \in Messages : gpc'[n] \in {"lock", "reserve", "fill"} =>
                              gpc'[n] = gpc[n] /\ msg'[n] = msg[n]
    BY <1>2
  <2>2. \A n \in Messages : gpc[n] = "fill" => gpc'[n] = "fill" /\ msg'[n] = msg[n]
    BY <1>1, <1>2
  <2>3. \A n \in Submitting : msg'[n] = msg[n]
    BY <1>2, <1>3 DEF Submitting
  <2> QED
    BY <1>1, <1>3, <1>4, <1>12, <2>1, <2>2, <2>3 DEF QueueInv, TokenInv, ResultsStored
<1>15. InflightExact'
  <2>1. Cardinality(Pending') = Cardinality(Pending) + 1
    BY <1>3, PendingFinite, FS_AddElement
  <2> QED BY <1>0, <1>1, <2>1, PendingFinite DEF QueueInv, TokenInv, InflightExact
<1>16. LockHeld' /\ RingSplit' /\ StopOrder'
  BY <1>1, <1>3 DEF QueueInv, TokenInv, LockHeld, RingSplit, StopOrder
<1> QED
  BY <1>7, <1>9, <1>11, <1>12, <1>13, <1>14, <1>15, <1>16 DEF TokenInv

\* ublksrv_handle_cqe takes a token off the completion ring: of a request, which
\* the queue thread keeps, or of an aborted command, which is retired.
LEMMA CompletionStep ==
  ASSUME QueueInv, ublksrv_handle_cqe
  PROVE  TokenInv'
<1> DEFINE c == Head(cq)
           t == c.tag
<1>1. /\ qpc = "reap" /\ cq # <<>> /\ cq' = Tail(cq)
      /\ stopping' = ~fetch(c)
      /\ cur' = IF c.res = "OK" THEN t ELSE 0
      /\ qpc' = IF c.res = "OK" THEN "request" ELSE "reap"
      /\ flags' = [flags EXCEPT ![t] = IF c.res # "OK" THEN {"FREE"}
                                       ELSE IF fetch(c) THEN @ ELSE @ \ {"NEED_FETCH"}]
      /\ UNCHANGED <<result, inflight, lock, sq, ksq, gpc, msg, drv, iod, issued, stopped,
                     op, handled, outcome>>
  BY DEF ublksrv_handle_cqe
<1>2. cq \in Seq(Cqe) /\ flags \in [Tags -> SUBSET IoFlags]
  BY TokenTypes
<1>3. /\ 1 \in DOMAIN cq /\ cq[1] = c
      /\ \A i \in DOMAIN cq' : i + 1 \in DOMAIN cq /\ i + 1 # 1 /\ cq'[i] = cq[i + 1]
      /\ \A i \in DOMAIN cq : i # 1 => i - 1 \in DOMAIN cq' /\ cq'[i - 1] = cq[i]
      /\ DOMAIN cq' \subseteq Int
  <2>1. cq' \in Seq(Cqe)
    BY <1>1, <1>2
  <2> QED BY <1>1, <1>2, <2>1, TailEntries
<1>4. /\ t \in Tags /\ c.res \in {"OK", "ABORT"} /\ OnCq(t)
      /\ drv[t] = IF c.res = "OK" THEN "served" ELSE "aborted"
  <2>1. c \in Cqe /\ t \in Tags
    BY <1>3, TokenTypes
  <2> QED
    BY <1>3, <2>1, EntryFields DEF QueueInv, TokenInv, DriverAgrees, OnCq
<1> HIDE DEF c
<1>5. /\ c.res = "OK" => ~stopped /\ ~stopping
      /\ c.res = "ABORT" => stopped
      /\ stopping' => stopped
  BY <1>1, <1>4 DEF QueueInv, TokenInv, StopOrder, fetch
<1>6. Ring' = Ring /\ Ring = sq
  BY <1>1 DEF Ring
<1>7. Working' = Working /\ Submitting' = Submitting /\ Critical' = Critical /\ Pending' = Pending
  BY <1>1 DEF Working, Submitting, Critical, Pending
<1>8. ~OnRing(t) /\ ~OnGoroutine(t)
  BY <1>4 DEF QueueInv, TokenInv, OnePlace
<1>9. \A u \in Tags : /\ OnRing(u)' <=> OnRing(u)
                      /\ OnCq(u)' <=> OnCq(u) /\ u # t
                      /\ ~OnThread(u)
                      /\ OnThread(u)' <=> c.res = "OK" /\ u = t
                      /\ OnGoroutine(u)' <=> OnGoroutine(u)
  <2>1. \A u \in Tags : OnCq(u)' <=> OnCq(u) /\ u # t
    <3>1. \A i \in DOMAIN cq : i # 1 => cq[i].tag # t
      BY <1>3 DEF QueueInv, TokenInv, OneToken
    <3> QED BY <1>3, <3>1 DEF OnCq
  <2>2. \A u \in Tags : ~OnThread(u) /\ (OnThread(u)' <=> c.res = "OK" /\ u = t)
    BY <1>1 DEF OnThread
  <2> QED BY <1>1, <1>6, <1>7, <2>1, <2>2 DEF OnRing, OnGoroutine
<1>10. OnePlace'
  BY <1>8, <1>9 DEF QueueInv, TokenInv, OnePlace
<1>11. OneToken'
  <2>1. \A i, j \in DOMAIN cq' : cq'[i].tag = cq'[j].tag => i = j
    <3>1. SUFFICES ASSUME NEW i \in DOMAIN cq', NEW j \in DOMAIN cq', cq'[i].tag = cq'[j].tag
                   PROVE  i = j
      OBVIOUS
    <3>2. i + 1 = j + 1
      BY <1>3, <3>1 DEF QueueInv, TokenInv, OneToken
    <3> QED BY <1>3, <3>2
  <2> QED BY <1>1, <1>6, <1>7, <2>1 DEF QueueInv, TokenInv, OneToken
<1>12. DriverAgrees'
  <2>1. \A i \in DOMAIN cq' : /\ cq'[i].res # "ERROR"
                              /\ drv[cq'[i].tag] = IF cq'[i].res = "OK" THEN "served" ELSE "aborted"
    BY <1>3 DEF QueueInv, TokenInv, DriverAgrees
  <2>2. qpc' = "request" => drv[cur'] = "served"
    BY <1>1, <1>4
  <2>3. \A u \in Tags : drv[u] = "served" =>
                          OnRing(u)' \/ OnCq(u)' \/ OnThread(u)' \/ OnGoroutine(u)'
    BY <1>4, <1>9 DEF QueueInv, TokenInv, DriverAgrees
  <2> QED BY <1>1, <1>6, <1>7, <2>1, <2>2, <2>3 DEF QueueInv, TokenInv, DriverAgrees
<1>13. RequestsOnTags' /\ CommitsHandlerResult' /\ (\A r : FullResult(r)' = FullResult(r))
  BY <1>1, SameRequests
<1>14. HandledByPlace'
  <2>1. \A u \in Tags : OnCq(u)' \/ OnThread(u)' => OnCq(u)
    BY <1>4, <1>9
  <2> QED BY <1>1, <1>6, <1>7, <2>1 DEF QueueInv, TokenInv, HandledByPlace
<1>15. ResultsStored'
  <2>1. \A n \in Messages : gpc[n] \in {"lock", "reserve"} =>
                              {"NEED_COMMIT", "FREE"} \subseteq flags'[msg[n].tag]
    <3>1. SUFFICES ASSUME NEW n \in Messages, gpc[n] \in {"lock", "reserve"}
                   PROVE  {"NEED_COMMIT", "FREE"} \subseteq flags'[msg[n].tag]
      OBVIOUS
    <3>2. n \in Working
      BY <3>1 DEF Working
    <3>3. msg[n].tag \in Tags \ {t}
      BY <1>8, <3>2, WorkingAlone
    <3>4. flags'[msg[n].tag] = flags[msg[n].tag]
      BY <1>1, <1>2, <3>3
    <3> QED BY <3>1, <3>4 DEF QueueInv, TokenInv, ResultsStored
  <2> QED BY <1>1, <1>6, <1>7, <1>13, <2>1 DEF QueueInv, TokenInv, ResultsStored
<1>16. InflightExact'
  BY <1>1, <1>7, SameCount
<1>17. LockHeld' /\ RingSplit' /\ StopOrder'
  BY <1>1, <1>5, <1>7 DEF QueueInv, TokenInv, LockHeld, RingSplit, StopOrder
<1> QED
  BY <1>10, <1>11, <1>12, <1>13, <1>14, <1>15, <1>16, <1>17 DEF TokenInv

\* The kernel consumes a complete slot and the driver accepts it: a FETCH of a
\* fresh tag, or the COMMIT of the request it has handed out on that tag.
LEMMA CommandAccepted ==
  ASSUME QueueInv, consume_sqe
  PROVE  LET e == Head(ksq)
             t == e.tag
         IN  /\ qpc = "submit" /\ ksq # <<>> /\ Ring = ksq /\ ksq' = Tail(ksq)
             /\ t \in Tags /\ e = Ring[1] /\ 1 \in DOMAIN Ring
             /\ e.cmd \in {"FETCH", "COMMIT"}
             /\ drv[t] = IF e.cmd = "FETCH" THEN "idle" ELSE "served"
             /\ drv' = [drv EXCEPT ![t] = "fetch"]
             /\ e.cmd = "FETCH" => outcome' = outcome
             /\ e.cmd = "COMMIT" =>
                  /\ outcome' = [outcome EXCEPT ![iod[t]] = FullResult(iod[t])]
                  /\ iod[t] \in Reqs /\ outcome[iod[t]] = "none" /\ handled[iod[t]] = "ok"
             /\ UNCHANGED <<cq, qpc, cur, stopping, flags, result, inflight, lock, sq,
                            gpc, msg, iod, issued, stopped, op, handled>>
<1> DEFINE e == Head(ksq)
           t == e.tag
<1>1. /\ qpc = "submit" /\ ksq # <<>> /\ Ring = ksq /\ ksq' = Tail(ksq)
      /\ UNCHANGED <<qpc, cur, stopping, flags, result, inflight, lock, sq,
                     gpc, msg, iod, issued, stopped, op, handled>>
  BY DEF consume_sqe, Ring
<1>2. ksq \in Seq(Sqe)
  BY TokenTypes
<1>3. 1 \in DOMAIN ksq /\ ksq[1] = e
  BY <1>1, <1>2, TailEntries
<1>4. e \in Sqe /\ t \in Tags /\ e.cmd \in {"FETCH", "COMMIT"}
  <2>1. e \in Sqe
    BY <1>1, <1>3, TokenTypes
  <2> QED BY <2>1, EntryFields
<1>5. e.filled
  BY <1>3 DEF QueueInv, BarrierInv, SlotsFilled, NoTornSqe
<1>6. drv[t] = IF e.cmd = "FETCH" THEN "idle" ELSE "served"
  BY <1>1, <1>3 DEF QueueInv, TokenInv, DriverAgrees
<1>7. PICK x \in KernelReads(e) :
        LET u == x.tag IN
        IF \/ x.cmd = "FETCH" /\ drv[u] = "idle"
           \/ x.cmd = "COMMIT" /\ drv[u] = "served"
        THEN /\ drv' = [drv EXCEPT ![u] = "fetch"]
             /\ outcome' = IF x.cmd = "COMMIT"
                           THEN [outcome EXCEPT ![iod[u]] = x.res] ELSE outcome
             /\ cq' = cq
        ELSE /\ cq' = Append(cq, [tag |-> u, res |-> "ERROR"])
             /\ UNCHANGED <<drv, outcome>>
  BY DEF consume_sqe
<1>8. x = e
  BY <1>5 DEF KernelReads
<1> HIDE DEF e
<1>9. /\ drv' = [drv EXCEPT ![t] = "fetch"] /\ cq' = cq
      /\ outcome' = IF e.cmd = "COMMIT" THEN [outcome EXCEPT ![iod[t]] = e.res] ELSE outcome
  BY <1>4, <1>6, <1>7, <1>8
<1>10. ASSUME e.cmd = "COMMIT"
       PROVE  /\ iod[t] \in Reqs /\ outcome[iod[t]] = "none" /\ handled[iod[t]] = "ok"
              /\ e.res = FullResult(iod[t])
  <2>1. drv[t] = "served"
    BY <1>6, <1>10
  <2>2. iod[t] \in 1 .. issued /\ outcome[iod[t]] = "none"
    BY <1>4, <2>1 DEF QueueInv, TokenInv, RequestsOnTags
  <2>3. iod[t] \in Reqs
    BY <2>2, TokenTypes, BoundAssumption DEF Reqs
  <2>4. handled[iod[t]] = "ok"
    BY <1>1, <1>3, <1>10 DEF QueueInv, TokenInv, HandledByPlace
  <2>5. e.res = FullResult(iod[t])
    BY <1>1, <1>3, <1>5, <1>10 DEF QueueInv, TokenInv, ResultsStored
  <2> QED BY <2>2, <2>3, <2>4, <2>5
<1> QED BY <1>1, <1>3, <1>4, <1>6, <1>9, <1>10 DEF e

\* The token at the head of the ring goes back to the driver.
LEMMA ConsumeStep ==
  ASSUME QueueInv, consume_sqe
  PROVE  TokenInv'
<1> DEFINE e == Head(ksq)
           t == e.tag
<1>1. /\ qpc = "submit" /\ ksq # <<>> /\ Ring = ksq /\ ksq' = Tail(ksq)
      /\ t \in Tags /\ e = Ring[1] /\ 1 \in DOMAIN Ring
      /\ e.cmd \in {"FETCH", "COMMIT"}
      /\ drv[t] = IF e.cmd = "FETCH" THEN "idle" ELSE "served"
      /\ drv' = [drv EXCEPT ![t] = "fetch"]
      /\ e.cmd = "FETCH" => outcome' = outcome
      /\ e.cmd = "COMMIT" =>
           /\ outcome' = [outcome EXCEPT ![iod[t]] = FullResult(iod[t])]
           /\ iod[t] \in Reqs /\ outcome[iod[t]] = "none" /\ handled[iod[t]] = "ok"
      /\ UNCHANGED <<cq, qpc, cur, stopping, flags, result, inflight, lock, sq,
                     gpc, msg, iod, issued, stopped, op, handled>>
  BY CommandAccepted
<1> HIDE DEF e
<1>2. /\ ksq \in Seq(Sqe) /\ drv \in [Tags -> {"idle", "fetch", "served", "aborted"}]
      /\ outcome \in [Reqs -> {"none"} \cup Results]
  BY TokenTypes DEF QueueInv, BarrierInv, TypeOK, ReqType
<1>3. Ring' = Tail(Ring)
  BY <1>1 DEF Ring
<1>4. /\ \A i \in DOMAIN Ring' : i + 1 \in DOMAIN Ring /\ i + 1 # 1 /\ Ring'[i] = Ring[i + 1]
      /\ \A i \in DOMAIN Ring : i # 1 => i - 1 \in DOMAIN Ring' /\ Ring'[i - 1] = Ring[i]
      /\ DOMAIN Ring' \subseteq Int
  <2>1. Ring' \in Seq(Sqe)
    BY <1>1, <1>2, <1>3
  <2> QED BY <1>1, <1>2, <1>3, <2>1, TailEntries
<1>5. /\ drv'[t] = "fetch"
      /\ \A u \in Tags \ {t} : drv'[u] = drv[u]
  BY <1>1, <1>2
<1>6. \A i \in DOMAIN Ring' : Ring'[i].tag \in Tags \ {t}
  <2>1. \A i \in DOMAIN Ring : i # 1 => Ring[i].tag # t
    BY <1>1 DEF QueueInv, TokenInv, OneToken
  <2> QED BY <1>4, <2>1, TokenTypes
<1>7. Pending = {} /\ Working = {} /\ Submitting = {}
  <2>1. Pending = {}
    BY <1>1 DEF QueueInv, BarrierInv, Barrier, Alone
  <2> QED BY <2>1, TokenTypes, PendingParts
<1>8. Working' = {} /\ Submitting' = {} /\ Critical' = Critical /\ Pending' = Pending
  BY <1>1, <1>7 DEF Working, Submitting, Critical, Pending
<1>9. OnRing(t) /\ ~OnCq(t)
  <2>1. OnRing(t)
    BY <1>1 DEF OnRing
  <2> QED BY <1>1, <2>1 DEF QueueInv, TokenInv, OnePlace
<1>10. \A u \in Tags : /\ OnRing(u)' <=> OnRing(u) /\ u # t
                       /\ OnCq(u)' <=> OnCq(u)
                       /\ ~OnThread(u)' /\ ~OnThread(u)
                       /\ ~OnGoroutine(u)' /\ ~OnGoroutine(u)
  <2>1. \A u \in Tags : OnRing(u)' <=> OnRing(u) /\ u # t
    BY <1>1, <1>4, <1>6 DEF OnRing
  <2> QED BY <1>1, <1>7, <1>8, <2>1 DEF OnCq, OnThread, OnGoroutine
<1>11. OnePlace'
  BY <1>10 DEF QueueInv, TokenInv, OnePlace
<1>12. OneToken'
  <2>1. \A i, j \in DOMAIN Ring' : Ring'[i].tag = Ring'[j].tag => i = j
    <3>1. SUFFICES ASSUME NEW i \in DOMAIN Ring', NEW j \in DOMAIN Ring', Ring'[i].tag = Ring'[j].tag
                   PROVE  i = j
      OBVIOUS
    <3>2. i + 1 = j + 1
      BY <1>4, <3>1 DEF QueueInv, TokenInv, OneToken
    <3> QED BY <1>4, <3>2
  <2> QED BY <1>1, <1>8, <2>1 DEF QueueInv, TokenInv, OneToken
<1>13. DriverAgrees'
  <2>1. \A i \in DOMAIN Ring' : drv'[Ring'[i].tag] =
                                   IF Ring'[i].cmd = "FETCH" THEN "idle" ELSE "served"
    BY <1>4, <1>5, <1>6 DEF QueueInv, TokenInv, DriverAgrees
  <2>2. \A i \in DOMAIN cq : cq[i].tag \in Tags \ {t}
    BY <1>9, TokenTypes DEF OnCq
  <2>3. \A i \in DOMAIN cq : /\ cq[i].res # "ERROR"
                             /\ drv'[cq[i].tag] = IF cq[i].res = "OK" THEN "served" ELSE "aborted"
    BY <1>5, <2>2 DEF QueueInv, TokenInv, DriverAgrees
  <2>4. \A u \in Tags : drv'[u] = "served" => OnRing(u)' \/ OnCq(u)'
    BY <1>5, <1>10 DEF QueueInv, TokenInv, DriverAgrees
  <2> QED BY <1>1, <1>8, <2>1, <2>3, <2>4 DEF DriverAgrees
<1>14. \A r : FullResult(r)' = FullResult(r)
  BY <1>1 DEF FullResult
<1>15. \A u \in Tags : drv'[u] = "served" => u # t /\ drv[u] = "served"
  BY <1>5
<1>16. RequestsOnTags'
  <2>1. CASE e.cmd = "FETCH"
    <3>1. \A u \in Tags : drv'[u] = "served" <=> drv[u] = "served"
      BY <1>1, <1>5, <2>1
    <3> QED BY <1>1, <2>1, <3>1 DEF QueueInv, TokenInv, RequestsOnTags
  <2>2. CASE e.cmd = "COMMIT"
    <3>1. \A r \in Reqs : outcome'[r] = IF r = iod[t] THEN FullResult(r) ELSE outcome[r]
      BY <1>1, <1>2, <2>2
    <3>2. FullResult(iod[t]) # "none"
      BY DEF FullResult
    <3>3. drv[t] = "served" /\ iod[t] \in 1 .. issued
      BY <1>1, <2>2 DEF QueueInv, TokenInv, RequestsOnTags
    <3>4. \A r \in Reqs : r > issued => r # iod[t]
      BY <3>3, TokenTypes DEF Reqs
    <3>5. \A r \in Reqs : r <= issued /\ outcome'[r] = "none" =>
                            \E u \in Tags : drv'[u] = "served" /\ iod[u] = r
      <4>1. SUFFICES ASSUME NEW r \in Reqs, r <= issued, outcome'[r] = "none"
                     PROVE  \E u \in Tags : drv'[u] = "served" /\ iod[u] = r
        OBVIOUS
      <4>2. r # iod[t] /\ outcome[r] = "none"
        BY <3>1, <3>2, <4>1
      <4>3. PICK u \in Tags : drv[u] = "served" /\ iod[u] = r
        BY <4>1, <4>2 DEF QueueInv, TokenInv, RequestsOnTags
      <4> QED BY <1>5, <4>2, <4>3
    <3>6. \A u \in Tags : drv'[u] = "served" => iod[u] # iod[t]
      BY <1>1, <1>15, <3>3 DEF QueueInv, TokenInv, RequestsOnTags
    <3>7. \A u \in Tags : drv'[u] = "served" => iod[u] \in 1 .. issued /\ outcome'[iod[u]] = "none"
      <4>1. SUFFICES ASSUME NEW u \in Tags, drv'[u] = "served"
                     PROVE  iod[u] \in 1 .. issued /\ outcome'[iod[u]] = "none"
        OBVIOUS
      <4>2. iod[u] \in 1 .. issued /\ outcome[iod[u]] = "none" /\ iod[u] # iod[t]
        BY <1>15, <3>6, <4>1 DEF QueueInv, TokenInv, RequestsOnTags
      <4>3. iod[u] \in Reqs
        BY <4>2, TokenTypes, BoundAssumption DEF Reqs
      <4> QED BY <3>1, <4>2, <4>3
    <3> QED
      BY <1>1, <1>15, <3>1, <3>4, <3>5, <3>7 DEF QueueInv, TokenInv, RequestsOnTags
  <2> QED BY <1>1, <2>1, <2>2
<1>17. CommitsHandlerResult'
  <2>1. \A r \in Reqs : \/ outcome'[r] = outcome[r]
                        \/ handled[r] = "ok" /\ outcome'[r] = FullResult(r)
    BY <1>1, <1>2
  <2> QED BY <1>1, <1>14, <2>1 DEF QueueInv, TokenInv, CommitsHandlerResult
<1>18. HandledByPlace'
  BY <1>1, <1>4, <1>8, <1>10, <1>15 DEF QueueInv, TokenInv, HandledByPlace
<1>19. ResultsStored'
  BY <1>1, <1>4, <1>8, <1>14 DEF QueueInv, TokenInv, ResultsStored
<1>20. InflightExact'
  BY <1>1, <1>8, SameCount
<1>21. LockHeld' /\ RingSplit'
  BY <1>1, <1>8 DEF QueueInv, TokenInv, LockHeld, RingSplit
<1>22. StopOrder'
  BY <1>1, <1>5 DEF QueueInv, TokenInv, StopOrder
<1> QED
  BY <1>11, <1>12, <1>13, <1>16, <1>17, <1>18, <1>19, <1>20, <1>21, <1>22 DEF TokenInv

----------------------------------------------------------------------------
(* The driver *)

\* A tag the driver holds a fetch command for has no token elsewhere.
LEMMA FetchedNowhere ==
  ASSUME QueueInv, NEW t \in Tags, drv[t] = "fetch"
  PROVE  ~OnRing(t) /\ ~OnCq(t) /\ ~OnThread(t) /\ ~OnGoroutine(t)
<1>1. ~OnRing(t)
  <2>1. \A i \in DOMAIN Ring : drv[Ring[i].tag] \in {"idle", "served"}
    BY DEF QueueInv, TokenInv, DriverAgrees
  <2> QED BY <2>1 DEF OnRing
<1>2. ~OnCq(t)
  <2>1. \A i \in DOMAIN cq : drv[cq[i].tag] \in {"served", "aborted"}
    BY DEF QueueInv, TokenInv, DriverAgrees
  <2> QED BY <2>1 DEF OnCq
<1>3. ~OnThread(t) /\ ~OnGoroutine(t)
  BY DEF QueueInv, TokenInv, DriverAgrees, OnThread, OnGoroutine
<1> QED BY <1>1, <1>2, <1>3

\* The driver puts the token of a fetched tag on the completion ring, with a
\* request or with an abort.
LEMMA DriverMoves ==
  ASSUME QueueInv, NEW t \in Tags, NEW c \in Cqe, c.tag = t, c.res \in {"OK", "ABORT"},
         drv[t] = "fetch", cq' = Append(cq, c),
         drv' = [drv EXCEPT ![t] = IF c.res = "OK" THEN "served" ELSE "aborted"],
         \A u \in Tags \ {t} : iod'[u] = iod[u],
         UNCHANGED <<qpc, cur, sq, ksq, gpc, msg>>
  PROVE  /\ Ring' = Ring /\ Working' = Working /\ Submitting' = Submitting
         /\ Critical' = Critical /\ Pending' = Pending
         /\ \A u \in Tags : /\ OnRing(u)' <=> OnRing(u)
                            /\ OnCq(u)' <=> OnCq(u) \/ u = t
                            /\ OnThread(u)' <=> OnThread(u)
                            /\ OnGoroutine(u)' <=> OnGoroutine(u)
         /\ \A i \in DOMAIN Ring : Ring[i].tag \in Tags \ {t}
         /\ \A n \in Pending : msg[n].tag \in Tags \ {t}
         /\ OnePlace' /\ OneToken' /\ DriverAgrees'
<1>1. /\ Ring' = Ring /\ Working' = Working /\ Submitting' = Submitting
      /\ Critical' = Critical /\ Pending' = Pending
  BY DEF Ring, Working, Submitting, Critical, Pending
<1> DEFINE k == Len(cq) + 1
<1>2. /\ \A i \in DOMAIN cq : i \in DOMAIN cq' /\ cq'[i] = cq[i]
      /\ k \in DOMAIN cq' /\ cq'[k] = c /\ k \notin DOMAIN cq
      /\ \A i \in DOMAIN cq' : i \in DOMAIN cq \/ i = k
  BY TokenTypes, AppendEntries
<1> HIDE DEF k
<1>3. drv \in [Tags -> {"idle", "fetch", "served", "aborted"}]
  BY TokenTypes
<1>4. /\ drv'[t] = IF c.res = "OK" THEN "served" ELSE "aborted"
      /\ \A u \in Tags \ {t} : drv'[u] = drv[u]
  BY <1>3
<1>5. ~OnRing(t) /\ ~OnCq(t) /\ ~OnThread(t) /\ ~OnGoroutine(t)
  BY FetchedNowhere
<1>6. \A u \in Tags : /\ OnRing(u)' <=> OnRing(u)
                      /\ OnCq(u)' <=> OnCq(u) \/ u = t
                      /\ OnThread(u)' <=> OnThread(u)
                      /\ OnGoroutine(u)' <=> OnGoroutine(u)
  BY <1>1, <1>2 DEF OnRing, OnCq, OnThread, OnGoroutine
<1>7. \A i \in DOMAIN Ring : Ring[i].tag \in Tags \ {t}
  BY <1>5, TokenTypes DEF OnRing
<1>8. \A n \in Pending : msg[n].tag \in Tags \ {t}
  BY TokenTypes, PendingServed DEF Pending
<1>9. \A i \in DOMAIN cq : cq[i].tag \in Tags \ {t}
  BY <1>5, TokenTypes DEF OnCq
<1>10. \A n \in Working : msg[n].tag \in Tags \ {t}
  BY <1>8, TokenTypes, PendingParts
<1>11. OnePlace'
  BY <1>5, <1>6 DEF QueueInv, TokenInv, OnePlace
<1>12. OneToken'
  <2>1. \A i, j \in DOMAIN cq' : cq'[i].tag = cq'[j].tag => i = j
    BY <1>2, <1>9 DEF QueueInv, TokenInv, OneToken
  <2> QED BY <1>1, <2>1 DEF QueueInv, TokenInv, OneToken
<1>13. DriverAgrees'
  <2>1. \A i \in DOMAIN Ring : drv'[Ring[i].tag] =
                                 IF Ring[i].cmd = "FETCH" THEN "idle" ELSE "served"
    BY <1>4, <1>7 DEF QueueInv, TokenInv, DriverAgrees
  <2>2. \A i \in DOMAIN cq' : /\ cq'[i].res # "ERROR"
                              /\ drv'[cq'[i].tag] = IF cq'[i].res = "OK" THEN "served" ELSE "aborted"
    BY <1>2, <1>4, <1>9 DEF QueueInv, TokenInv, DriverAgrees
  <2>3. qpc = "request" => drv'[cur] = "served"
    <3>1. qpc = "request" => cur \in Tags \ {t}
      BY <1>5, TokenTypes DEF OnThread
    <3> QED BY <1>4, <3>1 DEF QueueInv, TokenInv, DriverAgrees
  <2>4. \A n \in Working : drv'[msg[n].tag] = "served" /\ iod'[msg[n].tag] = msg[n].req
    BY <1>4, <1>10 DEF QueueInv, TokenInv, DriverAgrees
  <2>5. \A u \in Tags : drv'[u] = "served" =>
                          OnRing(u)' \/ OnCq(u)' \/ OnThread(u)' \/ OnGoroutine(u)'
    BY <1>4, <1>6 DEF QueueInv, TokenInv, DriverAgrees
  <2> QED BY <1>1, <2>1, <2>2, <2>3, <2>4, <2>5 DEF DriverAgrees
<1> QED BY <1>1, <1>6, <1>7, <1>8, <1>11, <1>12, <1>13

\* The driver hands out a new request.
LEMMA DispatchStep ==
  ASSUME QueueInv, NEW t \in Tags, NEW o \in Ops, Dispatch(t, o)
  PROVE  TokenInv'
<1> DEFINE r == issued + 1
           c == [tag |-> t, res |-> "OK"]
<1>0. /\ drv \in [Tags -> {"idle", "fetch", "served", "aborted"}]
      /\ iod \in [Tags -> 0 .. MaxRequests] /\ issued \in 0 .. MaxRequests
      /\ op \in [Reqs -> {"none"} \cup Ops]
  BY TokenTypes DEF QueueInv, BarrierInv, TypeOK, ReqType
<1>1. /\ drv[t] = "fetch" /\ ~stopped /\ qpc # "submit" /\ issued < MaxRequests
      /\ issued' = r /\ op' = [op EXCEPT ![r] = o]
      /\ iod' = [iod EXCEPT ![t] = r] /\ drv' = [drv EXCEPT ![t] = "served"]
      /\ cq' = Append(cq, c)
      /\ UNCHANGED <<qpc, cur, stopping, flags, result, inflight, lock, sq, ksq, gpc, msg,
                     stopped, handled, outcome>>
  BY DEF Dispatch
<1>2. c \in Cqe /\ c.tag = t /\ c.res = "OK"
  BY DEF Cqe
<1> HIDE DEF c
<1>3. /\ iod'[t] = r /\ drv'[t] = "served"
      /\ \A u \in Tags \ {t} : iod'[u] = iod[u] /\ drv'[u] = drv[u]
  BY <1>0, <1>1
<1>4. /\ Ring' = Ring /\ Working' = Working /\ Submitting' = Submitting
      /\ Critical' = Critical /\ Pending' = Pending
      /\ \A u \in Tags : /\ OnCq(u)' <=> OnCq(u) \/ u = t
                         /\ OnThread(u)' <=> OnThread(u)
      /\ \A i \in DOMAIN Ring : Ring[i].tag \in Tags \ {t}
      /\ \A n \in Pending : msg[n].tag \in Tags \ {t}
      /\ OnePlace' /\ OneToken' /\ DriverAgrees'
  BY <1>1, <1>2, <1>3, DriverMoves
<1>5. r \in Reqs /\ r \in Int /\ issued \in Int
  BY <1>0, <1>1, BoundAssumption DEF Reqs
<1>6. handled[r] = "no" /\ outcome[r] = "none"
  BY <1>5 DEF QueueInv, TokenInv, RequestsOnTags
<1>7. op'[r] # "none" /\ \A q \in Reqs \ {r} : op'[q] = op[q]
  BY <1>0, <1>1, <1>5, OpsAssumption
<1>8. \A u \in Tags : drv[u] = "served" =>
                        u # t /\ iod[u] \in 1 .. issued /\ iod[u] \in Reqs \ {r}
  <2>1. \A u \in Tags : drv[u] = "served" => u # t /\ iod[u] \in 1 .. issued
    BY <1>1 DEF QueueInv, TokenInv, RequestsOnTags
  <2>2. 1 .. issued \subseteq Reqs \ {r}
    BY <1>0, BoundAssumption DEF Reqs
  <2> QED BY <2>1, <2>2
<1> HIDE DEF r
<1>9. \A q \in Reqs \ {r} : FullResult(q)' = FullResult(q)
  BY <1>7 DEF FullResult
<1>10. RequestsOnTags'
  <2>1. \A q \in Reqs : q > r <=> q > issued /\ q # r
    BY <1>0, <1>5 DEF r, Reqs
  <2>2. \A q \in Reqs : q <= r <=> q <= issued \/ q = r
    BY <1>0, <1>5 DEF r, Reqs
  <2>3. \A q \in Reqs : op'[q] = "none" <=> q > r
    BY <1>7, <2>1 DEF QueueInv, TokenInv, RequestsOnTags
  <2>4. \A q \in Reqs : q > r => handled[q] = "no" /\ outcome[q] = "none"
    BY <2>1 DEF QueueInv, TokenInv, RequestsOnTags
  <2>5. \A q \in Reqs : q <= r /\ outcome[q] = "none" =>
                          \E u \in Tags : drv'[u] = "served" /\ iod'[u] = q
    <3>1. SUFFICES ASSUME NEW q \in Reqs, q <= r, outcome[q] = "none"
                   PROVE  \E u \in Tags : drv'[u] = "served" /\ iod'[u] = q
      OBVIOUS
    <3>2. CASE q = r
      BY <1>3, <3>2
    <3>3. CASE q <= issued
      <4>1. PICK u \in Tags : drv[u] = "served" /\ iod[u] = q
        BY <3>1, <3>3 DEF QueueInv, TokenInv, RequestsOnTags
      <4> QED BY <1>3, <1>8, <4>1
    <3> QED BY <2>2, <3>1, <3>2, <3>3
  <2>6. \A u \in Tags : drv'[u] = "served" => iod'[u] \in 1 .. r /\ outcome[iod'[u]] = "none"
    <3>1. SUFFICES ASSUME NEW u \in Tags, drv'[u] = "served"
                   PROVE  iod'[u] \in 1 .. r /\ outcome[iod'[u]] = "none"
      OBVIOUS
    <3>2. CASE u = t
      <4>1. r \in 1 .. r
        BY <1>0, <1>5 DEF r
      <4> QED BY <1>3, <1>6, <3>2, <4>1
    <3>3. CASE u # t
      <4>1. drv[u] = "served" /\ iod'[u] = iod[u]
        BY <1>3, <3>1, <3>3
      <4>2. iod[u] \in 1 .. issued /\ outcome[iod[u]] = "none"
        BY <4>1 DEF QueueInv, TokenInv, RequestsOnTags
      <4>3. iod[u] \in 1 .. r
        BY <1>0, <4>2 DEF r
      <4> QED BY <4>1, <4>2, <4>3
    <3> QED BY <3>2, <3>3
  <2>7. \A u, v \in Tags : drv'[u] = "served" /\ drv'[v] = "served" /\ iod'[u] = iod'[v] => u = v
    BY <1>3, <1>8 DEF QueueInv, TokenInv, RequestsOnTags
  <2> QED BY <1>1, <2>3, <2>4, <2>5, <2>6, <2>7 DEF RequestsOnTags
<1>11. CommitsHandlerResult'
  BY <1>1, <1>6, <1>9 DEF QueueInv, TokenInv, CommitsHandlerResult
<1>12. \A u \in Tags : drv[u] = "served" => FullResult(iod[u])' = FullResult(iod[u])
  BY <1>3, <1>7, <1>8 DEF FullResult
<1>13. HandledByPlace'
  <2>1. \A u \in Tags : drv'[u] = "served" /\ (OnCq(u)' \/ OnThread(u)') =>
                          handled[iod'[u]] = "no"
    BY <1>3, <1>4, <1>6 DEF QueueInv, TokenInv, HandledByPlace
  <2>2. \A i \in DOMAIN Ring : Ring[i].cmd = "COMMIT" => handled[iod'[Ring[i].tag]] = "ok"
    BY <1>3, <1>4 DEF QueueInv, TokenInv, HandledByPlace
  <2> QED BY <1>1, <1>4, <2>1, <2>2 DEF QueueInv, TokenInv, HandledByPlace
<1>14. ResultsStored'
  <2>1. \A n \in Messages : gpc[n] \in {"lock", "reserve", "fill"} =>
                              result[msg[n].tag] = FullResult(iod[msg[n].tag])'
    <3>1. SUFFICES ASSUME NEW n \in Messages, gpc[n] \in {"lock", "reserve", "fill"}
                   PROVE  result[msg[n].tag] = FullResult(iod[msg[n].tag])'
      OBVIOUS
    <3>2. n \in Pending
      BY <3>1 DEF Pending
    <3>3. msg[n].tag \in Tags /\ drv[msg[n].tag] = "served"
      BY <1>4, <3>2, PendingServed
    <3>4. FullResult(iod[msg[n].tag])' = FullResult(iod[msg[n].tag])
      BY <1>1, <1>12, <3>3
    <3> QED BY <3>1, <3>4 DEF QueueInv, TokenInv, ResultsStored
  <2>2. \A i \in DOMAIN Ring : Ring[i].filled /\ Ring[i].cmd = "COMMIT" =>
                                 Ring[i].res = FullResult(iod[Ring[i].tag])'
    <3>1. SUFFICES ASSUME NEW i \in DOMAIN Ring, Ring[i].filled, Ring[i].cmd = "COMMIT"
                   PROVE  Ring[i].res = FullResult(iod[Ring[i].tag])'
      OBVIOUS
    <3>2. Ring[i].tag \in Tags /\ drv[Ring[i].tag] = "served"
      BY <1>4, <3>1 DEF QueueInv, TokenInv, DriverAgrees
    <3>3. FullResult(iod[Ring[i].tag])' = FullResult(iod[Ring[i].tag])
      BY <1>4, <1>12, <3>2
    <3> QED BY <3>1, <3>3 DEF QueueInv, TokenInv, ResultsStored
  <2> QED BY <1>1, <1>4, <2>1, <2>2 DEF QueueInv, TokenInv, ResultsStored
<1>15. InflightExact'
  BY <1>1, <1>4, SameCount
<1>16. LockHeld' /\ RingSplit'
  BY <1>1, <1>4 DEF QueueInv, TokenInv, LockHeld, RingSplit
<1>17. StopOrder'
  BY <1>1, <1>3 DEF QueueInv, TokenInv, StopOrder
<1> QED
  BY <1>4, <1>10, <1>11, <1>13, <1>14, <1>15, <1>16, <1>17 DEF TokenInv

\* The driver aborts a fetch command.
LEMMA AbortStep ==
  ASSUME QueueInv, NEW t \in Tags, Abort(t)
  PROVE  TokenInv'
<1> DEFINE c == [tag |-> t, res |-> "ABORT"]
<1>1. /\ drv[t] = "fetch" /\ stopped /\ drv' = [drv EXCEPT ![t] = "aborted"]
      /\ cq' = Append(cq, c)
      /\ UNCHANGED <<qpc, cur, stopping, flags, result, inflight, lock, sq, ksq, gpc, msg,
                     iod, issued, stopped, op, handled, outcome>>
  BY DEF Abort
<1>2. c \in Cqe /\ c.tag = t /\ c.res = "ABORT"
  BY DEF Cqe
<1> HIDE DEF c
<1>3. drv'[t] = "aborted" /\ \A u \in Tags \ {t} : drv'[u] = drv[u]
  BY <1>1, TokenTypes
<1>4. /\ Ring' = Ring /\ Working' = Working /\ Submitting' = Submitting
      /\ Critical' = Critical /\ Pending' = Pending
      /\ OnePlace' /\ OneToken' /\ DriverAgrees'
  BY <1>1, <1>2, DriverMoves
<1>5. \A u \in Tags : drv[u] # "served" /\ drv'[u] # "served"
  BY <1>1, <1>3 DEF QueueInv, TokenInv, StopOrder
<1>6. \A r : FullResult(r)' = FullResult(r)
  BY <1>1 DEF FullResult
<1>7. RequestsOnTags'
  BY <1>1, <1>5 DEF QueueInv, TokenInv, RequestsOnTags
<1>8. CommitsHandlerResult'
  BY <1>1, <1>6 DEF QueueInv, TokenInv, CommitsHandlerResult
<1>9. HandledByPlace'
  BY <1>1, <1>4, <1>5 DEF QueueInv, TokenInv, HandledByPlace
<1>10. ResultsStored'
  BY <1>1, <1>4, <1>6 DEF QueueInv, TokenInv, ResultsStored
<1>11. InflightExact'
  BY <1>1, <1>4, SameCount
<1>12. LockHeld' /\ RingSplit'
  BY <1>1, <1>4 DEF QueueInv, TokenInv, LockHeld, RingSplit
<1>13. StopOrder'
  BY <1>1, <1>3 DEF QueueInv, TokenInv, StopOrder
<1> QED
  BY <1>4, <1>7, <1>8, <1>9, <1>10, <1>11, <1>12, <1>13 DEF TokenInv

\* del_gendisk has finished, or nothing happens: no token moves.
LEMMA StopStep ==
  ASSUME QueueInv, StopDev \/ UNCHANGED vars
  PROVE  TokenInv'
<1>1. /\ UNCHANGED <<qpc, cur, stopping, flags, result, inflight, lock, sq, ksq, cq, gpc, msg,
                     drv, iod, issued, op, handled, outcome>>
      /\ stopped' = stopped \/ (stopped' = TRUE /\ \A t \in Tags : drv[t] = "fetch")
  BY DEF StopDev
<1>2. /\ Ring' = Ring /\ Working' = Working /\ Submitting' = Submitting
      /\ Critical' = Critical /\ Pending' = Pending
  BY <1>1 DEF Ring, Working, Submitting, Critical, Pending
<1>3. /\ \A t \in Tags : (OnCq(t)' <=> OnCq(t)) /\ (OnThread(t)' <=> OnThread(t))
      /\ OnePlace' /\ OneToken' /\ DriverAgrees'
  BY <1>1, <1>2, SameTokens
<1>4. RequestsOnTags' /\ CommitsHandlerResult' /\ (\A r : FullResult(r)' = FullResult(r))
  BY <1>1, SameRequests
<1>5. HandledByPlace'
  BY <1>1, <1>2, <1>3 DEF QueueInv, TokenInv, HandledByPlace
<1>6. ResultsStored'
  BY <1>1, <1>2, <1>4 DEF QueueInv, TokenInv, ResultsStored
<1>7. InflightExact'
  BY <1>1, <1>2, SameCount
<1>8. LockHeld' /\ RingSplit' /\ StopOrder'
  BY <1>1, <1>2 DEF QueueInv, TokenInv, LockHeld, RingSplit, StopOrder
<1> QED BY <1>3, <1>4, <1>5, <1>6, <1>7, <1>8 DEF TokenInv

----------------------------------------------------------------------------
(* The invariant *)

\* ublksrv_queue_init leaves one token per tag, on the submission ring.
LEMMA InitTokenInv == Init => TokenInv
<1> SUFFICES ASSUME Init PROVE TokenInv
  OBVIOUS
<1>1. Pending = {} /\ Working = {} /\ Submitting = {} /\ Critical = {}
  BY DEF Init, Pending, Working, Submitting, Critical
<1>2. /\ Ring = sq /\ qpc = "process" /\ ksq = <<>> /\ cq = <<>> /\ DOMAIN cq = {}
      /\ issued = 0 /\ stopped = FALSE /\ stopping = FALSE
  BY DEF Init, Ring
<1>3. /\ DOMAIN Ring = 1 .. QueueDepth
      /\ \A i \in DOMAIN Ring : Ring[i].cmd = "FETCH" /\ Ring[i].tag = i - 1 /\ Ring[i].filled
  BY <1>2 DEF Init
<1>4. /\ \A i \in DOMAIN Ring : i - 1 \in Tags
      /\ \A t \in Tags : drv[t] = "idle"
  BY <1>3, DepthAssumption DEF Init, Tags
<1>5. \A t \in Tags : ~OnCq(t) /\ ~OnThread(t) /\ ~OnGoroutine(t)
  BY <1>1, <1>2 DEF OnCq, OnThread, OnGoroutine
<1>6. RingSplit /\ OnePlace
  BY <1>2, <1>5 DEF RingSplit, OnePlace
<1>7. OneToken
  BY <1>1, <1>2, <1>3, DepthAssumption DEF OneToken
<1>8. DriverAgrees
  BY <1>1, <1>2, <1>3, <1>4 DEF DriverAgrees
<1>9. RequestsOnTags /\ CommitsHandlerResult
  <2>1. \A r \in Reqs : r > issued /\ ~(r <= issued)
    BY <1>2, BoundAssumption DEF Reqs
  <2>2. \A r \in Reqs : op[r] = "none" /\ handled[r] = "no" /\ outcome[r] = "none"
    BY DEF Init
  <2> QED BY <1>4, <2>1, <2>2 DEF RequestsOnTags, CommitsHandlerResult
<1>10. HandledByPlace
  BY <1>1, <1>3, <1>4 DEF HandledByPlace
<1>11. ResultsStored
  <2>1. \A m \in Messages : gpc[m] = "free"
    BY DEF Init
  <2> QED BY <1>1, <1>3, <2>1 DEF ResultsStored
<1>12. LockHeld /\ InflightExact
  BY <1>1, FS_EmptySet DEF Init, LockHeld, InflightExact
<1>13. StopOrder
  BY <1>2, <1>4 DEF StopOrder
<1> QED
  BY <1>6, <1>7, <1>8, <1>9, <1>10, <1>11, <1>12, <1>13 DEF TokenInv

\* Every step keeps the tokens, as long as no handler fails.
LEMMA NextTokenInv ==
  ASSUME HandlerMayFail = FALSE, QueueInv, [Next]_vars
  PROVE  TokenInv'
<1>1. CASE QueueThread \/ spurious_wakeup \/ wait_eintr
  BY <1>1, ThreadKeepsTokens, ConsumeStep, CompletionStep, RequestStep DEF QueueThread
<1>2. ASSUME NEW m \in Messages, Goroutine(m) PROVE TokenInv'
  BY <1>2, QuietStep, HandleStep, MarkStep, ReserveStep, FillStep DEF Goroutine
<1>3. CASE Driver
  BY <1>3, DispatchStep, AbortStep, StopStep DEF Driver
<1>4. CASE UNCHANGED vars
  BY <1>4, StopStep
<1> QED BY <1>1, <1>2, <1>3, <1>4 DEF Next, Terminated

\* Each tag has one token, in one place, and everything recorded about its
\* request fits that place, however the queue thread, the goroutines and the
\* driver interleave, as long as no handler fails.
THEOREM QueueCorrect == ASSUME HandlerMayFail = FALSE PROVE Spec => []QueueInv
<1>1. Init => QueueInv
  BY InitBarrierInv, InitTokenInv DEF QueueInv
<1>2. QueueInv /\ [Next]_vars => QueueInv'
  BY NextBarrierInv, NextTokenInv DEF QueueInv
<1> QED BY <1>1, <1>2, PTL DEF Spec

\* The token invariant itself.
THEOREM TokensKept == ASSUME HandlerMayFail = FALSE PROVE Spec => []TokenInv
<1>1. QueueInv => TokenInv
  BY DEF QueueInv
<1> QED BY <1>1, QueueCorrect, PTL

----------------------------------------------------------------------------
(* What follows for the code *)

\* "only freed io can be issued" (ublksrv_queue_io_cmd): a tag has at most one
\* command on the submission ring, the driver waits for it, and it rejects none.
THEOREM CommandsAccepted == ASSUME HandlerMayFail = FALSE PROVE Spec => []OneCommandPerTag
<1>1. ASSUME QueueInv PROVE OneCommandPerTag
  <2>1. sq \in Seq(Sqe) /\ ksq \in Seq(Sqe)
    BY <1>1, TokenTypes
  <2>2. ksq \o sq = Ring
    <3>1. CASE qpc = "submit"
      <4>1. sq = <<>>
        BY <1>1, <3>1 DEF QueueInv, TokenInv, RingSplit
      <4>2. ksq \o <<>> = ksq
        BY <2>1
      <4> QED BY <3>1, <4>1, <4>2 DEF Ring
    <3>2. CASE qpc # "submit"
      <4>1. ksq = <<>>
        BY <1>1, <3>2 DEF QueueInv, TokenInv, RingSplit
      <4>2. <<>> \o sq = sq
        BY <2>1
      <4> QED BY <3>2, <4>1, <4>2 DEF Ring
    <3> QED BY <3>1, <3>2
  <2> QED BY <1>1, <2>2 DEF QueueInv, TokenInv, OneToken, DriverAgrees, OneCommandPerTag
<1> QED BY <1>1, QueueCorrect, PTL

\* The result the driver ends a request with is the one the goroutine of that
\* request stored without the lock, and it is stored after the handler returned.
THEOREM ResultsCommitted == ASSUME HandlerMayFail = FALSE PROVE Spec => []CommitsHandlerResult
<1>1. QueueInv => CommitsHandlerResult
  BY DEF QueueInv, TokenInv
<1> QED BY <1>1, QueueCorrect, PTL

\* READ data is copied into a tag's buffer only while the driver still waits for
\* that request on that tag.
THEOREM CopyWhileOwned == ASSUME HandlerMayFail = FALSE PROVE Spec => []BufferWrittenWhileOwned
<1>1. QueueInv => BufferWrittenWhileOwned
  BY DEF QueueInv, TokenInv, DriverAgrees, BufferWrittenWhileOwned, Working
<1> QED BY <1>1, QueueCorrect, PTL

\* Neither early return of ublksrv_queue_io_cmd is ever taken with the lock held:
\* the io is marked, and the ring has room.
THEOREM LockReleased == ASSUME HandlerMayFail = FALSE PROVE Spec => []LockNotLeaked
<1>1. QueueInv => LockNotLeaked
  BY DEF QueueInv, TokenInv, LockHeld, LockNotLeaked
<1> QED BY <1>1, QueueCorrect, PTL

\* ublksrv_queue_discard_io_pages meets no buffer a handler has filled.
THEOREM DiscardHarmless == ASSUME HandlerMayFail = FALSE PROVE Spec => []DiscardSparesHandledIo
<1>1. ASSUME QueueInv, qpc = "discard"
      PROVE  Pending = {} /\ \A t \in Tags : drv[t] = "served" => handled[iod[t]] = "no"
  <2>1. Pending = {} /\ Working = {}
    <3>1. Pending = {}
      BY <1>1 DEF QueueInv, BarrierInv, Barrier, Alone
    <3> QED BY <1>1, <3>1, TokenTypes, PendingParts
  <2>2. Ring = <<>>
    BY <1>1 DEF QueueInv, TokenInv, RingSplit, Ring
  <2>3. \A t \in Tags : ~OnRing(t) /\ ~OnThread(t) /\ ~OnGoroutine(t)
    BY <1>1, <2>1, <2>2 DEF OnRing, OnThread, OnGoroutine
  <2>4. \A t \in Tags : drv[t] = "served" => OnCq(t)
    BY <1>1, <2>3 DEF QueueInv, TokenInv, DriverAgrees
  <2> QED BY <1>1, <2>1, <2>4 DEF QueueInv, TokenInv, HandledByPlace
<1>2. QueueInv => DiscardSparesHandledIo
  BY <1>1 DEF DiscardSparesHandledIo
<1> QED BY <1>2, QueueCorrect, PTL

\* When ublksrv_process_io returns -ENODEV, every request has been ended, nothing
\* is counted, no command is left unsubmitted, and no goroutine will touch the
\* rings or the counter any more; some may still be on their way out.
THEOREM ExitClean == ASSUME HandlerMayFail = FALSE PROVE Spec => []CleanExit
<1>1. ASSUME QueueInv, qpc = "exit"
      PROVE  /\ \A r \in Reqs : op[r] # "none" => outcome[r] # "none"
             /\ Pending = {} /\ inflight = 0 /\ sq = <<>>
  <2>1. stopped /\ sq = <<>>
    BY <1>1 DEF QueueInv, TokenInv, StopOrder, RingSplit
  <2>2. \A t \in Tags : drv[t] # "served"
    BY <1>1, <2>1 DEF QueueInv, TokenInv, StopOrder
  <2>3. Pending = {}
    BY <1>1, <2>1, PendingNotSubmit
  <2>4. inflight = 0
    BY <1>1, <2>3, FS_EmptySet DEF QueueInv, TokenInv, InflightExact
  <2>5. \A r \in Reqs : op[r] # "none" => outcome[r] # "none"
    <3>1. \A r \in Reqs : r > issued \/ r <= issued
      BY <1>1, TokenTypes DEF Reqs
    <3> QED BY <1>1, <2>2, <3>1 DEF QueueInv, TokenInv, RequestsOnTags
  <2> QED BY <2>1, <2>3, <2>4, <2>5
<1>2. QueueInv => CleanExit
  BY <1>1 DEF CleanExit
<1> QED BY <1>2, QueueCorrect, PTL

=============================================================================
