---------------------- MODULE UblkQueueRefinementProofs ----------------------
(***************************************************************************)
(* When handlers do not fail, every behaviour of UblkQueue is one of       *)
(* BlockDevice: each step of a thread, a goroutine or the driver either    *)
(* submits, handles or completes one request or changes the status of      *)
(* none.                                                                   *)
(***************************************************************************)
EXTENDS UblkQueueTokenProofs

USE DEF vars, threadVars, locals, worldVars, ioVars, ringVars, goVars, drvVars, reqVars

----------------------------------------------------------------------------
(* The status of a request *)

\* What the fields of a request say about how far it has come.
LEMMA StatusValues ==
  ASSUME NEW r \in Reqs
  PROVE  /\ op[r] = "none" /\ handled[r] = "no" => StatusOf(r) = "absent"
         /\ op[r] # "none" /\ outcome[r] = "none" /\ handled[r] = "no" => StatusOf(r) = "queued"
         /\ op[r] # "none" /\ outcome[r] = "none" /\ handled[r] = "ok" => StatusOf(r) = "ok"
         /\ op[r] # "none" /\ outcome[r] = FullResult(r) /\ handled[r] = "ok"
              => StatusOf(r) = "ended_ok"
<1>1. op[r] = "none" /\ handled[r] = "no" => StatusOf(r) = "absent"
  BY DEF StatusOf, FullResult
<1>2. op[r] # "none" /\ outcome[r] = "none" /\ handled[r] = "no" => StatusOf(r) = "queued"
  BY DEF StatusOf, FullResult
<1>3. op[r] # "none" /\ outcome[r] = "none" /\ handled[r] = "ok" => StatusOf(r) = "ok"
  BY DEF StatusOf, FullResult
<1>4. op[r] # "none" /\ outcome[r] = FullResult(r) /\ handled[r] = "ok"
        => StatusOf(r) = "ended_ok"
  BY DEF StatusOf, FullResult
<1> QED BY <1>1, <1>2, <1>3, <1>4

\* A request whose fields do not change keeps its status.
LEMMA StatusSame ==
  ASSUME NEW r \in Reqs, op'[r] = op[r], handled'[r] = handled[r], outcome'[r] = outcome[r]
  PROVE  StatusOf(r)' = StatusOf(r)
BY DEF StatusOf, FullResult

\* A step that changes the fields of one request moves that request.
LEMMA StatusMoves ==
  ASSUME NEW r \in Reqs, NEW to, StatusOf(r)' = to,
         \A q \in Reqs \ {r} : op'[q] = op[q] /\ handled'[q] = handled[q] /\ outcome'[q] = outcome[q]
  PROVE  [q \in Reqs |-> StatusOf(q)]' = [[q \in Reqs |-> StatusOf(q)] EXCEPT ![r] = to]
<1>1. \A q \in Reqs \ {r} : StatusOf(q)' = StatusOf(q)
  BY StatusSame
<1> QED BY <1>1

----------------------------------------------------------------------------
(* The simulation, step by step *)

\* The driver hands out a request: the device accepts it.
LEMMA DispatchSubmits ==
  ASSUME QueueInv, NEW t \in Tags, NEW o \in Ops, Dispatch(t, o)
  PROVE  \E r \in Reqs : Device!Submit(r)
<1>1. /\ issued < MaxRequests /\ op' = [op EXCEPT ![issued + 1] = o]
      /\ UNCHANGED <<handled, outcome>>
  BY DEF Dispatch
<1>2. PICK r \in Reqs : r = issued + 1 /\ r > issued
  BY <1>1, TokenTypes, BoundAssumption DEF Reqs
<1>3. op[r] = "none" /\ handled[r] = "no" /\ outcome[r] = "none"
  BY <1>2 DEF QueueInv, TokenInv, RequestsOnTags
<1>4. op \in [Reqs -> {"none"} \cup Ops]
  BY DEF QueueInv, BarrierInv, TypeOK, ReqType
<1>5. /\ op'[r] # "none"
      /\ \A q \in Reqs \ {r} : op'[q] = op[q] /\ handled'[q] = handled[q] /\ outcome'[q] = outcome[q]
  BY <1>1, <1>2, <1>4, OpsAssumption
<1>6. StatusOf(r) = "absent"
  BY <1>2, <1>3, StatusValues
<1>7. StatusOf(r)' = "queued"
  <2>1. handled'[r] = "no" /\ outcome'[r] = "none"
    BY <1>1, <1>3
  <2> QED BY <1>2, <1>5, <2>1 DEF StatusOf, FullResult
<1>8. Device!Submit(r)
  BY <1>2, <1>5, <1>6, <1>7, StatusMoves DEF Device!Submit, Device!Move
<1> QED BY <1>2, <1>8

\* The IOHandler returns: the device has handled the request.
LEMMA HandleHandles ==
  ASSUME QueueInv, HandlerMayFail = FALSE, NEW m \in Messages, NEW err \in BOOLEAN, handle(m, err)
  PROVE  \E r \in Reqs : Device!Handle(r)
<1>1. /\ gpc[m] = "handling" /\ handled' = [handled EXCEPT ![msg[m].req] = "ok"]
      /\ UNCHANGED <<op, outcome>>
  BY DEF handle
<1>2. m \in Working
  BY <1>1 DEF Working
<1>3. PICK r \in Reqs : r = msg[m].req /\ r \in 1 .. issued /\ outcome[r] = "none"
  BY <1>2, WorkingAlone
<1>4. handled[r] = "no"
  BY <1>1, <1>2, <1>3 DEF QueueInv, TokenInv, HandledByPlace
<1>5. op[r] # "none"
  <2>1. ~(r > issued)
    BY <1>3, TokenTypes
  <2> QED BY <1>3, <2>1 DEF QueueInv, TokenInv, RequestsOnTags
<1>6. handled \in [Reqs -> {"no", "ok", "failed"}]
  BY DEF QueueInv, BarrierInv, TypeOK, ReqType
<1>7. /\ handled'[r] = "ok"
      /\ \A q \in Reqs \ {r} : op'[q] = op[q] /\ handled'[q] = handled[q] /\ outcome'[q] = outcome[q]
  BY <1>1, <1>3, <1>6
<1>8. StatusOf(r) = "queued"
  BY <1>3, <1>4, <1>5, StatusValues
<1>9. StatusOf(r)' = "ok"
  <2>1. op'[r] # "none" /\ outcome'[r] = "none"
    BY <1>1, <1>3, <1>5
  <2> QED BY <1>3, <1>7, <2>1 DEF StatusOf, FullResult
<1>10. Device!Handle(r)
  BY <1>3, <1>7, <1>8, <1>9, StatusMoves DEF Device!Handle, Device!Move
<1> QED BY <1>3, <1>10

\* The driver consumes a COMMIT: the device ends the request, with success.  A
\* FETCH concerns no request.
LEMMA ConsumeCompletes ==
  ASSUME QueueInv, consume_sqe
  PROVE  UNCHANGED <<op, handled, outcome>> \/ \E r \in Reqs : Device!Complete(r)
<1> DEFINE t == Head(ksq).tag
<1>1. /\ t \in Tags /\ Head(ksq).cmd \in {"FETCH", "COMMIT"}
      /\ Head(ksq).cmd = "FETCH" => outcome' = outcome
      /\ Head(ksq).cmd = "COMMIT" =>
           /\ outcome' = [outcome EXCEPT ![iod[t]] = FullResult(iod[t])]
           /\ iod[t] \in Reqs /\ outcome[iod[t]] = "none" /\ handled[iod[t]] = "ok"
           /\ drv[t] = "served"
      /\ UNCHANGED <<op, handled>>
  BY CommandAccepted
<1>2. CASE Head(ksq).cmd = "COMMIT"
  <2>1. PICK r \in Reqs : /\ r = iod[t] /\ r \in 1 .. issued
                          /\ outcome[r] = "none" /\ handled[r] = "ok"
                          /\ outcome' = [outcome EXCEPT ![r] = FullResult(r)]
    BY <1>1, <1>2 DEF QueueInv, TokenInv, RequestsOnTags
  <2>2. op[r] # "none"
    <3>1. ~(r > issued)
      BY <2>1, TokenTypes
    <3> QED BY <2>1, <3>1 DEF QueueInv, TokenInv, RequestsOnTags
  <2>3. outcome \in [Reqs -> {"none"} \cup Results]
    BY DEF QueueInv, BarrierInv, TypeOK, ReqType
  <2>4. /\ outcome'[r] = FullResult(r)
        /\ \A q \in Reqs \ {r} : op'[q] = op[q] /\ handled'[q] = handled[q] /\ outcome'[q] = outcome[q]
    BY <1>1, <1>2, <2>1, <2>3
  <2>5. StatusOf(r) = "ok"
    BY <2>1, <2>2, StatusValues
  <2>6. StatusOf(r)' = "ended_ok"
    <3>1. op'[r] = op[r] /\ handled'[r] = "ok"
      BY <1>1, <2>1
    <3> QED BY <2>1, <2>2, <2>4, <3>1 DEF StatusOf, FullResult
  <2>7. Device!Complete(r)
    BY <2>1, <2>4, <2>5, <2>6, StatusMoves DEF Device!Complete, Device!Move
  <2> QED BY <2>1, <2>7
<1> QED BY <1>1, <1>2

\* No other step touches a request.
LEMMA OtherStepsStutter ==
  ASSUME [Next]_vars,
         ~consume_sqe,
         \A m \in Messages, err \in BOOLEAN : ~handle(m, err),
         \A t \in Tags, o \in Ops : ~Dispatch(t, o)
  PROVE  UNCHANGED <<op, handled, outcome>>
<1>1. CASE QueueThread \/ spurious_wakeup \/ wait_eintr
  BY <1>1 DEF QueueThread, process_io_enter, wait_inflight, flush_sq, submitted,
     wait_cqe, wait_etime, wait_eintr, WaitReturns, ublksrv_handle_cqe, onRequestAsync,
     demo_handle_io_async, process_io_leave, spurious_wakeup, ublksrv_queue_discard_io_pages
<1>2. ASSUME NEW m \in Messages, Goroutine(m) PROVE UNCHANGED <<op, handled, outcome>>
  BY <1>2 DEF Goroutine, handleRequests, resume, copy, ublksrv_mark_io_done,
     pthread_mutex_lock, io_uring_get_sqe, fill_sqe, atomic_fetch_sub, pthread_cond_signal,
     pthread_mutex_unlock, return_message
<1>3. CASE Driver \/ UNCHANGED vars
  BY <1>3 DEF Driver, StopDev, Abort
<1> QED BY <1>1, <1>2, <1>3 DEF Next, Terminated

\* Every step of the queue is a step of the device, or none.
LEMMA StepSimulation ==
  ASSUME HandlerMayFail = FALSE, QueueInv, [Next]_vars
  PROVE  Device!Next \/ UNCHANGED [r \in Reqs |-> StatusOf(r)]
<1>1. ASSUME UNCHANGED <<op, handled, outcome>> PROVE UNCHANGED [r \in Reqs |-> StatusOf(r)]
  <2>1. \A r \in Reqs : StatusOf(r)' = StatusOf(r)
    BY <1>1, StatusSame
  <2> QED BY <2>1
<1>2. CASE consume_sqe
  BY <1>1, <1>2, ConsumeCompletes DEF Device!Next
<1>3. ASSUME NEW m \in Messages, NEW err \in BOOLEAN, handle(m, err) PROVE Device!Next
  BY <1>3, HandleHandles DEF Device!Next
<1>4. ASSUME NEW t \in Tags, NEW o \in Ops, Dispatch(t, o) PROVE Device!Next
  BY <1>4, DispatchSubmits DEF Device!Next
<1> QED BY <1>1, <1>2, <1>3, <1>4, OtherStepsStutter

\* The device starts with no request accepted.
LEMMA InitSimulation == Init => Device!Init
<1> SUFFICES ASSUME Init PROVE Device!Init
  OBVIOUS
<1>1. \A r \in Reqs : op[r] = "none" /\ handled[r] = "no"
  BY DEF Init
<1>2. \A r \in Reqs : StatusOf(r) = "absent"
  BY <1>1, StatusValues
<1> QED BY <1>2 DEF Device!Init

\* As long as no handler fails, the queue, its goroutines and its driver implement
\* the safety part of BlockDevice: each request is shown to the IOHandler once, and
\* is ended once, after that, with the handler's outcome.
THEOREM QueueImplementsDevice == ASSUME HandlerMayFail = FALSE PROVE Spec => Device!Spec
<1>1. QueueInv /\ [Next]_vars => [Device!Next]_([r \in Reqs |-> StatusOf(r)])
  BY StepSimulation
<1> QED BY <1>1, InitSimulation, QueueCorrect, PTL DEF Spec, Device!Spec

=============================================================================
