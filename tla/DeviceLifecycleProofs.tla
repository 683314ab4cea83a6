------------------------ MODULE DeviceLifecycleProofs ------------------------
(***************************************************************************)
(* Theorems about DeviceLifecycle, for every number of devices, queues,    *)
(* deletions and restarts, whichever steps of Start may fail.              *)
(***************************************************************************)
EXTENDS DeviceLifecycle, TLAPS

\* The groups of variables, and the successors the code hard-wires, are
\* abbreviations: they are expanded everywhere.
USE DEF vars, serverVars, deleteVars, worldVars
USE DEF after_add_failure, after_join, after_abort, after_go, Registered

----------------------------------------------------------------------------
(* Type correctness *)

\* A sequence of at most one element that is not empty has one.
LEMMA ShortSequence ==
  ASSUME NEW S, NEW s \in Seq(S), Len(s) <= 1, s # <<>>
  PROVE  Tail(s) = <<>> /\ Head(s) \in S /\ s = <<Head(s)>>
<1>1. Len(s) \in Nat /\ Len(s) # 0
  OBVIOUS
<1>2. Len(s) = 1
  BY <1>1
<1>3. s[1] \in S /\ Head(s) = s[1] /\ s = <<s[1]>>
  BY <1>2
<1>4. Tail(s) = <<>>
  <2>1. Tail(s) \in Seq(S) /\ Len(Tail(s)) = 0
    BY <1>2
  <2> QED BY <2>1
<1> QED BY <1>3, <1>4

\* A channel of capacity 1 holds nothing or one value.
LEMMA OneSlot ==
  ASSUME NEW s \in Seq({"nil", "err"}), Len(s) <= 1
  PROVE  /\ s # <<>> => Tail(s) = <<>> /\ Head(s) \in {"nil", "err"} /\ s = <<Head(s)>>
         /\ <<>> \in Seq({"nil", "err"}) /\ Len(<<>>) <= 1
         /\ \A v \in {"nil", "err"} : <<v>> \in Seq({"nil", "err"}) /\ Len(<<v>>) <= 1
                                      /\ <<v>> # <<>> /\ Head(<<v>>) = v
<1>1. ASSUME s # <<>> PROVE Tail(s) = <<>> /\ Head(s) \in {"nil", "err"} /\ s = <<Head(s)>>
  BY <1>1, ShortSequence
<1>2. <<>> \in Seq({"nil", "err"}) /\ Len(<<>>) <= 1
  OBVIOUS
<1>3. ASSUME NEW v \in {"nil", "err"}
      PROVE  /\ <<v>> \in Seq({"nil", "err"}) /\ Len(<<v>>) <= 1
             /\ <<v>> # <<>> /\ Head(<<v>>) = v
  OBVIOUS
<1> QED BY <1>1, <1>2, <1>3

\* The types of the server process, of the deletions, and of the rest.
ServerType == /\ app \in [Devices -> {"new", "starting", "up", "error"}]
              /\ daemon \in [Devices -> {"none", "ctrl_init", "add_dev", "add_failed",
                                         "set_params", "params_failed", "register", "report",
                                         "dev_init", "start_dev", "join", "close", "ended",
                                         "failed"}]
              /\ registry \in Devices \cup {None}
              /\ added \subseteq Devices
              /\ exited \in BOOLEAN /\ restarts \in 0 .. MaxRestarts
ChannelType == /\ initDone \in [Devices -> Seq({"nil", "err"})]
               /\ \A d \in Devices : Len(initDone[d]) <= 1
ThreadType == thread \in [Devices -> [Queues -> {"none", "init", "run", "notify", "done", "dead"}]]
DeleteType == /\ call \in [Callers -> {"none", "deleting", "removing", "deleted", "delete_error"}]
              /\ del \in [Callers -> {"none", "get_info", "stop_dev", "del_dev", "wait", "done"}]
WorldType == /\ pidFile \in BOOLEAN
             /\ kdev \in {"none", "added", "live", "dead", "deleting"}
             /\ kfd \in Devices \cup {None}

\* A channel that is left alone, filled when empty, or read keeps its type.
LEMMA ChannelStep ==
  ASSUME ChannelType, NEW d \in Devices,
         \/ UNCHANGED initDone
         \/ \E v \in {"nil", "err"} : Send(d, v)
         \/ initDone[d] # <<>> /\ initDone' = [initDone EXCEPT ![d] = Tail(@)]
  PROVE  ChannelType'
<1>1. initDone[d] \in Seq({"nil", "err"}) /\ Len(initDone[d]) <= 1
  BY DEF ChannelType
<1>2. CASE UNCHANGED initDone
  BY <1>2 DEF ChannelType
<1>3. ASSUME NEW x \in Seq({"nil", "err"}), Len(x) <= 1, initDone' = [initDone EXCEPT ![d] = x]
      PROVE  ChannelType'
  BY <1>3 DEF ChannelType
<1>4. ASSUME NEW v \in {"nil", "err"}, Send(d, v) PROVE ChannelType'
  BY <1>1, <1>3, <1>4, OneSlot DEF Send
<1>5. CASE initDone[d] # <<>> /\ initDone' = [initDone EXCEPT ![d] = Tail(@)]
  <2>1. Tail(initDone[d]) = <<>> /\ <<>> \in Seq({"nil", "err"}) /\ Len(<<>>) <= 1
    BY <1>1, <1>5, OneSlot
  <2> QED BY <1>3, <1>5, <2>1
<1> QED BY <1>2, <1>4, <1>5

\* So does the table of threads when one of them goes on.
LEMMA ThreadMoves ==
  ASSUME ThreadType, NEW d \in Devices, NEW q \in Queues,
         NEW pc \in {"none", "init", "run", "notify", "done", "dead"},
         thread' = [thread EXCEPT ![d][q] = pc]
  PROVE  /\ ThreadType' /\ thread'[d][q] = pc
         /\ \A e \in Devices, p \in Queues : e # d \/ p # q => thread'[e][p] = thread[e][p]
<1>1. thread[d] \in [Queues -> {"none", "init", "run", "notify", "done", "dead"}]
  BY DEF ThreadType
<1>2. thread' = [thread EXCEPT ![d] = [thread[d] EXCEPT ![q] = pc]]
  OBVIOUS
<1> QED BY <1>1, <1>2 DEF ThreadType

\* Every step keeps the types.
LEMMA NextTypeOK == TypeOK /\ [Next]_vars => TypeOK'
<1> SUFFICES ASSUME ServerType, ChannelType, ThreadType, DeleteType, WorldType, [Next]_vars
             PROVE  ServerType' /\ ChannelType' /\ ThreadType' /\ DeleteType' /\ WorldType'
  BY DEF TypeOK, ServerType, ChannelType, ThreadType, DeleteType, WorldType
<1>1. ASSUME NEW d \in Devices, Start(d) \/ startupC(d)
      PROVE  ServerType' /\ ChannelType' /\ ThreadType' /\ DeleteType' /\ WorldType'
  <2>1. ChannelType'
    BY <1>1, ChannelStep DEF Start, startupC
  <2> QED BY <1>1, <2>1 DEF Start, startupC, ServerType, ThreadType, DeleteType, WorldType
<1>2. ASSUME NEW d \in Devices, Daemon(d)
      PROVE  ServerType' /\ ChannelType' /\ ThreadType' /\ DeleteType' /\ WorldType'
  <2>1. ChannelType'
    BY <1>2, ChannelStep DEF Daemon, ublksrv_ctrl_init, ublksrv_ctrl_add_dev, add_failed,
       init_params, params_failed, registerDevice, report, ublksrv_dev_init,
       ublksrv_ctrl_start_dev, unregisterDevice, close_daemonDone
  <2>2. /\ daemon' \in [Devices -> {"none", "ctrl_init", "add_dev", "add_failed",
                                    "set_params", "params_failed", "register", "report",
                                    "dev_init", "start_dev", "join", "close", "ended",
                                    "failed"}]
        /\ UNCHANGED <<app, exited, restarts, deleteVars>>
    BY <1>2 DEF Daemon, ublksrv_ctrl_init, ublksrv_ctrl_add_dev, add_failed,
       init_params, params_failed, registerDevice, report, ublksrv_dev_init,
       ublksrv_ctrl_start_dev, unregisterDevice, close_daemonDone, At, ServerType
  <2>3. registry' \in Devices \cup {None} /\ added' \subseteq Devices
    BY <1>2 DEF Daemon, ublksrv_ctrl_init, ublksrv_ctrl_add_dev, add_failed,
       init_params, params_failed, registerDevice, report, ublksrv_dev_init,
       ublksrv_ctrl_start_dev, unregisterDevice, close_daemonDone, ServerType
  <2>4. WorldType'
    BY <1>2 DEF Daemon, ublksrv_ctrl_init, ublksrv_ctrl_add_dev, add_failed,
       init_params, params_failed, registerDevice, report, ublksrv_dev_init,
       ublksrv_ctrl_start_dev, unregisterDevice, close_daemonDone, WorldType
  <2>5. ThreadType'
    <3>1. \/ UNCHANGED thread
          \/ thread' = [thread EXCEPT ![d] = [q \in Queues |-> "init"]]
      BY <1>2 DEF Daemon, ublksrv_ctrl_init, ublksrv_ctrl_add_dev, add_failed,
         init_params, params_failed, registerDevice, report, ublksrv_dev_init,
         ublksrv_ctrl_start_dev, unregisterDevice, close_daemonDone
    <3> QED BY <3>1 DEF ThreadType
  <2> QED BY <2>1, <2>2, <2>3, <2>4, <2>5 DEF ServerType, DeleteType
<1>3. ASSUME NEW d \in Devices, NEW q \in Queues,
             ublksrv_queue_init(d, q) \/ demo_null_io_handler_fn(d, q)
      PROVE  ServerType' /\ ChannelType' /\ ThreadType' /\ DeleteType' /\ WorldType'
  <2>1. ThreadType'
    BY <1>3, ThreadMoves DEF ublksrv_queue_init, demo_null_io_handler_fn, Thread
  <2>2. ServerType' /\ ChannelType' /\ DeleteType' /\ WorldType'
    BY <1>3 DEF ublksrv_queue_init, demo_null_io_handler_fn, Thread,
       ServerType, ChannelType, DeleteType, WorldType
  <2> QED BY <2>1, <2>2
<1>4. ASSUME NEW c \in Callers, Delete(c) \/ delCmd(c) \/ DeleteStep(c) \/ CommandStep(c)
      PROVE  ServerType' /\ ChannelType' /\ ThreadType' /\ DeleteType' /\ WorldType'
  <2>1. CASE Delete(c) \/ delCmd(c) \/ deleteC(c)
    BY <2>1 DEF Delete, delCmd, Begin, deleteC,
       ServerType, ChannelType, ThreadType, DeleteType, WorldType
  <2>2. ASSUME NEW d \in Devices, NEW q \in Queues, notifyShutdown(c, d, q)
        PROVE  ServerType' /\ ChannelType' /\ ThreadType' /\ DeleteType' /\ WorldType'
    <3>1. ThreadType'
      BY <2>2, ThreadMoves DEF notifyShutdown, Thread
    <3> QED
      BY <2>2, <3>1 DEF notifyShutdown, Thread, ServerType, ChannelType, DeleteType, WorldType
  <2>3. CASE CommandStep(c)
    BY <2>3 DEF CommandStep, ublksrv_ctrl_get_info, ublksrv_ctrl_stop_dev,
       ublksrv_ctrl_del_dev, cmd_dev_del, Command,
       ServerType, ChannelType, ThreadType, DeleteType, WorldType
  <2> QED BY <1>4, <2>1, <2>2, <2>3 DEF DeleteStep
<1>5. CASE Exit
  <2>1. ChannelType'
    <3>1. \A d \in Devices : initDone'[d] = <<>>
      BY <1>5 DEF Exit, Fresh
    <3> QED BY <1>5, <3>1 DEF Exit, Fresh, ChannelType
  <2> QED BY <1>5, <2>1 DEF Exit, Fresh, ServerType, ThreadType, DeleteType, WorldType
<1>6. CASE Restart
  <2>1. exited' \in BOOLEAN /\ restarts' \in 0 .. MaxRestarts
    <3>1. exited' \in BOOLEAN
      BY <1>6 DEF Restart
    <3>2. restarts < MaxRestarts /\ restarts' = restarts + 1 /\ restarts \in 0 .. MaxRestarts
      BY <1>6 DEF Restart, ServerType
    <3> QED BY <3>1, <3>2, RestartAssumption
  <2>2. DeleteType'
    BY <1>6 DEF Restart, DeleteType
  <2> QED
    BY <1>6, <2>1, <2>2 DEF Restart, ServerType, ChannelType, ThreadType, WorldType
<1>7. CASE UNCHANGED vars
  BY <1>7 DEF ServerType, ChannelType, ThreadType, DeleteType, WorldType
<1> QED BY <1>1, <1>2, <1>3, <1>4, <1>5, <1>6, <1>7 DEF Next

\* The server starts well typed.
LEMMA InitTypeOK == Init => TypeOK
<1> SUFFICES ASSUME Init PROVE TypeOK
  OBVIOUS
<1>1. ServerType
  <2>1. restarts \in 0 .. MaxRestarts
    BY RestartAssumption DEF Init
  <2>2. exited \in BOOLEAN
    BY DEF Init
  <2> QED BY <2>1, <2>2 DEF Init, Fresh, ServerType
<1>2. DeleteType /\ WorldType
  BY DEF Init, DeleteType, WorldType
<1>3. ChannelType /\ ThreadType
  BY DEF Init, Fresh, ChannelType, ThreadType
<1> QED BY <1>1, <1>2, <1>3 DEF TypeOK, ServerType, ChannelType, ThreadType, DeleteType, WorldType

\* No part leaves its type, and initDone never overflows.
THEOREM LifecycleTypes == Spec => []TypeOK
BY InitTypeOK, NextTypeOK, PTL DEF Spec

----------------------------------------------------------------------------
(* The invariant *)

\* A step of a daemon goroutine moves that goroutine only.
LEMMA AtMoves ==
  ASSUME LifeInv, NEW d \in Devices, NEW pc, NEW next, At(d, pc, next)
  PROVE  /\ ~exited /\ daemon[d] = pc /\ daemon'[d] = next
         /\ \A e \in Devices \ {d} : daemon'[e] = daemon[e]
         /\ UNCHANGED <<app, exited, restarts, call, del>>
BY DEF At, LifeInv, TypeOK

\* Who has the device open, and what that says about the other daemons.
LEMMA OpenerAlone ==
  ASSUME LifeInv
  PROVE  /\ \A d \in Devices : daemon[d] \in {"start_dev", "join", "close", "ended"} =>
                                 kfd = d /\ kfd # None /\ kdev # "none"
         /\ \A d \in Devices, q \in Queues : thread[d][q] # "none" => kfd = d /\ kfd # None
         /\ kfd = None => kdev # "live"
BY DevicesAssumption DEF LifeInv, OneOpener, StoppedForGood

\* A step of the daemon that leaves the threads, the device and the pid file
\* alone, before it opens the device.
LEMMA EarlyDaemonStep ==
  ASSUME LifeInv, NEW d \in Devices, NEW pc, NEW next, At(d, pc, next),
         UNCHANGED <<thread, kfd, pidFile>>,
         kdev' = kdev \/ (kdev = "none" /\ kdev' = "added"),
         registry' = registry \/ registry' = d,
         pc # "join", next \notin {"start_dev", "join", "close", "ended"},
         next \in {"report", "dev_init"} => registry' = d \/ pc \in {"report", "dev_init"}
  PROVE  OneOpener' /\ StoppedForGood' /\ ReadyToServe'
<1>1. /\ daemon[d] = pc /\ daemon'[d] = next
      /\ \A e \in Devices \ {d} : daemon'[e] = daemon[e]
      /\ UNCHANGED <<exited, call>> /\ d # None
  BY AtMoves, DevicesAssumption
<1>2. OneOpener'
  BY <1>1 DEF LifeInv, OneOpener
<1>3. StoppedForGood'
  <2>1. kdev \in {"dead", "deleting"} => kdev' = kdev
    OBVIOUS
  <2>2. kdev' = "live" => \E e \in Devices : daemon'[e] = "join"
    BY <1>1 DEF LifeInv, StoppedForGood
  <2> QED BY <1>1, <2>1, <2>2 DEF LifeInv, StoppedForGood
<1>4. ReadyToServe'
  <2>1. registry # None => registry' # None
    BY <1>1
  <2> QED BY <1>1, <2>1 DEF LifeInv, ReadyToServe
<1> QED BY <1>2, <1>3, <1>4

\* The daemon's steps up to its report.
LEMMA DaemonStarts ==
  ASSUME LifeInv, NEW d \in Devices,
         \/ ublksrv_ctrl_init(d) \/ ublksrv_ctrl_add_dev(d) \/ add_failed(d) \/ init_params(d)
         \/ params_failed(d) \/ registerDevice(d) \/ report(d)
  PROVE  OneOpener' /\ StoppedForGood' /\ ReadyToServe'
<1>1. PICK pc, next :
        /\ At(d, pc, next) /\ UNCHANGED <<thread, kfd, pidFile>>
        /\ kdev' = kdev \/ (kdev = "none" /\ kdev' = "added")
        /\ registry' = registry \/ registry' = d
        /\ pc # "join" /\ next \notin {"start_dev", "join", "close", "ended"}
        /\ next \in {"report", "dev_init"} => registry' = d \/ pc \in {"report", "dev_init"}
  BY DEF ublksrv_ctrl_init, ublksrv_ctrl_add_dev, add_failed, init_params,
     params_failed, registerDevice, report
<1> QED BY <1>1, EarlyDaemonStep

\* The device is opened, or the daemon fails.
LEMMA DaemonOpens ==
  ASSUME LifeInv, NEW d \in Devices, ublksrv_dev_init(d)
  PROVE  OneOpener' /\ StoppedForGood' /\ ReadyToServe'
<1>0. UNCHANGED <<registry, kdev>> /\ d # None
  BY DevicesAssumption DEF ublksrv_dev_init
<1>1. CASE At(d, "dev_init", "failed") /\ UNCHANGED <<kfd, pidFile, thread>>
  BY <1>0, <1>1, EarlyDaemonStep
<1>2. CASE /\ CanOpen /\ kfd' = d
           /\ \/ At(d, "dev_init", "start_dev") /\ pidFile' = TRUE
                 /\ thread' = [thread EXCEPT ![d] = [q \in Queues |-> "init"]]
              \/ At(d, "dev_init", "failed") /\ UNCHANGED thread
  <2>1. /\ kfd = None /\ kdev \notin {"none", "live"}
        /\ \A e \in Devices : daemon[e] \notin {"start_dev", "join", "close", "ended"}
        /\ \A e \in Devices, q \in Queues : thread[e][q] = "none"
    BY <1>2, OpenerAlone DEF CanOpen
  <2>2. /\ daemon[d] = "dev_init" /\ ~exited
        /\ \A e \in Devices \ {d} : daemon'[e] = daemon[e]
        /\ UNCHANGED <<exited, call>>
    BY <1>2, AtMoves
  <2>3. daemon'[d] \in {"start_dev", "failed"} /\ (daemon'[d] = "start_dev" => pidFile')
    BY <1>2, AtMoves
  <2>4. /\ \A q \in Queues : thread'[d][q] \in {"none", "init"}
        /\ \A e \in Devices \ {d}, q \in Queues : thread'[e][q] = "none"
    BY <1>2, <2>1 DEF LifeInv, TypeOK
  <2>5. registry # None
    BY <2>1, <2>2 DEF LifeInv, ReadyToServe
  <2>6. \A c \in Calls : call[c] \notin {"removing", "deleted", "delete_error"}
    BY <2>1, <2>2 DEF LifeInv, StoppedForGood
  <2>7. OneOpener'
    BY <1>0, <1>2, <2>1, <2>2, <2>3, <2>4 DEF OneOpener
  <2>8. StoppedForGood'
    BY <1>0, <2>1, <2>2, <2>4, <2>6 DEF LifeInv, StoppedForGood
  <2>9. ReadyToServe'
    BY <1>0, <1>2, <2>1, <2>2, <2>3, <2>5 DEF ReadyToServe
  <2> QED BY <2>7, <2>8, <2>9
<1> QED BY <1>1, <1>2 DEF ublksrv_dev_init

\* START_DEV, and the end of the daemon.
LEMMA DaemonServes ==
  ASSUME LifeInv, NEW d \in Devices,
         ublksrv_ctrl_start_dev(d) \/ unregisterDevice(d) \/ close_daemonDone(d)
  PROVE  OneOpener' /\ StoppedForGood' /\ ReadyToServe'
<1>0. /\ UNCHANGED <<thread, kfd, pidFile, exited, call>>
      /\ \A e \in Devices \ {d} : daemon'[e] = daemon[e]
      /\ daemon[d] \in {"start_dev", "join", "close"}
      /\ daemon'[d] \in {"join", "failed", "close", "ended"}
  BY AtMoves DEF ublksrv_ctrl_start_dev, unregisterDevice, close_daemonDone
<1>1. /\ kfd = d /\ kfd # None /\ kdev # "none"
      /\ \A e \in Devices \ {d} : daemon[e] \notin {"start_dev", "join", "close", "ended"}
  BY <1>0, OpenerAlone
<1>2. /\ kdev' = kdev \/ (kdev = "added" /\ kdev' = "live" /\ daemon'[d] = "join")
      /\ daemon[d] = "join" => kdev \in {"dead", "deleting"}
      /\ registry' = registry \/ (daemon[d] = "join" /\ daemon'[d] = "close")
      /\ daemon'[d] = "join" => daemon[d] = "start_dev" /\ kdev' = "live" /\ kdev = "added"
  <2>1. CASE ublksrv_ctrl_start_dev(d)
    BY <2>1, AtMoves DEF ublksrv_ctrl_start_dev
  <2>2. CASE unregisterDevice(d)
    <3>1. \E q \in Queues : thread[d][q] = "done"
      BY <2>2, QueuesAssumption DEF unregisterDevice
    <3>2. kdev \in {"dead", "deleting"}
      BY <3>1 DEF LifeInv, StoppedForGood
    <3> QED BY <2>2, <3>2, AtMoves DEF unregisterDevice
  <2>3. CASE close_daemonDone(d)
    BY <2>3, AtMoves DEF close_daemonDone
  <2> QED BY <2>1, <2>2, <2>3
<1>3. OneOpener'
  BY <1>0, <1>1, <1>2 DEF LifeInv, OneOpener
<1>4. StoppedForGood'
  <2>1. kdev \in {"dead", "deleting"} => kdev' = kdev
    BY <1>2
  <2>2. kdev' = "live" => \E e \in Devices : daemon'[e] = "join"
    BY <1>0, <1>1, <1>2 DEF LifeInv, StoppedForGood
  <2> QED BY <1>0, <2>1, <2>2 DEF LifeInv, StoppedForGood
<1>5. ReadyToServe'
  BY <1>0, <1>1, <1>2 DEF LifeInv, ReadyToServe
<1> QED BY <1>3, <1>4, <1>5

\* The queue threads, and the Delete that receives from one.
LEMMA ThreadsStop ==
  ASSUME LifeInv, NEW d \in Devices, NEW q \in Queues,
         \/ ublksrv_queue_init(d, q) \/ demo_null_io_handler_fn(d, q)
         \/ \E c \in Callers : notifyShutdown(c, d, q)
  PROVE  OneOpener' /\ StoppedForGood' /\ ReadyToServe'
<1>1. PICK pc \in {"init", "run", "notify"}, next \in {"run", "dead", "notify", "done"} :
        /\ Thread(d, q, pc, next)
        /\ next \in {"notify", "done"} => kdev \in {"dead", "deleting"}
        /\ UNCHANGED <<pidFile, kdev, kfd>>
  <2>1. CASE ublksrv_queue_init(d, q)
    BY <2>1 DEF ublksrv_queue_init
  <2>2. CASE demo_null_io_handler_fn(d, q)
    BY <2>2 DEF demo_null_io_handler_fn
  <2>3. ASSUME NEW c \in Callers, notifyShutdown(c, d, q)
        PROVE  /\ Thread(d, q, "notify", "done") /\ kdev \in {"dead", "deleting"}
               /\ UNCHANGED <<pidFile, kdev, kfd>>
    <3>1. Thread(d, q, "notify", "done") /\ UNCHANGED <<pidFile, kdev, kfd>>
      BY <2>3 DEF notifyShutdown
    <3>2. thread[d][q] = "notify"
      BY <3>1 DEF Thread
    <3> QED BY <3>1, <3>2 DEF LifeInv, StoppedForGood
  <2> QED BY <2>1, <2>2, <2>3
<1>2. /\ ~exited /\ thread[d][q] # "none" /\ thread'[d][q] = next
      /\ \A e \in Devices, p \in Queues : e # d \/ p # q => thread'[e][p] = thread[e][p]
      /\ UNCHANGED <<daemon, registry, exited>>
  <2>1. ThreadType
    BY DEF LifeInv, TypeOK, ThreadType
  <2>2. thread' = [thread EXCEPT ![d][q] = next]
    BY <1>1 DEF Thread
  <2>3. /\ thread'[d][q] = next
        /\ \A e \in Devices, p \in Queues : e # d \/ p # q => thread'[e][p] = thread[e][p]
    <3>1. thread[d] \in [Queues -> {"none", "init", "run", "notify", "done", "dead"}]
      BY <2>1 DEF ThreadType
    <3>2. thread' = [thread EXCEPT ![d] = [thread[d] EXCEPT ![q] = next]]
      BY <2>2
    <3> QED BY <2>1, <3>1, <3>2 DEF ThreadType
  <2> QED BY <1>1, <2>3 DEF Thread
<1>3. kfd = d /\ kfd # None
  BY <1>2, OpenerAlone
<1>4. \/ UNCHANGED call
      \/ \E c \in Calls : /\ call' = [call EXCEPT ![c] = "removing"]
                          /\ kdev \in {"dead", "deleting"}
  <2>1. CASE ublksrv_queue_init(d, q) \/ demo_null_io_handler_fn(d, q)
    BY <2>1 DEF ublksrv_queue_init, demo_null_io_handler_fn
  <2>2. ASSUME NEW c \in Callers, notifyShutdown(c, d, q)
        PROVE  /\ c \in Calls /\ call' = [call EXCEPT ![c] = "removing"]
               /\ kdev \in {"dead", "deleting"}
    <3>1. thread[d][q] = "notify"
      BY <2>2 DEF notifyShutdown, Thread
    <3> QED BY <2>2, <3>1 DEF notifyShutdown, LifeInv, StoppedForGood
  <2> QED BY <2>1, <2>2
<1>5. OneOpener'
  BY <1>1, <1>2, <1>3 DEF LifeInv, OneOpener
<1>6. StoppedForGood'
  <2>1. \A e \in Devices, p \in Queues :
          thread'[e][p] \in {"notify", "done"} => kdev \in {"dead", "deleting"}
    BY <1>1, <1>2 DEF LifeInv, StoppedForGood
  <2>2. /\ \A c \in Calls : call'[c] \in {"removing", "deleted", "delete_error"} =>
                              kfd # None /\ kdev \in {"dead", "deleting"}
        /\ \A c \in Clis : call'[c] \in {"none", "deleting"}
    BY <1>2, <1>3, <1>4, CallersAssumption DEF LifeInv, StoppedForGood, TypeOK, Callers
  <2> QED BY <1>1, <1>2, <2>1, <2>2 DEF LifeInv, StoppedForGood
<1>7. ReadyToServe'
  BY <1>1, <1>2 DEF LifeInv, ReadyToServe
<1> QED BY <1>5, <1>6, <1>7

\* Start and its wait for the verdict concern neither the device nor Delete.
LEMMA StartStep ==
  ASSUME LifeInv, NEW d \in Devices, Start(d) \/ startupC(d)
  PROVE  OneOpener' /\ StoppedForGood' /\ ReadyToServe'
<1>1. /\ UNCHANGED <<thread, registry, exited, call, pidFile, kdev, kfd>>
      /\ \/ UNCHANGED daemon
         \/ /\ app[d] = "new" /\ daemon' = [daemon EXCEPT ![d] = "ctrl_init"]
  BY DEF Start, startupC
<1>2. \A e \in Devices : \/ daemon'[e] = daemon[e]
                         \/ e = d /\ daemon[e] = "none" /\ daemon'[e] = "ctrl_init"
  BY <1>1 DEF LifeInv, TypeOK, FirstVerdict
<1>3. OneOpener'
  BY <1>1, <1>2 DEF LifeInv, OneOpener
<1>4. StoppedForGood'
  <2>1. \A e \in Devices : daemon[e] = "join" => daemon'[e] = "join"
    BY <1>2
  <2> QED BY <1>1, <2>1 DEF LifeInv, StoppedForGood
<1>5. ReadyToServe'
  BY <1>1, <1>2 DEF LifeInv, ReadyToServe
<1> QED BY <1>3, <1>4, <1>5

\* A Delete begins, removes the pid file, or sends its commands: none of this
\* makes a device live, and the pid file goes only when it has been stopped.
LEMMA DeleteSteps ==
  ASSUME LifeInv, NEW c \in Callers,
         Delete(c) \/ delCmd(c) \/ deleteC(c) \/ CommandStep(c)
  PROVE  OneOpener' /\ StoppedForGood' /\ ReadyToServe'
<1>1. UNCHANGED <<daemon, thread, registry, exited, kfd>>
  BY DEF Delete, delCmd, Begin, deleteC, CommandStep, ublksrv_ctrl_get_info,
     ublksrv_ctrl_stop_dev, ublksrv_ctrl_del_dev, cmd_dev_del, Command
<1>2. /\ kdev' = "live" => kdev = "live"
      /\ kdev \in {"dead", "deleting"} /\ kfd # None => kdev' \in {"dead", "deleting"}
      /\ kfd # None /\ kdev # "none" => kdev' # "none"
      /\ kdev' # kdev => UNCHANGED <<call, pidFile>>
  <2>1. CASE Delete(c) \/ delCmd(c) \/ deleteC(c)
    BY <2>1 DEF Delete, delCmd, Begin, deleteC
  <2>2. CASE CommandStep(c)
    BY <2>2 DEF CommandStep, ublksrv_ctrl_get_info, ublksrv_ctrl_stop_dev,
       ublksrv_ctrl_del_dev, cmd_dev_del, Command
  <2> QED BY <2>1, <2>2
<1>3. /\ \A b \in Clis : call'[b] \in {"none", "deleting"}
      /\ ~exited => \A b \in Calls : call'[b] \in {"removing", "deleted", "delete_error"} =>
                                       kfd # None /\ kdev \in {"dead", "deleting"}
      /\ ~pidFile' => ~pidFile \/ kdev \in {"dead", "deleting"}
  <2>1. CASE Delete(c) \/ delCmd(c)
    BY <2>1 DEF Delete, delCmd, Begin, LifeInv, StoppedForGood, TypeOK, Callers
  <2>2. CASE deleteC(c)
    <3>1. call[c] = "removing" /\ Running(c)
      BY <2>2 DEF deleteC
    <3>2. c \in Calls /\ c \notin Clis /\ ~exited
      BY <3>1 DEF LifeInv, StoppedForGood, Callers, Running
    <3>3. kfd # None /\ kdev \in {"dead", "deleting"}
      BY <3>1, <3>2 DEF LifeInv, StoppedForGood
    <3>4. \A b \in Clis : call'[b] = call[b]
      BY <2>2, <3>2 DEF deleteC, LifeInv, TypeOK, Callers
    <3> QED BY <3>3, <3>4 DEF LifeInv, StoppedForGood
  <2>3. CASE CommandStep(c)
    <3>1. UNCHANGED <<call, pidFile>>
      BY <2>3 DEF CommandStep, ublksrv_ctrl_get_info, ublksrv_ctrl_stop_dev,
         ublksrv_ctrl_del_dev, cmd_dev_del, Command
    <3> QED BY <3>1 DEF LifeInv, StoppedForGood
  <2> QED BY <2>1, <2>2, <2>3
<1>4. OneOpener'
  BY <1>1, <1>2 DEF LifeInv, OneOpener
<1>5. StoppedForGood'
  <2>1. \A d \in Devices, q \in Queues :
          thread[d][q] \in {"notify", "done"} => kdev' \in {"dead", "deleting"}
    BY <1>2, OpenerAlone DEF LifeInv, StoppedForGood
  <2>2. kdev' = "live" => \E d \in Devices : daemon[d] = "join"
    BY <1>2 DEF LifeInv, StoppedForGood
  <2>3. ~exited => \A b \in Calls : call'[b] \in {"removing", "deleted", "delete_error"} =>
                                      kfd # None /\ kdev' \in {"dead", "deleting"}
    BY <1>2, <1>3
  <2> QED BY <1>1, <1>3, <2>1, <2>2, <2>3 DEF StoppedForGood
<1>6. ReadyToServe'
  <2>1. SUFFICES ASSUME NEW d \in Devices, daemon[d] \in {"start_dev", "join"}
                 PROVE  pidFile' \/ kdev' \in {"dead", "deleting"}
    BY <1>1 DEF LifeInv, ReadyToServe
  <2>2. kfd # None
    BY <2>1, OpenerAlone
  <2>3. pidFile \/ kdev \in {"dead", "deleting"}
    BY <2>1 DEF LifeInv, ReadyToServe
  <2>4. CASE kdev \in {"dead", "deleting"}
    BY <1>2, <2>2, <2>4
  <2>5. CASE kdev \notin {"dead", "deleting"}
    BY <1>3, <2>3, <2>5
  <2> QED BY <2>4, <2>5
<1> QED BY <1>4, <1>5, <1>6

\* The process exits, or is started again.
LEMMA ProcessSteps ==
  ASSUME LifeInv, Exit \/ Restart
  PROVE  OneOpener' /\ StoppedForGood' /\ ReadyToServe'
<1>1. CASE Exit
  <2>1. /\ \A d \in Devices : daemon'[d] = "none"
        /\ \A d \in Devices, q \in Queues : thread'[d][q] = "none"
        /\ kfd' = None /\ exited' = TRUE /\ kdev' # "live" /\ UNCHANGED call
    BY <1>1 DEF Exit, Fresh
  <2> QED
    BY <2>1 DEF LifeInv, OneOpener, StoppedForGood, ReadyToServe
<1>2. CASE Restart
  <2>1. /\ \A c \in Calls : call'[c] = "none"
        /\ \A c \in Clis : call'[c] = call[c]
        /\ UNCHANGED <<daemon, thread, registry, pidFile, kdev, kfd>>
    BY <1>2, CallersAssumption DEF Restart, Callers
  <2> QED
    BY <2>1 DEF LifeInv, OneOpener, StoppedForGood, ReadyToServe
<1> QED BY <1>1, <1>2

\* What Start has been told, and what it will be told first.
LEMMA VerdictKept ==
  ASSUME LifeInv, [Next]_vars
  PROVE  FirstVerdict' /\ StartMeansAdded'
<1> DEFINE V(d) == /\ app[d] = "new" => daemon[d] = "none" /\ initDone[d] = <<>>
                   /\ app[d] = "starting" /\ d \notin added =>
                        /\ initDone[d] # <<"nil">>
                        /\ initDone[d] = <<>> =>
                             daemon[d] \in {"none", "ctrl_init", "add_dev", "add_failed"}
                   /\ app[d] = "up" => d \in added
<1>0. /\ \A d \in Devices : V(d)
      /\ app \in [Devices -> {"new", "starting", "up", "error"}]
      /\ initDone \in [Devices -> Seq({"nil", "err"})]
      /\ \A d \in Devices : Len(initDone[d]) <= 1
  BY DEF LifeInv, FirstVerdict, StartMeansAdded, TypeOK
<1>00. SUFFICES \A d \in Devices : V(d)'
  BY DEF FirstVerdict, StartMeansAdded
<1>1. ASSUME NEW d \in Devices, Start(d) PROVE \A e \in Devices : V(e)'
  <2>1. \A e \in Devices \ {d} : UNCHANGED <<app[e], daemon[e], initDone[e], added>>
    BY <1>1 DEF Start, LifeInv, TypeOK
  <2>2. V(d)'
    <3>1. daemon[d] = "none" /\ initDone'[d] = <<>> /\ UNCHANGED <<initDone, added>>
      BY <1>0, <1>1 DEF Start
    <3>2. /\ app'[d] \in {"starting", "error"}
          /\ daemon'[d] \in {"none", "ctrl_init"}
      BY <1>0, <1>1, <3>1 DEF Start, LifeInv, TypeOK
    <3>3. <<>> # <<"nil">>
      OBVIOUS
    <3> QED BY <3>1, <3>2, <3>3
  <2> QED BY <1>0, <2>1, <2>2
<1>2. ASSUME NEW d \in Devices, startupC(d) PROVE \A e \in Devices : V(e)'
  <2>1. \A e \in Devices \ {d} : UNCHANGED <<app[e], daemon[e], initDone[e], added>>
    BY <1>2 DEF startupC, LifeInv, TypeOK
  <2>2. V(d)'
    <3>1. initDone[d] = <<Head(initDone[d])>>
      BY <1>0, <1>2, OneSlot DEF startupC
    <3>2. app[d] = "starting" /\ app'[d] = (IF Head(initDone[d]) = "nil" THEN "up" ELSE "error")
      BY <1>0, <1>2 DEF startupC
    <3>3. Head(initDone[d]) = "nil" => d \in added
      BY <1>0, <3>1, <3>2
    <3> QED BY <1>2, <3>2, <3>3 DEF startupC
  <2> QED BY <1>0, <2>1, <2>2
<1>3. ASSUME NEW d \in Devices, Daemon(d) PROVE \A e \in Devices : V(e)'
  <2>1. PICK pc, next : At(d, pc, next)
    BY <1>3 DEF Daemon, ublksrv_ctrl_init, ublksrv_ctrl_add_dev, add_failed,
       init_params, params_failed, registerDevice, report, ublksrv_dev_init,
       ublksrv_ctrl_start_dev, unregisterDevice, close_daemonDone
  <2>2. \A e \in Devices \ {d} : daemon'[e] = daemon[e] /\ UNCHANGED app
    BY <2>1, AtMoves
  <2>3. /\ \A e \in Devices \ {d} : initDone'[e] = initDone[e]
        /\ added \subseteq added'
    BY <1>0, <1>3 DEF Daemon, ublksrv_ctrl_init, ublksrv_ctrl_add_dev, add_failed,
       init_params, params_failed, registerDevice, report, ublksrv_dev_init,
       ublksrv_ctrl_start_dev, unregisterDevice, close_daemonDone, Send
  <2>4. \A e \in Devices \ {d} : V(e)'
    BY <1>0, <2>2, <2>3
  <2>5. UNCHANGED app /\ app[d] # "new"
    <3>1. daemon[d] # "none" /\ UNCHANGED app
      BY <1>3, AtMoves DEF Daemon, ublksrv_ctrl_init, ublksrv_ctrl_add_dev, add_failed,
         init_params, params_failed, registerDevice, report, ublksrv_dev_init,
         ublksrv_ctrl_start_dev, unregisterDevice, close_daemonDone
    <3> QED BY <1>0, <3>1
  <2>6. V(d)'
    <3>1. CASE ublksrv_ctrl_add_dev(d)
      BY <1>0, <2>5, <3>1, AtMoves DEF ublksrv_ctrl_add_dev
    <3>2. CASE ublksrv_ctrl_init(d)
      BY <1>0, <2>5, <3>2, AtMoves DEF ublksrv_ctrl_init, Send
    <3>3. CASE add_failed(d) \/ params_failed(d)
      <4>1. initDone'[d] = <<"err">> /\ UNCHANGED added
        BY <1>0, <3>3 DEF add_failed, params_failed, Send
      <4>2. <<"err">> # <<"nil">> /\ <<"err">> # <<>>
        OBVIOUS
      <4> QED BY <1>0, <2>5, <4>1, <4>2
    <3>4. CASE report(d)
      <4>1. daemon[d] = "report" /\ initDone[d] = <<>> /\ UNCHANGED added
        BY <3>4, AtMoves DEF report, Send
      <4>2. app[d] = "starting" => d \in added
        BY <1>0, <4>1
      <4> QED BY <1>0, <2>5, <4>1, <4>2
    <3>5. CASE \/ init_params(d) \/ registerDevice(d) \/ ublksrv_dev_init(d)
               \/ ublksrv_ctrl_start_dev(d) \/ unregisterDevice(d) \/ close_daemonDone(d)
      <4>1. /\ UNCHANGED <<initDone, added>>
            /\ daemon[d] \notin {"none", "ctrl_init", "add_dev", "add_failed"}
        BY <3>5, AtMoves DEF init_params, registerDevice, ublksrv_dev_init,
           ublksrv_ctrl_start_dev, unregisterDevice, close_daemonDone
      <4> QED BY <1>0, <2>5, <4>1
    <3> QED BY <1>3, <3>1, <3>2, <3>3, <3>4, <3>5 DEF Daemon
  <2> QED BY <2>4, <2>6
<1>4. CASE Exit
  BY <1>4 DEF Exit, Fresh
<1>5. CASE UNCHANGED <<app, daemon, initDone, added>>
  BY <1>0, <1>5
<1>6. ASSUME NEW d \in Devices, NEW q \in Queues,
             ublksrv_queue_init(d, q) \/ demo_null_io_handler_fn(d, q)
      PROVE  UNCHANGED <<app, daemon, initDone, added>>
  BY <1>6 DEF ublksrv_queue_init, demo_null_io_handler_fn, Thread
<1>7. ASSUME NEW c \in Callers, Delete(c) \/ delCmd(c) \/ DeleteStep(c) \/ CommandStep(c)
      PROVE  UNCHANGED <<app, daemon, initDone, added>>
  BY <1>7 DEF Delete, delCmd, Begin, DeleteStep, notifyShutdown, Thread, deleteC, CommandStep,
     ublksrv_ctrl_get_info, ublksrv_ctrl_stop_dev, ublksrv_ctrl_del_dev, cmd_dev_del, Command
<1>8. ASSUME Restart \/ UNCHANGED vars PROVE UNCHANGED <<app, daemon, initDone, added>>
  BY <1>8 DEF Restart
<1> QED BY <1>1, <1>2, <1>3, <1>4, <1>5, <1>6, <1>7, <1>8 DEF Next

\* Every step keeps the invariant.
LEMMA NextLifeInv == LifeInv /\ [Next]_vars => LifeInv'
<1> SUFFICES ASSUME LifeInv, [Next]_vars PROVE LifeInv'
  OBVIOUS
<1>1. TypeOK'
  BY NextTypeOK DEF LifeInv
<1>2. FirstVerdict' /\ StartMeansAdded'
  BY VerdictKept
<1>3. OneOpener' /\ StoppedForGood' /\ ReadyToServe'
  <2>1. ASSUME NEW d \in Devices, Start(d) \/ startupC(d) \/ Daemon(d)
        PROVE  OneOpener' /\ StoppedForGood' /\ ReadyToServe'
    BY <2>1, StartStep, DaemonStarts, DaemonOpens, DaemonServes DEF Daemon
  <2>2. ASSUME NEW d \in Devices, NEW q \in Queues,
               ublksrv_queue_init(d, q) \/ demo_null_io_handler_fn(d, q)
        PROVE  OneOpener' /\ StoppedForGood' /\ ReadyToServe'
    BY <2>2, ThreadsStop
  <2>3. ASSUME NEW c \in Callers, Delete(c) \/ delCmd(c) \/ DeleteStep(c) \/ CommandStep(c)
        PROVE  OneOpener' /\ StoppedForGood' /\ ReadyToServe'
    BY <2>3, DeleteSteps, ThreadsStop DEF DeleteStep
  <2>4. CASE Exit \/ Restart
    BY <2>4, ProcessSteps
  <2>5. CASE UNCHANGED vars
    BY <2>5 DEF LifeInv, OneOpener, StoppedForGood, ReadyToServe
  <2> QED BY <2>1, <2>2, <2>3, <2>4, <2>5 DEF Next
<1> QED BY <1>1, <1>2, <1>3 DEF LifeInv

\* The invariant, however starts, deletions, crashes and restarts interleave.
THEOREM LifecycleCorrect == Spec => []LifeInv
<1>1. Init => LifeInv
  <2> SUFFICES ASSUME Init PROVE LifeInv
    OBVIOUS
  <2>1. /\ \A d \in Devices : app[d] = "new" /\ daemon[d] = "none" /\ initDone[d] = <<>>
        /\ \A d \in Devices, q \in Queues : thread[d][q] = "none"
        /\ \A c \in Callers : call[c] = "none"
        /\ kfd = None /\ kdev = "none"
    BY DEF Init, Fresh
  <2>2. OneOpener /\ StoppedForGood /\ ReadyToServe /\ FirstVerdict /\ StartMeansAdded
    BY <2>1 DEF OneOpener, StoppedForGood, ReadyToServe, FirstVerdict, StartMeansAdded, Callers
  <2> QED BY <2>2, InitTypeOK DEF LifeInv
<1> QED BY <1>1, NextLifeInv, PTL DEF Spec

----------------------------------------------------------------------------
(* What follows for the code *)

\* onRequestAsync never misses the device in the registry while it is live.
THEOREM RegistryFilled == Spec => []RegistryWhileLive
<1>1. LifeInv => RegistryWhileLive
  BY DEF LifeInv, StoppedForGood, ReadyToServe, RegistryWhileLive
<1> QED BY <1>1, LifecycleCorrect, PTL

\* A live device has its pid file.
THEOREM PidFileKept == Spec => []PidFileWhileLive
<1>1. LifeInv => PidFileWhileLive
  BY DEF LifeInv, StoppedForGood, ReadyToServe, PidFileWhileLive
<1> QED BY <1>1, LifecycleCorrect, PTL

\* Start returns nil only if its own ADD_DEV created the device.
THEOREM StartTellsTruth == Spec => []StartMeansAdded
<1>1. LifeInv => StartMeansAdded
  BY DEF LifeInv
<1> QED BY <1>1, LifecycleCorrect, PTL

\* Once a Delete has returned, no device of this process is live.
THEOREM DeleteStops == Spec => []DeleteMeansStopped
<1>1. LifeInv => DeleteMeansStopped
  BY DEF LifeInv, StoppedForGood, DeleteMeansStopped
<1> QED BY <1>1, LifecycleCorrect, PTL

=============================================================================
