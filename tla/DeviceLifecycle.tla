--------------------------- MODULE DeviceLifecycle ---------------------------
(***************************************************************************)
(* The life of ublk devices in a server process: Start (startupC and the   *)
(* goroutine it leaves behind), the queue threads, the registry `devices`  *)
(* that onRequestAsync looks handlers up in, the global channel Done, the  *)
(* pid file, Delete (deleteC and cmd_dev_del), and `ublk del` run in       *)
(* processes of its own.  The server may exit or be killed at any time and *)
(* be started again.                                                       *)
(*                                                                         *)
(* startupC never sets dev_id, so every Start asks the driver for device   *)
(* 0: the driver, the registry and the run directory have one entry each.  *)
(***************************************************************************)
EXTENDS Naturals, Sequences

CONSTANTS
    Devices,      \* the UblkDevice objects of the server process
    Queues,       \* hardware queues of a device
    Calls,        \* the calls of Delete in the server process
    Clis,         \* the processes that run `ublk del`
    MayFail,      \* the steps of Start that may fail for reasons of their own
    MaxRestarts,  \* bound: how often the server is started again
    None

ASSUME DevicesAssumption == Devices # {} /\ None \notin Devices
ASSUME QueuesAssumption == Queues # {}
ASSUME CallersAssumption == Calls \cap Clis = {}
ASSUME RestartAssumption == MaxRestarts \in Nat

Steps == {"mkdir", "ctrl_init", "add_dev", "set_params", "get_affinity",
          "create_pid_file", "queue_init", "start_dev"}
ASSUME MayFailAssumption == MayFail \subseteq Steps

VARIABLES
    \* the server process
    app,        \* the goroutine that calls Start
    daemon,     \* the goroutine startupC starts
    initDone,   \* channel of capacity 1 from daemon to Start
    thread,     \* the queue threads
    registry,   \* devices[0]
    added,      \* history: the devices whose ADD_DEV succeeded
    exited,     \* has the process exited?
    restarts,   \* how often it has been started again
    \* the deletions, in the server or in a process of their own
    call,       \* the goroutine in deleteC
    del,        \* cmd_dev_del, in a goroutine of its own
    \* the file system and the driver (external)
    pidFile,    \* does 0.pid exist?
    kdev,       \* the driver's device 0
    kfd         \* who has /dev/ublkc0 open (one opener at a time)

serverVars == <<app, daemon, initDone, thread, registry, added, exited, restarts>>
deleteVars == <<call, del>>
worldVars  == <<pidFile, kdev, kfd>>
vars == <<serverVars, deleteVars, worldVars>>

Callers == Calls \cup Clis

\* Every part keeps its type, and initDone never holds more than the one value
\* make(chan error, 1) has room for.
TypeOK ==
    /\ app \in [Devices -> {"new", "starting", "up", "error"}]
    /\ daemon \in [Devices -> {"none", "ctrl_init", "add_dev", "add_failed",
                               "set_params", "params_failed", "register", "report",
                               "dev_init", "start_dev", "join", "close", "ended",
                               "failed"}]
    /\ initDone \in [Devices -> Seq({"nil", "err"})]
    /\ \A d \in Devices : Len(initDone[d]) <= 1
    /\ thread \in [Devices -> [Queues -> {"none", "init", "run", "notify", "done", "dead"}]]
    /\ registry \in Devices \cup {None}
    /\ added \subseteq Devices
    /\ exited \in BOOLEAN /\ restarts \in 0 .. MaxRestarts
    /\ call \in [Callers -> {"none", "deleting", "removing", "deleted", "delete_error"}]
    /\ del \in [Callers -> {"none", "get_info", "stop_dev", "del_dev", "wait", "done"}]
    /\ pidFile \in BOOLEAN
    /\ kdev \in {"none", "added", "live", "dead", "deleting"}
    /\ kfd \in Devices \cup {None}

\* A server process that has just been started.
Fresh == [app |-> [d \in Devices |-> "new"],
          daemon |-> [d \in Devices |-> "none"],
          initDone |-> [d \in Devices |-> <<>>],
          thread |-> [d \in Devices |-> [q \in Queues |-> "none"]]]

Init ==
    /\ app = Fresh.app /\ daemon = Fresh.daemon
    /\ initDone = Fresh.initDone /\ thread = Fresh.thread
    /\ registry = None /\ added = {} /\ exited = FALSE /\ restarts = 0
    /\ call = [c \in Callers |-> "none"] /\ del = [c \in Callers |-> "none"]
    /\ pidFile = FALSE /\ kdev = "none" /\ kfd = None

----------------------------------------------------------------------------
(* Start *)

Fails(step) == step \in MayFail

\* Start fills the message pool, starts handleRequests, and startupC starts
\* the daemon goroutine, unless it cannot make the run directory.
Start(d) ==
    /\ ~exited /\ app[d] = "new"
    /\ \/ /\ app' = [app EXCEPT ![d] = "starting"]
          /\ daemon' = [daemon EXCEPT ![d] = "ctrl_init"]
       \/ /\ Fails("mkdir")
          /\ app' = [app EXCEPT ![d] = "error"] /\ UNCHANGED daemon
    /\ UNCHANGED <<initDone, thread, registry, added, exited, restarts,
                   deleteVars, worldVars>>

\* err = <-initDone
startupC(d) ==
    /\ ~exited /\ app[d] = "starting" /\ initDone[d] # <<>>
    /\ app' = [app EXCEPT ![d] = IF Head(initDone[d]) = "nil" THEN "up" ELSE "error"]
    /\ initDone' = [initDone EXCEPT ![d] = Tail(@)]
    /\ UNCHANGED <<daemon, thread, registry, added, exited, restarts,
                   deleteVars, worldVars>>

\* A step of the daemon goroutine of d, which leaves the threads of control
\* that are not its own where they are.
At(d, pc, next) == /\ ~exited /\ daemon[d] = pc
                   /\ daemon' = [daemon EXCEPT ![d] = next]
                   /\ UNCHANGED <<app, exited, restarts, deleteVars>>

\* (fault) does not wait
fault_Send(d, v) == initDone' = [initDone EXCEPT ![d] = Append(@, v)]

\* initDone <- v, which waits while the channel is full.
Send(d, v) == initDone[d] = <<>> /\ initDone' = [initDone EXCEPT ![d] = <<v>>]

ublksrv_ctrl_init(d) ==
    /\ \/ At(d, "ctrl_init", "add_dev") /\ UNCHANGED initDone
       \/ Fails("ctrl_init") /\ At(d, "ctrl_init", "failed") /\ Send(d, "err")
    /\ UNCHANGED <<thread, registry, added, worldVars>>

\* (fault) skips SET_PARAMS after a failure and does not report it
fault_after_add_failure == "register"

after_add_failure == "add_failed"

\* ADD_DEV for an id that exists fails with EEXIST.
ublksrv_ctrl_add_dev(d) ==
    /\ \/ /\ kdev = "none"
          /\ At(d, "add_dev", "set_params")
          /\ kdev' = "added" /\ added' = added \cup {d}
       \/ /\ kdev # "none" \/ Fails("add_dev")
          /\ At(d, "add_dev", after_add_failure)
          /\ UNCHANGED <<kdev, added>>
    /\ UNCHANGED <<initDone, thread, registry, pidFile, kfd>>

\* The goroutine reports the failure, and goes on.
add_failed(d) ==
    /\ At(d, "add_failed", "set_params") /\ Send(d, "err")
    /\ UNCHANGED <<thread, registry, added, worldVars>>

\* SET_PARAMS is refused while the device is live.
init_params(d) ==
    /\ \/ kdev \notin {"none", "live"} /\ At(d, "set_params", "register")
       \/ /\ kdev \in {"none", "live"} \/ Fails("set_params")
          /\ At(d, "set_params", "params_failed")
    /\ UNCHANGED <<initDone, thread, registry, added, worldVars>>

params_failed(d) ==
    /\ At(d, "params_failed", "register") /\ Send(d, "err")
    /\ UNCHANGED <<thread, registry, added, worldVars>>

\* (fault) forgets to store the device
fault_Registered(d) == registry

\* The new value of devices[0].
Registered(d) == d

registerDevice(d) ==
    /\ At(d, "register", "report")
    /\ registry' = Registered(d)
    /\ UNCHANGED <<initDone, thread, added, worldVars>>

report(d) ==
    /\ At(d, "report", "dev_init") /\ Send(d, "nil")
    /\ UNCHANGED <<thread, registry, added, worldVars>>

\* The driver lets one process open the device that was added.
CanOpen == kdev # "none" /\ kfd = None

\* ublksrv_start_daemon: GET_QUEUE_AFFINITY, then ublksrv_dev_init opens
\* /dev/ublkc0 and writes the pid file; a failure closes nothing.  Then one
\* thread per queue is created.
ublksrv_dev_init(d) ==
    /\ \/ /\ CanOpen
          /\ At(d, "dev_init", "start_dev")
          /\ kfd' = d /\ pidFile' = TRUE
          /\ thread' = [thread EXCEPT ![d] = [q \in Queues |-> "init"]]
       \/ /\ ~CanOpen \/ Fails("get_affinity")
          /\ At(d, "dev_init", "failed")
          /\ UNCHANGED <<kfd, pidFile, thread>>
       \/ /\ CanOpen /\ Fails("create_pid_file")
          /\ At(d, "dev_init", "failed")
          /\ kfd' = d /\ pidFile' = FALSE /\ UNCHANGED thread
    /\ UNCHANGED <<initDone, registry, added, kdev>>

\* START_DEV waits until every queue has fetched all its tags; a signal may
\* interrupt the wait, and a device that has been stopped or deleted cannot be
\* started.  On failure the daemon goroutine ends at once.
ublksrv_ctrl_start_dev(d) ==
    /\ \/ /\ kdev = "added" /\ \A q \in Queues : thread[d][q] = "run"
          /\ At(d, "start_dev", "join")
          /\ kdev' = "live"
       \/ /\ kdev # "added" \/ Fails("start_dev")
          /\ At(d, "start_dev", "failed") /\ UNCHANGED kdev
    /\ UNCHANGED <<initDone, thread, registry, added, pidFile, kfd>>

\* (fault) takes a normal end of ublksrv_start_daemon for a failure
fault_after_join == "failed"

after_join == "close"

\* pthread_join on every queue thread, then unregisterDevice ...
unregisterDevice(d) ==
    /\ \A q \in Queues : thread[d][q] = "done"
    /\ At(d, "join", after_join)
    /\ registry' = None
    /\ UNCHANGED <<initDone, thread, added, worldVars>>

\* ... and close(d.daemonDone).
close_daemonDone(d) ==
    /\ At(d, "close", "ended")
    /\ UNCHANGED <<initDone, thread, registry, added, worldVars>>

Daemon(d) ==
    \/ ublksrv_ctrl_init(d) \/ ublksrv_ctrl_add_dev(d) \/ add_failed(d)
    \/ init_params(d) \/ params_failed(d) \/ registerDevice(d) \/ report(d)
    \/ ublksrv_dev_init(d) \/ ublksrv_ctrl_start_dev(d)
    \/ unregisterDevice(d) \/ close_daemonDone(d)

----------------------------------------------------------------------------
(* The queue threads.  What they do while they run is UblkQueue. *)

Thread(d, q, pc, next) ==
    /\ ~exited /\ thread[d][q] = pc
    /\ thread' = [thread EXCEPT ![d][q] = next]
    /\ UNCHANGED <<app, daemon, initDone, registry, added, exited, restarts>>

\* A thread whose ublksrv_queue_init fails just returns.
ublksrv_queue_init(d, q) ==
    /\ \/ Thread(d, q, "init", "run")
       \/ Fails("queue_init") /\ Thread(d, q, "init", "dead")
    /\ UNCHANGED <<deleteVars, worldVars>>

\* (fault) returns without notifyShutdown
fault_after_abort == "done"

after_abort == "notify"

\* Once the device is stopped the fetch commands are aborted;
\* ublksrv_process_io returns -ENODEV and the thread blocks in notifyShutdown
\* until someone receives from Done.
demo_null_io_handler_fn(d, q) ==
    /\ kdev \in {"dead", "deleting"} /\ kfd = d
    /\ Thread(d, q, "run", after_abort)
    /\ UNCHANGED <<deleteVars, worldVars>>

----------------------------------------------------------------------------
(* Delete, DeleteDevice *)

\* The process of a caller is there.
Running(c) == c \in Clis \/ ~exited

\* (fault) does not wait for Done
fault_after_go == "removing"

after_go == "deleting"

\* deleteC begins: go cmd_dev_del(id).
Begin(c) ==
    /\ call[c] = "none"
    /\ call' = [call EXCEPT ![c] = after_go]
    /\ del' = [del EXCEPT ![c] = "get_info"]
    /\ UNCHANGED <<serverVars, worldVars>>

\* The application deletes a device that Start has said is up.
Delete(c) == c \in Calls /\ ~exited /\ (\E d \in Devices : app[d] = "up") /\ Begin(c)

\* `ublk del -n 0`
delCmd(c) == c \in Clis /\ Begin(c)

\* <-Done meets a notifyShutdown of the same process.
notifyShutdown(c, d, q) ==
    /\ c \in Calls /\ call[c] = "deleting"
    /\ Thread(d, q, "notify", "done")
    /\ call' = [call EXCEPT ![c] = "removing"]
    /\ UNCHANGED <<del, worldVars>>

\* os.Remove of the pid file.
deleteC(c) ==
    /\ Running(c) /\ call[c] = "removing"
    /\ call' = [call EXCEPT ![c] = IF pidFile THEN "deleted" ELSE "delete_error"]
    /\ pidFile' = FALSE
    /\ UNCHANGED <<serverVars, del, kdev, kfd>>

Command(c, pc, next) == /\ Running(c) /\ del[c] = pc
                        /\ del' = [del EXCEPT ![c] = next]
                        /\ UNCHANGED <<serverVars, call, pidFile, kfd>>

\* ublksrv_ctrl_get_info fails if there is no such device.
ublksrv_ctrl_get_info(c) ==
    /\ Command(c, "get_info", IF kdev = "none" THEN "done" ELSE "stop_dev")
    /\ UNCHANGED kdev

\* STOP_DEV of a device that is not live yet does nothing, or aborts the fetch
\* commands it has already been given: drivers differ.
ublksrv_ctrl_stop_dev(c) ==
    /\ Command(c, "stop_dev", IF kdev = "none" THEN "done" ELSE "del_dev")
    /\ kdev' \in CASE kdev = "live"  -> {"dead"}
                   [] kdev = "added" -> {"added", "dead"}
                   [] OTHER          -> {kdev}

\* DEL_DEV stops and unlinks the device and waits for /dev/ublkc0 to be closed,
\* which nothing in the server does before it exits.
ublksrv_ctrl_del_dev(c) ==
    /\ Command(c, "del_dev", "wait")
    /\ kdev' = IF kfd = None THEN "none" ELSE "deleting"

cmd_dev_del(c) ==
    /\ kdev = "none" /\ Command(c, "wait", "done")
    /\ UNCHANGED kdev

DeleteStep(c) ==
    \/ \E d \in Devices, q \in Queues : notifyShutdown(c, d, q)
    \/ deleteC(c)

CommandStep(c) ==
    \/ ublksrv_ctrl_get_info(c) \/ ublksrv_ctrl_stop_dev(c)
    \/ ublksrv_ctrl_del_dev(c) \/ cmd_dev_del(c)

----------------------------------------------------------------------------
(* The server process *)

\* main returns, or the process is killed, and its memory is gone.  The kernel
\* closes /dev/ublkc0: a device that is being deleted goes away, a live one
\* loses its server.
Exit ==
    /\ ~exited /\ exited' = TRUE
    /\ app' = Fresh.app /\ daemon' = Fresh.daemon
    /\ initDone' = Fresh.initDone /\ thread' = Fresh.thread
    /\ registry' = None /\ added' = {}
    /\ del' = [c \in Callers |-> IF c \in Calls THEN "none" ELSE del[c]]
    /\ kfd' = None
    /\ kdev' = CASE kdev = "deleting" -> "none" [] kdev = "live" -> "dead" [] OTHER -> kdev
    /\ UNCHANGED <<restarts, call, pidFile>>

\* The server is run again: only the driver's device and the pid file are left.
Restart ==
    /\ exited /\ restarts < MaxRestarts
    /\ exited' = FALSE /\ restarts' = restarts + 1
    /\ call' = [c \in Callers |-> IF c \in Calls THEN "none" ELSE call[c]]
    /\ UNCHANGED <<app, daemon, initDone, thread, registry, added, del, worldVars>>

Next == \/ \E d \in Devices : Start(d) \/ startupC(d) \/ Daemon(d)
        \/ \E d \in Devices, q \in Queues :
             ublksrv_queue_init(d, q) \/ demo_null_io_handler_fn(d, q)
        \/ \E c \in Callers : Delete(c) \/ delCmd(c) \/ DeleteStep(c) \/ CommandStep(c)
        \/ Exit \/ Restart

Spec == Init /\ [][Next]_vars

\* Goroutines and threads that can go on do; whether and when the application
\* starts, deletes and exits is up to it.
FairSpec ==
    /\ Spec
    /\ \A d \in Devices : WF_vars(startupC(d)) /\ WF_vars(Daemon(d))
    /\ \A d \in Devices, q \in Queues :
         WF_vars(ublksrv_queue_init(d, q)) /\ WF_vars(demo_null_io_handler_fn(d, q))
    /\ \A c \in Callers : WF_vars(DeleteStep(c)) /\ WF_vars(CommandStep(c))

----------------------------------------------------------------------------
(* Properties *)

\* While a device is live, onRequestAsync finds a UblkDevice in the registry.
\* Its early return for a missing one, which would leave a request counted in
\* tgt_io_inflight for ever, is not taken: not by a device that is just being
\* registered, and not when another daemon winds down.
RegistryWhileLive == kdev = "live" => registry # None

\* A live device has its pid file, also after crashes, restarts and deletions
\* that came too early: deleteC removes it only once a queue thread has seen
\* the device stop.
PidFileWhileLive == kdev = "live" => pidFile

\* Start returns nil only if its own ADD_DEV created the device, although the
\* daemon goroutine goes on after every failure.
StartMeansAdded == \A d \in Devices : app[d] = "up" => d \in added

\* Once a Delete has returned, no device of this process is live, now or later:
\* /dev/ublkc0 stays open, so neither a daemon that was still starting nor a
\* new Start can bring device 0 back before the process exits.
DeleteMeansStopped ==
    ~exited /\ (\E c \in Calls : call[c] \in {"deleted", "delete_error"}) => kdev # "live"

----------------------------------------------------------------------------
(* The inductive invariant behind the safety properties *)

\* The daemon that opened /dev/ublkc0 keeps it until the process exits, and only
\* its queue threads run.
OneOpener ==
    /\ \A d \in Devices : daemon[d] \in {"start_dev", "join", "close", "ended"} => kfd = d
    /\ \A d \in Devices, q \in Queues : thread[d][q] # "none" => kfd = d
    /\ kfd # None => kdev # "none"

\* The device is live only while its daemon waits for its threads; a thread that
\* has seen the device stop, or a Delete that has met one, will not see it live
\* again in this process.
StoppedForGood ==
    /\ kdev = "live" => \E d \in Devices : daemon[d] = "join"
    /\ \A d \in Devices, q \in Queues :
         thread[d][q] \in {"notify", "done"} => kdev \in {"dead", "deleting"}
    /\ ~exited => \A c \in Calls : call[c] \in {"removing", "deleted", "delete_error"} =>
                                     kfd # None /\ kdev \in {"dead", "deleting"}
    /\ \A c \in Clis : call[c] \in {"none", "deleting"}

\* From its registration on, a daemon that can still bring the device up finds
\* the registry filled, and from its start on the pid file there.
ReadyToServe ==
    /\ \A d \in Devices : daemon[d] \in {"report", "dev_init"} /\ kfd = None => registry # None
    /\ \A d \in Devices : daemon[d] \in {"start_dev", "join"} =>
                            registry # None /\ (pidFile \/ kdev \in {"dead", "deleting"})

\* What Start receives first is the verdict on ADD_DEV: a daemon that goes on
\* after a failure is held up by its unread report.
FirstVerdict ==
    \A d \in Devices :
      /\ app[d] = "new" => daemon[d] = "none" /\ initDone[d] = <<>>
      /\ app[d] = "starting" /\ d \notin added =>
           /\ initDone[d] # <<"nil">>
           /\ initDone[d] = <<>> => daemon[d] \in {"none", "ctrl_init", "add_dev", "add_failed"}

LifeInv == TypeOK /\ OneOpener /\ StoppedForGood /\ ReadyToServe /\ FirstVerdict /\ StartMeansAdded

----------------------------------------------------------------------------
(* Liveness *)

\* A Delete whose command finds the device live returns, as long as the
\* application does not call it more often than there are queues: each call
\* needs a queue thread of its own in notifyShutdown.
DeleteReturns ==
    \A c \in Calls : call[c] = "deleting" /\ del[c] \in {"get_info", "stop_dev"}
                       /\ kdev = "live"
                       ~> call[c] \in {"deleted", "delete_error"} \/ exited

\* A daemon goroutine whose device is no longer live joins its threads,
\* unregisters the device and ends; only a queue thread in notifyShutdown can
\* keep it waiting, and only while no Delete of this process is there to receive
\* from it.
DaemonWindsDown ==
    \A d \in Devices : daemon[d] = "join" /\ kdev # "live"
                         ~> \/ daemon[d] = "ended" \/ exited
                            \/ /\ \E q \in Queues : thread[d][q] = "notify"
                               /\ \A c \in Calls : call[c] # "deleting"

----------------------------------------------------------------------------
(* What the repository says and the code does not do *)

\* While a device is live, the registry names the very UblkDevice whose queue
\* threads serve it.  ublksrv_ctrl_init: "-1 means we ask ublk driver to
\* allocate one free to us", so that two devices would not meet.
ServedByOwner == kdev = "live" => kfd # None /\ registry = kfd

\* examples/README.md: "Press Ctrl+C to gracefully stop and remove the device."
DeviceRemoved ==
    exited /\ (\E c \in Calls : call[c] = "deleted") => kdev = "none"

\* README.md: "# Delete a device" / "sudo ./ublk-go del -n 0": the command
\* comes to an end.
CliReturns == \A c \in Clis : call[c] = "deleting" ~> call[c] \in {"deleted", "delete_error"}

==============================================================================
