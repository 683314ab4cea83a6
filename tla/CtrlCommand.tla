----------------------------- MODULE CtrlCommand -----------------------------
(***************************************************************************)
(* One client of /dev/ublk-control: a ublksrv_ctrl_dev with an io_uring of *)
(* its own, used by one thread for one session.  Session "serve" is what   *)
(* startupC and ublksrv_start_daemon send, "del" is cmd_dev_del, "info" is *)
(* getDeviceInfo.  A command has two encodings, the legacy number and the  *)
(* ioctl number, and which of them a driver accepts depends on its         *)
(* version; so does GET_DEV_INFO2.  Other processes add and delete the     *)
(* device meanwhile.                                                       *)
(***************************************************************************)
EXTENDS Naturals, Sequences, FiniteSets, Functions

CONSTANTS
    NrHwQueues,   \* dev_info.nr_hw_queues
    SqEntries,    \* submission slots of the control ring
    MaxSlips,     \* bound: commands given up after a failed submit or wait
    MaxSignals    \* bound: signals that interrupt a wait

ASSUME QueuesAssumption == NrHwQueues \in Nat \ {0}
ASSUME SlotsAssumption == SqEntries \in Nat \ {0}
ASSUME BoundsAssumption == MaxSlips \in Nat /\ MaxSignals \in Nat

VARIABLES
    \* the client
    session,  \* "serve", "del" or "info"
    pc,       \* its thread
    call,     \* the ublksrv_ctrl_ function it is in
    todo,     \* the attempts this function has left, the present one first
    qid,      \* loop variable of ublksrv_ctrl_get_affinity
    info,     \* dev_info.flags
    cmd,      \* the command in hand
    cqe,      \* the completion in hand
    fds,      \* the descriptors it holds
    \* its ring
    sq,       \* slots handed out and not submitted
    busy,     \* commands the kernel has accepted
    cq,       \* completions
    \* the driver (external)
    drv,      \* what this version accepts
    kdev,     \* the device: absent, privileged or unprivileged
    \* history
    why,      \* the results of the earlier attempts of this call
    learned,  \* has the client the flags of the device that is there now?
    slips, signals

clientVars == <<session, pc, call, todo, qid, info, cmd, cqe, fds>>
ringVars   == <<sq, busy, cq>>
vars == <<clientVars, ringVars, drv, kdev, why, learned, slips, signals>>

Encodings == {"ioctl", "legacy"}
Ops == {"ADD_DEV", "SET_PARAMS", "GET_QUEUE_AFFINITY", "START_DEV", "GET_DEV_INFO2",
        "GET_DEV_INFO", "STOP_DEV", "DEL_DEV", "GET_PARAMS"}
Flags == [ioctl : BOOLEAN, unprivileged : BOOLEAN]
NoFlags == [ioctl |-> FALSE, unprivileged |-> FALSE]
Commands == [op : Ops, enc : Encodings, path : BOOLEAN, qid : 0 .. NrHwQueues - 1]
Results == {"ok", "badop", "badpath", "nodev", "exists", "fail", "error"}
Cqes == [cmd : Commands, res : Results, flags : Flags]

Calls == {"add_dev", "set_params", "get_affinity", "start_dev", "get_info",
          "stop_dev", "del_dev", "get_params"}

\* Every part keeps its type; the queue a GET_QUEUE_AFFINITY asks for exists.
TypeOK ==
    /\ session \in {"serve", "del", "info"}
    /\ pc \in {"init", "issue", "wait", "return", "deinit", "ended"}
    /\ call \in Calls
    /\ todo \in Seq([op : Ops, enc : Encodings])
    /\ qid \in 0 .. NrHwQueues - 1
    /\ info \in Flags
    /\ cmd \in Commands
    /\ cqe \in Cqes
    /\ fds \subseteq {"ctrl_fd", "ring_fd"}
    /\ sq \in Seq(Commands) /\ Len(sq) <= SqEntries
    /\ busy \subseteq Commands
    /\ cq \in Seq(Cqes)
    /\ drv \in [enc : SUBSET Encodings, info2 : BOOLEAN]
    /\ kdev \in {"none", "privileged", "unprivileged"}
    /\ why \subseteq Results
    /\ learned \in {"no", "yes", "stale"}
    /\ slips \in 0 .. MaxSlips /\ signals \in 0 .. MaxSignals

----------------------------------------------------------------------------
(* What the functions send *)

\* (fault) sends the legacy number whatever the driver said
fault_Encoding(flags) == "legacy"

\* ublksrv_ctrl_init_cmd: legacy_op_to_ioctl if the driver wants it.
Encoding(flags) == IF flags.ioctl THEN "ioctl" ELSE "legacy"

\* (fault) has no fallback
fault_Both(op) == <<[op |-> op, enc |-> "ioctl"]>>

\* CTRL_CMD_NO_TRANS: ADD_DEV and GET_DEV_INFO, which are sent before the flags
\* are known, try the ioctl number first.
Both(op) == <<[op |-> op, enc |-> "ioctl"], [op |-> op, enc |-> "legacy"]>>

\* The commands a function tries in turn until one succeeds.
Attempts(c, flags) ==
    LET One(op) == <<[op |-> op, enc |-> Encoding(flags)]>>
    IN CASE c = "add_dev"      -> Both("ADD_DEV")
         [] c = "get_info"     -> Both("GET_DEV_INFO2") \o Both("GET_DEV_INFO")
         [] c = "set_params"   -> One("SET_PARAMS")
         [] c = "get_affinity" -> One("GET_QUEUE_AFFINITY")
         [] c = "start_dev"    -> One("START_DEV")
         [] c = "stop_dev"     -> One("STOP_DEV")
         [] c = "del_dev"      -> One("DEL_DEV")
         [] c = "get_params"   -> One("GET_PARAMS")

\* (fault) repeats the attempt that failed
fault_Rest == todo

\* What is left to try after a failure: an unprivileged device has no
\* GET_DEV_INFO to fall back to.
Rest == IF Len(todo) > 1 /\ todo[2].op = "GET_DEV_INFO" /\ info.unprivileged
          THEN <<>> ELSE Tail(todo)

\* The path of the device goes with GET_DEV_INFO2 and, on an unprivileged
\* device, with everything but ADD_DEV and GET_DEV_INFO.
HasPath(op) == \/ op = "GET_DEV_INFO2"
               \/ info.unprivileged /\ op \notin {"ADD_DEV", "GET_DEV_INFO"}

\* ublksrv_ctrl_init_cmd
Command(a) == [op |-> a.op, enc |-> a.enc, qid |-> qid, path |-> HasPath(a.op)]

\* (fault) does not clean up after a failure
fault_on_failure == "ended"

\* goto fail, or the deferred call of getDeviceInfo.
on_failure == "deinit"

\* (fault) asks for one queue too many
fault_more_queues == qid < NrHwQueues

more_queues == qid + 1 < NrHwQueues

\* What a session does after a function has returned.  startupC goes on after
\* ADD_DEV and SET_PARAMS in any case, and never closes its client.
Then(ok) ==
    CASE session = "serve" /\ call = "add_dev"      -> "set_params"
      [] session = "serve" /\ call = "set_params"   -> "get_affinity"
      [] session = "serve" /\ call = "get_affinity" ->
           (CASE ~ok -> "ended" [] ok /\ more_queues -> "get_affinity" [] OTHER -> "start_dev")
      [] session = "serve" /\ call = "start_dev"    -> "ended"
      [] session = "del" /\ call = "get_info" -> IF ok THEN "stop_dev" ELSE on_failure
      [] session = "del" /\ call = "stop_dev" -> IF ok THEN "del_dev" ELSE on_failure
      [] session = "info" /\ call = "get_info" -> IF ok THEN "get_params" ELSE on_failure
      [] OTHER -> "deinit"

First(s) == IF s = "serve" THEN "add_dev" ELSE "get_info"

----------------------------------------------------------------------------
(* The client *)

NoCommand == [op |-> "ADD_DEV", enc |-> "ioctl", path |-> FALSE, qid |-> 0]
Errno(c) == [cmd |-> c, res |-> "error", flags |-> NoFlags]

Init ==
    /\ session \in {"serve", "del", "info"}
    /\ drv \in [enc : (SUBSET Encodings) \ {{}}, info2 : BOOLEAN]
    /\ kdev \in {"none", "privileged"} \cup (IF drv.info2 THEN {"unprivileged"} ELSE {})
    /\ pc = "init" /\ call = First(session)
    /\ todo = Attempts(First(session), NoFlags)
    /\ qid = 0 /\ info = NoFlags /\ cmd = NoCommand /\ cqe = Errno(NoCommand)
    /\ fds = {} /\ sq = <<>> /\ busy = {} /\ cq = <<>>
    /\ why = {} /\ learned = "no" /\ slips = 0 /\ signals = 0

\* Opens /dev/ublk-control and sets up the ring; if the ring fails, ctrl_fd
\* stays open.
ublksrv_ctrl_init ==
    /\ pc = "init"
    /\ \/ pc' = "issue" /\ fds' = {"ctrl_fd", "ring_fd"}
       \/ pc' = "ended" /\ fds' \in {{}, {"ctrl_fd"}}
    /\ UNCHANGED <<session, call, todo, qid, info, cmd, cqe, ringVars,
                   drv, kdev, why, learned, slips, signals>>

\* __ublksrv_ctrl_cmd returns without waiting: there is no slot.
no_sqe ==
    /\ pc = "issue" /\ Len(sq) = SqEntries
    /\ pc' = "return"
    /\ cmd' = Command(Head(todo)) /\ cqe' = Errno(cmd')
    /\ UNCHANGED <<session, call, todo, qid, info, fds, ringVars,
                   drv, kdev, why, learned, slips, signals>>

\* io_uring_get_sqe, ublksrv_ctrl_init_cmd, io_uring_submit, which submits
\* everything that is in the ring ...
io_uring_submit ==
    /\ pc = "issue" /\ Len(sq) < SqEntries
    /\ pc' = "wait"
    /\ cmd' = Command(Head(todo))
    /\ busy' = busy \cup {sq[i] : i \in 1 .. Len(sq)} \cup {cmd'}
    /\ sq' = <<>>
    /\ UNCHANGED <<session, call, todo, qid, info, cqe, fds, cq,
                   drv, kdev, why, learned, slips, signals>>

\* ... or fails, and leaves the command in the ring.
submit_fails ==
    /\ pc = "issue" /\ Len(sq) < SqEntries /\ slips < MaxSlips
    /\ pc' = "return"
    /\ cmd' = Command(Head(todo)) /\ cqe' = Errno(cmd')
    /\ sq' = Append(sq, cmd') /\ slips' = slips + 1
    /\ UNCHANGED <<session, call, todo, qid, info, fds, busy, cq,
                   drv, kdev, why, learned, signals>>

\* io_uring_wait_cqe and io_uring_cqe_seen.
io_uring_wait_cqe ==
    /\ pc = "wait" /\ cq # <<>>
    /\ pc' = "return" /\ cqe' = Head(cq) /\ cq' = Tail(cq)
    /\ UNCHANGED <<session, call, todo, qid, info, cmd, fds, sq, busy,
                   drv, kdev, why, learned, slips, signals>>

\* (fault) gives up
fault_on_eintr == "return"

on_eintr == "wait"

wait_eintr ==
    /\ pc = "wait" /\ cq = <<>> /\ signals < MaxSignals
    /\ pc' = on_eintr /\ signals' = signals + 1
    /\ UNCHANGED <<session, call, todo, qid, info, cmd, cqe, fds, ringVars,
                   drv, kdev, why, learned, slips>>

\* Any other failure of the wait makes the function return.
wait_fails ==
    /\ pc = "wait" /\ cq = <<>> /\ slips < MaxSlips
    /\ pc' = "return" /\ slips' = slips + 1 /\ cqe' = Errno(cmd)
    /\ UNCHANGED <<session, call, todo, qid, info, cmd, fds, ringVars,
                   drv, kdev, why, learned, signals>>

\* The present attempt is over: the next attempt, the next function, or the end.
\* GET_DEV_INFO2 copies its buffer to dev_info if the result is good; if that
\* result is of another command, the buffer is what was on the stack.
return_cmd ==
    LET ok == cqe.res = "ok"
        next == Then(ok)
    IN /\ pc = "return"
       /\ info' \in IF ok /\ cmd.op = "GET_DEV_INFO2"
                      THEN IF cqe.cmd = cmd THEN {cqe.flags} ELSE Flags
                      ELSE {info}
       /\ IF ~ok /\ Rest # <<>>
            THEN /\ pc' = "issue" /\ todo' = Rest
                 /\ why' = why \cup {cqe.res}
                 /\ UNCHANGED <<call, qid>>
            ELSE IF next \in Calls
            THEN /\ pc' = "issue" /\ call' = next
                 /\ todo' = Attempts(next, info') /\ why' = {}
                 /\ qid' = IF call = next THEN qid + 1 ELSE 0
            ELSE pc' = next /\ why' = {} /\ UNCHANGED <<call, todo, qid>>
       /\ cqe' = Errno(NoCommand)
       /\ UNCHANGED <<session, cmd, fds, ringVars, drv, kdev, learned,
                      slips, signals>>

\* Closes both descriptors; the kernel drops what is left in the ring.
ublksrv_ctrl_deinit ==
    /\ pc = "deinit"
    /\ pc' = "ended" /\ fds' = {} /\ sq' = <<>> /\ busy' = {} /\ cq' = <<>>
    /\ UNCHANGED <<session, call, todo, qid, info, cmd, cqe,
                   drv, kdev, why, learned, slips, signals>>

\* ublksrv_start_daemon gives up for a reason of its own: no memory for the
\* affinities, or ublksrv_dev_init fails before START_DEV.
daemon_fails ==
    /\ session = "serve" /\ pc = "issue"
    /\ call = "start_dev" \/ (call = "get_affinity" /\ qid = 0)
    /\ pc' = "ended"
    /\ UNCHANGED <<session, call, todo, qid, info, cmd, cqe, fds, ringVars,
                   drv, kdev, why, learned, slips, signals>>

Client == \/ ublksrv_ctrl_init \/ io_uring_submit \/ io_uring_wait_cqe
          \/ no_sqe \/ return_cmd \/ ublksrv_ctrl_deinit

----------------------------------------------------------------------------
(* The driver and other processes (external) *)

DriverFlags == [ioctl |-> "ioctl" \in drv.enc, unprivileged |-> kdev = "unprivileged"]

Understands(c) == c.enc \in drv.enc /\ (c.op = "GET_DEV_INFO2" => drv.info2)

\* The results the driver may give a command now.
Answers(c) ==
    IF ~Understands(c) THEN {"badop"}
    ELSE IF c.op = "ADD_DEV" THEN IF kdev = "none" THEN {"ok", "fail"} ELSE {"exists"}
    ELSE IF kdev = "none" THEN {"nodev"}
    ELSE IF c.path # (kdev = "unprivileged" \/ c.op = "GET_DEV_INFO2") THEN {"badpath"}
    ELSE IF c.op \in {"GET_DEV_INFO", "GET_DEV_INFO2"} THEN {"ok"} ELSE {"ok", "fail"}

\* Commands run in kernel threads, in any order; what becomes of them after the
\* session is not followed.  ADD_DEV and GET_DEV_INFO
\* write dev_info themselves.
ublk_ctrl_uring_cmd(c) ==
    /\ pc # "ended" /\ c \in busy
    /\ \E r \in Answers(c) :
         LET done == r = "ok"
             dev == CASE done /\ c.op = "ADD_DEV" -> "privileged"
                      [] done /\ c.op = "DEL_DEV" -> "none"
                      [] OTHER -> kdev
             flags == [DriverFlags EXCEPT !.unprivileged = dev = "unprivileged"]
         IN /\ busy' = busy \ {c}
            /\ cq' = Append(cq, [cmd |-> c, res |-> r,
                                flags |-> IF done /\ c.op = "GET_DEV_INFO2" THEN flags ELSE NoFlags])
            /\ kdev' = dev
            /\ info' = IF done /\ c.op \in {"ADD_DEV", "GET_DEV_INFO"} THEN flags ELSE info
            /\ learned' = IF done /\ c.op \in {"ADD_DEV", "GET_DEV_INFO", "GET_DEV_INFO2"}
                            THEN "yes" ELSE learned
    /\ UNCHANGED <<session, pc, call, todo, qid, cmd, cqe, fds, sq,
                   drv, why, slips, signals>>

\* Another process adds or deletes the device.
Other ==
    /\ pc # "ended"
    /\ kdev' \in IF kdev # "none" THEN {"none"}
                   ELSE {"privileged"} \cup (IF drv.info2 THEN {"unprivileged"} ELSE {})
    /\ learned' = IF learned = "yes" THEN "stale" ELSE learned
    /\ UNCHANGED <<clientVars, ringVars, drv, why, slips, signals>>

Next == \/ Client \/ submit_fails \/ wait_eintr \/ wait_fails \/ daemon_fails
        \/ \E c \in busy : ublk_ctrl_uring_cmd(c)
        \/ Other

Spec == Init /\ [][Next]_vars

\* START_DEV waits for the queue threads and DEL_DEV for the last close of the
\* device: only the other commands are sure to complete.
Waiting == {"START_DEV", "DEL_DEV"}

FairSpec ==
    /\ Spec /\ WF_vars(Client)
    /\ WF_vars(\E c \in busy : c.op \notin Waiting /\ ublk_ctrl_uring_cmd(c))

----------------------------------------------------------------------------
(* Properties *)

\* As long as every submit and every wait has worked, signals notwithstanding,
\* the result a function returns is that of the command it has just sent, and
\* the ring is empty between two commands: no later command can be answered
\* with an older one's result, no buffer on the stack is written after its
\* function has returned.  Each submit or wait that failed leaves one command
\* behind, for good.
OwnResult ==
    /\ slips = 0 /\ pc = "return" => cqe.cmd = cmd
    /\ pc \in {"issue", "return"} => Len(sq) + Cardinality(busy) + Len(cq) = slips

\* Once the client has the flags of the device, from ADD_DEV or GET_DEV_INFO,
\* no command is turned down for its encoding, or for a device path that is
\* missing or not wanted, whatever the version of the driver and whoever
\* created the device, until another process deletes it.
EncodingRight ==
    slips = 0 /\ learned = "yes" /\ pc = "return"
              /\ cmd.op \notin {"ADD_DEV", "GET_DEV_INFO", "GET_DEV_INFO2"}
      => cqe.res \notin {"badop", "badpath"}

\* ublksrv_ctrl_add_dev and ublksrv_ctrl_get_info fail for a reason the driver
\* has with the device, never because this version of the driver did not
\* understand any of their attempts.
FallbackReachesDriver ==
    slips = 0 /\ pc = "return" /\ call \in {"add_dev", "get_info"}
              /\ cqe.res # "ok" /\ Rest = <<>>
      => (why \cup {cqe.res}) \cap {"nodev", "exists", "fail"} # {}

\* However a deletion or a query ends, a client that got as far as sending a
\* command closes both its descriptors: a server may ask for information as
\* often as it likes.
FdsReleased == pc = "ended" /\ session # "serve" /\ cmd # NoCommand => fds = {}

----------------------------------------------------------------------------
(* The inductive invariant behind the safety properties *)

InfoOps == {"ADD_DEV", "GET_DEV_INFO2", "GET_DEV_INFO"}
Reasons == {"nodev", "exists", "fail"}
Active == pc \in {"issue", "wait", "return"}

\* Each session stays among its own functions, and each function among its own
\* commands, in the order of Attempts.
Legacy(op) == <<[op |-> op, enc |-> "legacy"]>>
InfoTodo == {Both("GET_DEV_INFO2") \o Both("GET_DEV_INFO"),
             Legacy("GET_DEV_INFO2") \o Both("GET_DEV_INFO"),
             Both("GET_DEV_INFO"), Legacy("GET_DEV_INFO")}
Programme ==
    /\ call \in CASE session = "serve" -> {"add_dev", "set_params", "get_affinity", "start_dev"}
                  [] session = "del"   -> {"get_info", "stop_dev", "del_dev"}
                  [] session = "info"  -> {"get_info", "get_params"}
    /\ \/ call = "add_dev"  /\ todo \in {Both("ADD_DEV"), Legacy("ADD_DEV")}
       \/ call = "get_info" /\ todo \in InfoTodo
       \/ call \notin {"add_dev", "get_info"} /\ \E f \in Flags : todo = Attempts(call, f)
    /\ pc = "init" => cmd = NoCommand

\* The commands of a session come in a fixed order and none comes twice.
Stage(op) == CASE op \in {"ADD_DEV", "GET_DEV_INFO2"} -> 0
               [] op \in {"SET_PARAMS", "GET_DEV_INFO"} -> 1
               [] op \in {"GET_QUEUE_AFFINITY", "STOP_DEV", "GET_PARAMS"} -> 2
               [] OTHER -> 3
Earlier(c, a) == \/ Stage(c.op) < Stage(a.op)
                 \/ c.op = a.op /\ (c.qid < qid \/ (c.qid = qid /\ c.enc = "ioctl" /\ a.enc = "legacy"))

\* What is in the ring was sent before the command in hand, so that a command
\* is there once only.
NoRepeat ==
    /\ Active => \A c \in busy \cup Range(sq) :
                   Earlier(c, Head(todo)) \/ (pc # "issue" /\ c = cmd)
    /\ pc \in {"wait", "return"} =>
         cmd.op = Head(todo).op /\ cmd.enc = Head(todo).enc /\ cmd.qid = qid
    /\ Range(sq) \cap busy = {}
    /\ \A i, j \in 1 .. Len(sq) : sq[i] = sq[j] => i = j

\* The ring holds the commands given up, and the one that is waited for.
RingCount ==
    /\ IsFiniteSet(busy)
    /\ pc = "init" => sq = <<>> /\ busy = {} /\ cq = <<>> /\ slips = 0
    /\ pc = "wait" => sq = <<>> /\ Cardinality(busy) + Len(cq) = slips + 1
    /\ pc \in {"issue", "return"} => Len(sq) + Cardinality(busy) + Len(cq) = slips

\* The present attempt has its completion, or has still to get it.
Answered == pc = "return" \/ (pc = "wait" /\ cq # <<>>)
Answer == IF pc = "return" THEN cqe ELSE Head(cq)
Pending == pc \in {"init", "issue"} \/ (pc = "wait" /\ cq = <<>>)

\* Without a slip the one completion is that of the one command.
OwnAnswer ==
    slips = 0 => /\ pc = "wait" /\ cq = <<>> => busy = {cmd} /\ cmd = Command(Head(todo))
                 /\ pc = "wait" /\ cq # <<>> => busy = {} /\ Len(cq) = 1
                 /\ Answered => Answer.cmd = cmd

\* Without a slip the client knows the device once it has been told of it, and
\* knows nothing before.
FlagsKnown ==
    slips = 0 =>
      /\ Pending => IF Head(todo).op \in InfoOps
                      THEN learned = "no" /\ info = NoFlags
                      ELSE /\ learned = "yes" => info = DriverFlags
                           /\ Head(todo).enc = Encoding(info)
      /\ Answered /\ cmd.op \in InfoOps =>
           IF Answer.res # "ok" THEN learned = "no" /\ info = NoFlags
           ELSE learned = "yes" =>
                  (IF cmd.op = "GET_DEV_INFO2" THEN Answer.flags ELSE info) = DriverFlags
      /\ Answered /\ cmd.op \notin InfoOps /\ learned = "yes" =>
           /\ Answer.res \notin {"badop", "badpath"}
           /\ cmd.op # "DEL_DEV" => info = DriverFlags

\* A command this driver understands is answered with a reason or with success,
\* and the attempts already made include such a command if they can.
ReasonHeard ==
    /\ drv.enc # {} /\ (kdev = "unprivileged" => drv.info2)
    /\ slips = 0 /\ Answered /\ cmd.op \in InfoOps /\ cmd.enc \in drv.enc
         /\ (cmd.op = "GET_DEV_INFO2" => drv.info2) /\ (cmd.op = "GET_DEV_INFO" => ~drv.info2)
       => Answer.res \in Reasons \cup {"ok"}
    /\ slips = 0 /\ (Pending \/ Answered)
         /\ \/ todo = Legacy("ADD_DEV") /\ "ioctl" \in drv.enc
            \/ todo = Legacy("GET_DEV_INFO2") \o Both("GET_DEV_INFO") /\ "ioctl" \in drv.enc /\ drv.info2
            \/ todo = Both("GET_DEV_INFO") /\ drv.info2
            \/ todo = Legacy("GET_DEV_INFO") /\ (drv.info2 \/ "ioctl" \in drv.enc)
       => why \cap Reasons # {}

ClientInv == /\ TypeOK /\ Programme /\ NoRepeat /\ RingCount
             /\ OwnAnswer /\ FlagsKnown /\ ReasonHeard

----------------------------------------------------------------------------
(* Liveness *)

\* Every session comes to an end, or to one of the two commands that wait for
\* someone else, also after failed submits and waits: it never waits for a
\* completion that cannot come.
SessionEnds == pc # "ended" ~> pc = "ended" \/ (pc = "wait" /\ cmd.op \in Waiting)

==============================================================================
