-------------------------- MODULE CtrlCommandProofs --------------------------
(***************************************************************************)
(* Theorems about CtrlCommand, for every number of queues, every ring and  *)
(* every bound on the failures.                                            *)
(***************************************************************************)
EXTENDS CtrlCommand, FiniteSetTheorems, SequenceTheorems, TLAPS

USE QueuesAssumption, SlotsAssumption, BoundsAssumption
USE DEF vars, clientVars, ringVars, on_failure, more_queues, on_eintr

----------------------------------------------------------------------------
(* The attempts of a function *)

Tries == [op : Ops, enc : Encodings]
Try(op, e) == [op |-> op, enc |-> e]

\* The attempts at GET_DEV_INFO, as many as are left.
Info4 == Both("GET_DEV_INFO2") \o Both("GET_DEV_INFO")
Info3 == Legacy("GET_DEV_INFO2") \o Both("GET_DEV_INFO")
Info2 == Both("GET_DEV_INFO")
Info1 == Legacy("GET_DEV_INFO")

\* One pair of attempts.
LEMMA Pair ==
  ASSUME NEW op \in Ops
  PROVE  /\ Both(op) \in Seq(Tries) /\ Len(Both(op)) = 2
         /\ Both(op)[1] = Try(op, "ioctl") /\ Both(op)[2] = Try(op, "legacy")
         /\ Head(Both(op)) = Try(op, "ioctl") /\ Tail(Both(op)) = Legacy(op)
         /\ Legacy(op) \in Seq(Tries) /\ Len(Legacy(op)) = 1
         /\ Head(Legacy(op)) = Try(op, "legacy") /\ Tail(Legacy(op)) = <<>>
         /\ Legacy(op)[1] = Try(op, "legacy")
<1>1. Try(op, "ioctl") \in Tries /\ Try(op, "legacy") \in Tries
  BY DEF Try, Tries, Encodings
<1>2. /\ Both(op) = <<Try(op, "ioctl"), Try(op, "legacy")>>
      /\ Legacy(op) = <<Try(op, "legacy")>>
  BY DEF Both, Legacy, Try
<1>3. \A a, b \in Tries : /\ <<a, b>> \in Seq(Tries) /\ Len(<<a, b>>) = 2
                          /\ <<a, b>>[1] = a /\ <<a, b>>[2] = b
                          /\ Head(<<a, b>>) = a /\ Tail(<<a, b>>) = <<b>>
  OBVIOUS
<1>4. \A b \in Tries : /\ <<b>> \in Seq(Tries) /\ Len(<<b>>) = 1 /\ <<b>>[1] = b
                       /\ Head(<<b>>) = b /\ Tail(<<b>>) = <<>>
  OBVIOUS
<1> QED BY <1>1, <1>2, <1>3, <1>4

\* Attempts before others: what comes first, and what is left.
LEMMA Prefix ==
  ASSUME NEW s \in Seq(Tries), NEW t \in Seq(Tries), Len(s) > 0
  PROVE  /\ s \o t \in Seq(Tries) /\ Len(s \o t) = Len(s) + Len(t)
         /\ Head(s \o t) = Head(s) /\ Tail(s \o t) = Tail(s) \o t
         /\ Len(t) > 0 => (s \o t)[2] = IF Len(s) > 1 THEN s[2] ELSE t[1]
<1>1. /\ s \o t \in Seq(Tries) /\ Len(s \o t) = Len(s) + Len(t)
      /\ \A i \in 1 .. Len(s) + Len(t) : (s \o t)[i] = IF i <= Len(s) THEN s[i] ELSE t[i - Len(s)]
  BY ConcatProperties
<1>2. Len(s) \in Nat /\ Len(t) \in Nat
  OBVIOUS
<1>3. Head(s \o t) = Head(s)
  BY <1>1, <1>2
<1>4. Len(t) > 0 => (s \o t)[2] = IF Len(s) > 1 THEN s[2] ELSE t[1]
  BY <1>1, <1>2
<1>5. Tail(s \o t) = Tail(s) \o t
  <2>1. s # <<>> /\ s \o t # <<>>
    BY <1>1, <1>2
  <2>2. /\ Tail(s) \in Seq(Tries) /\ Len(Tail(s)) = Len(s) - 1
        /\ \A i \in 1 .. Len(Tail(s)) : Tail(s)[i] = s[i + 1]
    BY <2>1, HeadTailProperties
  <2>3. /\ Tail(s \o t) \in Seq(Tries) /\ Len(Tail(s \o t)) = Len(s) + Len(t) - 1
        /\ \A i \in 1 .. Len(Tail(s \o t)) : Tail(s \o t)[i] = (s \o t)[i + 1]
    BY <1>1, <2>1, HeadTailProperties
  <2>4. /\ Tail(s) \o t \in Seq(Tries) /\ Len(Tail(s) \o t) = Len(s) + Len(t) - 1
        /\ \A i \in 1 .. Len(Tail(s)) + Len(t) :
             (Tail(s) \o t)[i] = IF i <= Len(Tail(s)) THEN Tail(s)[i] ELSE t[i - Len(Tail(s))]
    BY <1>2, <2>2, ConcatProperties
  <2>5. \A i \in 1 .. Len(s) + Len(t) - 1 : Tail(s \o t)[i] = (Tail(s) \o t)[i]
    BY <1>1, <1>2, <2>2, <2>3, <2>4
  <2> QED BY <2>3, <2>4, <2>5, SeqEqual
<1> QED BY <1>1, <1>3, <1>4, <1>5

\* The attempts of ublksrv_ctrl_get_info.
LEMMA InfoTries ==
  /\ Info4 \in Seq(Tries) /\ Len(Info4) = 4 /\ Tail(Info4) = Info3
  /\ Head(Info4) = Try("GET_DEV_INFO2", "ioctl") /\ Info4[2] = Try("GET_DEV_INFO2", "legacy")
  /\ Info3 \in Seq(Tries) /\ Len(Info3) = 3 /\ Tail(Info3) = Info2
  /\ Head(Info3) = Try("GET_DEV_INFO2", "legacy") /\ Info3[2] = Try("GET_DEV_INFO", "ioctl")
  /\ Info2 \in Seq(Tries) /\ Len(Info2) = 2 /\ Tail(Info2) = Info1
  /\ Head(Info2) = Try("GET_DEV_INFO", "ioctl") /\ Info2[2] = Try("GET_DEV_INFO", "legacy")
  /\ Info1 \in Seq(Tries) /\ Len(Info1) = 1 /\ Tail(Info1) = <<>>
  /\ Head(Info1) = Try("GET_DEV_INFO", "legacy")
<1>0. "GET_DEV_INFO2" \in Ops /\ "GET_DEV_INFO" \in Ops
  BY DEF Ops
<1>1. /\ Info2 \in Seq(Tries) /\ Len(Info2) = 2 /\ Tail(Info2) = Info1 /\ Info2[1] = Try("GET_DEV_INFO", "ioctl")
      /\ Head(Info2) = Try("GET_DEV_INFO", "ioctl") /\ Info2[2] = Try("GET_DEV_INFO", "legacy")
      /\ Info1 \in Seq(Tries) /\ Len(Info1) = 1 /\ Tail(Info1) = <<>>
      /\ Head(Info1) = Try("GET_DEV_INFO", "legacy")
  BY <1>0, Pair DEF Info1, Info2
<1>2. \A s \in Seq(Tries) : <<>> \o s = s
  BY ConcatEmptySeq
<1>3. /\ Info3 \in Seq(Tries) /\ Len(Info3) = 3 /\ Tail(Info3) = Info2
      /\ Head(Info3) = Try("GET_DEV_INFO2", "legacy") /\ Info3[2] = Try("GET_DEV_INFO", "ioctl")
  <2> DEFINE s == Legacy("GET_DEV_INFO2")
  <2>1. /\ s \in Seq(Tries) /\ Len(s) = 1 /\ Head(s) = Try("GET_DEV_INFO2", "legacy")
        /\ Tail(s) = <<>>
    BY <1>0, Pair
  <2>2. Info3 = s \o Info2
    BY DEF Info3, Info2
  <2> HIDE DEF s
  <2>3. /\ s \o Info2 \in Seq(Tries) /\ Len(s \o Info2) = Len(s) + Len(Info2)
        /\ Head(s \o Info2) = Head(s) /\ Tail(s \o Info2) = Tail(s) \o Info2
        /\ (s \o Info2)[2] = IF Len(s) > 1 THEN s[2] ELSE Info2[1]
    <3>1. Len(s) > 0 /\ Len(Info2) > 0
      BY <1>1, <2>1
    <3> QED BY <1>1, <2>1, <3>1, Prefix
  <2> QED BY <1>1, <1>2, <2>1, <2>2, <2>3
<1>4. /\ Info4 \in Seq(Tries) /\ Len(Info4) = 4 /\ Tail(Info4) = Info3
      /\ Head(Info4) = Try("GET_DEV_INFO2", "ioctl") /\ Info4[2] = Try("GET_DEV_INFO2", "legacy")
  <2> DEFINE s == Both("GET_DEV_INFO2")
             t == Legacy("GET_DEV_INFO2")
  <2>1. /\ s \in Seq(Tries) /\ Len(s) = 2 /\ Head(s) = Try("GET_DEV_INFO2", "ioctl")
        /\ Tail(s) = t /\ s[2] = Try("GET_DEV_INFO2", "legacy")
    BY <1>0, Pair
  <2>2. Info4 = s \o Info2 /\ Info3 = t \o Info2
    BY DEF Info4, Info3, Info2
  <2> HIDE DEF s, t
  <2>3. /\ s \o Info2 \in Seq(Tries) /\ Len(s \o Info2) = Len(s) + Len(Info2)
        /\ Head(s \o Info2) = Head(s) /\ Tail(s \o Info2) = Tail(s) \o Info2
        /\ (s \o Info2)[2] = IF Len(s) > 1 THEN s[2] ELSE Info2[1]
    <3>1. Len(s) > 0 /\ Len(Info2) > 0
      BY <1>1, <2>1
    <3> QED BY <1>1, <2>1, <3>1, Prefix
  <2>4. Info4 \in Seq(Tries) /\ Tail(Info4) = Info3 /\ Head(Info4) = Try("GET_DEV_INFO2", "ioctl")
    BY <2>1, <2>2, <2>3, Zenon
  <2>5. Len(s \o Info2) = 4 /\ (s \o Info2)[2] = s[2]
    BY <1>1, <2>1, <2>3
  <2> QED BY <2>1, <2>2, <2>4, <2>5, Zenon
<1> QED BY <1>1, <1>3, <1>4

\* The command of a function that has one attempt only.
OneOp(c) == CASE c = "set_params"   -> "SET_PARAMS"
              [] c = "get_affinity" -> "GET_QUEUE_AFFINITY"
              [] c = "start_dev"    -> "START_DEV"
              [] c = "stop_dev"     -> "STOP_DEV"
              [] c = "del_dev"      -> "DEL_DEV"
              [] OTHER              -> "GET_PARAMS"
OneCalls == Calls \ {"add_dev", "get_info"}

LEMMA EncodingType == ASSUME NEW f PROVE Encoding(f) \in Encodings
BY DEF Encoding, Encodings

\* The attempts of the functions that have one.
LEMMA OneTry ==
  ASSUME NEW c \in OneCalls, NEW f
  PROVE  /\ Attempts(c, f) = <<Try(OneOp(c), Encoding(f))>>
         /\ Attempts(c, f) \in Seq(Tries) /\ Len(Attempts(c, f)) = 1
         /\ Head(Attempts(c, f)) = Try(OneOp(c), Encoding(f)) /\ Tail(Attempts(c, f)) = <<>>
         /\ OneOp(c) \in Ops \ InfoOps
<1>1. Attempts(c, f) = <<Try(OneOp(c), Encoding(f))>>
  BY DEF Attempts, OneOp, Try, OneCalls, Calls
<1>2. OneOp(c) \in Ops \ InfoOps
  BY DEF OneOp, Ops, InfoOps
<1>3. Try(OneOp(c), Encoding(f)) \in Tries
  BY <1>2, EncodingType DEF Try, Tries
<1>4. \A a \in Tries : /\ <<a>> \in Seq(Tries) /\ Len(<<a>>) = 1
                       /\ Head(<<a>>) = a /\ Tail(<<a>>) = <<>>
  OBVIOUS
<1> QED BY <1>1, <1>2, <1>3, <1>4

\* The attempts a function begins with.
LEMMA FirstTries ==
  ASSUME NEW f
  PROVE  Attempts("add_dev", f) = Both("ADD_DEV") /\ Attempts("get_info", f) = Info4
BY DEF Attempts, Info4

\* What a function has left to try.
TodoCases ==
    \/ call = "add_dev" /\ todo = Both("ADD_DEV")
    \/ call = "add_dev" /\ todo = Legacy("ADD_DEV")
    \/ call = "get_info" /\ todo = Info4
    \/ call = "get_info" /\ todo = Info3
    \/ call = "get_info" /\ todo = Info2
    \/ call = "get_info" /\ todo = Info1
    \/ call \in OneCalls /\ \E f \in Flags : todo = Attempts(call, f)

LEMMA TodoSplit == ASSUME call \in Calls, Programme PROVE TodoCases
BY DEF Programme, TodoCases, InfoTodo, Info1, Info2, Info3, Info4, OneCalls

\* There is always something left, and its first attempt is one of the function.
LEMMA TodoShape ==
  ASSUME call \in Calls, Programme
  PROVE  /\ todo \in Seq(Tries) /\ todo # <<>> /\ Head(todo) \in Tries
         /\ Head(todo).op \in CASE call = "add_dev"  -> {"ADD_DEV"}
                                [] call = "get_info" -> {"GET_DEV_INFO2", "GET_DEV_INFO"}
                                [] OTHER             -> {OneOp(call)}
<1>0. /\ \A s \in Seq(Tries) : Len(s) > 0 => s # <<>> /\ Head(s) \in Tries
      /\ \A op, e : Try(op, e).op = op
  BY DEF Try
<1>1. CASE call = "add_dev" /\ (todo = Both("ADD_DEV") \/ todo = Legacy("ADD_DEV"))
  <2>1. todo \in Seq(Tries) /\ Len(todo) > 0 /\ \E e : Head(todo) = Try("ADD_DEV", e)
    BY <1>1, Pair DEF Ops
  <2> QED BY <1>0, <1>1, <2>1
<1>2. CASE call = "get_info" /\ (todo = Info4 \/ todo = Info3 \/ todo = Info2 \/ todo = Info1)
  <2>1. todo \in Seq(Tries) /\ Len(todo) \in {1, 2, 3, 4}
    BY <1>2, InfoTries, Zenon
  <2>2. \E e : Head(todo) = Try("GET_DEV_INFO2", e) \/ Head(todo) = Try("GET_DEV_INFO", e)
    BY <1>2, InfoTries, Zenon
  <2> QED BY <1>0, <1>2, <2>1, <2>2
<1>3. ASSUME call \in OneCalls, NEW f \in Flags, todo = Attempts(call, f)
      PROVE  /\ todo \in Seq(Tries) /\ todo # <<>> /\ Head(todo) \in Tries
             /\ Head(todo).op = OneOp(call)
  <2>1. todo \in Seq(Tries) /\ Len(todo) > 0 /\ Head(todo) = Try(OneOp(call), Encoding(f))
    BY <1>3, OneTry
  <2> QED BY <1>0, <2>1
<1> QED BY <1>1, <1>2, <1>3, TodoSplit DEF TodoCases, OneCalls

\* The attempt after a failure, ...
LEMMA NextTry ==
  ASSUME call \in Calls, Programme, Rest # <<>>
  PROVE  \/ call = "add_dev" /\ todo = Both("ADD_DEV") /\ Rest = Legacy("ADD_DEV")
         \/ call = "get_info" /\ todo = Info4 /\ Rest = Info3
         \/ call = "get_info" /\ todo = Info3 /\ Rest = Info2
         \/ call = "get_info" /\ todo = Info2 /\ Rest = Info1
<1>0. Rest = Tail(todo)
  BY DEF Rest
<1>1. CASE call = "add_dev" /\ (todo = Both("ADD_DEV") \/ todo = Legacy("ADD_DEV"))
  BY <1>0, <1>1, Pair DEF Ops
<1>2. CASE call = "get_info" /\ (todo = Info4 \/ todo = Info3 \/ todo = Info2 \/ todo = Info1)
  BY <1>0, <1>2, InfoTries
<1>3. ASSUME call \in OneCalls, NEW f \in Flags, todo = Attempts(call, f) PROVE FALSE
  BY <1>0, <1>3, OneTry
<1> QED BY <1>1, <1>2, <1>3, TodoSplit DEF TodoCases

\* ... and when there is none.
LEMMA LastTry ==
  ASSUME call \in Calls, Programme, Rest = <<>>, ~info.unprivileged,
         call \in {"add_dev", "get_info"}
  PROVE  todo = Legacy("ADD_DEV") \/ todo = Info1
<1>0. Rest = Tail(todo)
  BY DEF Rest
<1>1. Legacy("ADD_DEV") # <<>> /\ Info1 # <<>> /\ Info2 # <<>> /\ Info3 # <<>>
  BY Pair, InfoTries DEF Ops
<1>2. Tail(Both("ADD_DEV")) = Legacy("ADD_DEV")
  BY Pair DEF Ops
<1> QED BY <1>0, <1>1, <1>2, InfoTries, TodoSplit DEF TodoCases, OneCalls

\* The function after one that has returned.
LEMMA NextCall ==
  ASSUME call \in Calls, Programme, session \in {"serve", "del", "info"},
         qid \in 0 .. NrHwQueues - 1, NEW ok \in BOOLEAN
  PROVE  \/ /\ Then(ok) = "set_params" /\ session = "serve" /\ call = "add_dev"
         \/ /\ Then(ok) = "get_affinity" /\ session = "serve" /\ call = "set_params"
         \/ /\ Then(ok) = "get_affinity" /\ session = "serve" /\ call = "get_affinity"
            /\ qid + 1 < NrHwQueues
         \/ /\ Then(ok) = "start_dev" /\ session = "serve" /\ call = "get_affinity"
         \/ /\ Then(ok) = "stop_dev" /\ session = "del" /\ call = "get_info" /\ ok
         \/ /\ Then(ok) = "del_dev" /\ session = "del" /\ call = "stop_dev"
         \/ /\ Then(ok) = "get_params" /\ session = "info" /\ call = "get_info" /\ ok
         \/ /\ Then(ok) = "ended" /\ session = "serve"
         \/ /\ Then(ok) = "deinit"
<1>1. CASE session = "serve"
  <2>1. call \in {"add_dev", "set_params", "get_affinity", "start_dev"}
    BY <1>1 DEF Programme
  <2> QED BY <1>1, <2>1 DEF Then
<1>2. CASE session = "del"
  <2>1. call \in {"get_info", "stop_dev", "del_dev"}
    BY <1>2 DEF Programme
  <2> QED BY <1>2, <2>1 DEF Then
<1>3. CASE session = "info"
  <2>1. call \in {"get_info", "get_params"}
    BY <1>3 DEF Programme
  <2> QED BY <1>3, <2>1 DEF Then
<1> QED BY <1>1, <1>2, <1>3

----------------------------------------------------------------------------
(* Type correctness *)

LEMMA TryFields == /\ \A op, e : Try(op, e).op = op /\ Try(op, e).enc = e
                   /\ \A a \in Tries : a.op \in Ops /\ a.enc \in Encodings
BY DEF Try, Tries

\* The command that is made of an attempt.
LEMMA CommandType ==
  ASSUME TypeOK, NEW a \in Tries
  PROVE  /\ Command(a) \in Commands
         /\ Command(a).op = a.op /\ Command(a).enc = a.enc /\ Command(a).qid = qid
         /\ Command(a).path = HasPath(a.op)
<1>1. info.unprivileged \in BOOLEAN /\ qid \in 0 .. NrHwQueues - 1
  BY DEF TypeOK, Flags
<1>2. HasPath(a.op) \in BOOLEAN
  BY <1>1 DEF HasPath
<1> QED BY <1>1, <1>2, TryFields DEF Command, Commands

\* The results a function returns without the kernel.
LEMMA ErrnoType ==
  /\ NoCommand \in Commands
  /\ \A c \in Commands : /\ Errno(c) \in Cqes /\ Errno(c).cmd = c
                         /\ Errno(c).res = "error"
<1>1. NoCommand \in Commands
  BY DEF NoCommand, Commands, Ops, Encodings
<1>2. \A c \in Commands : Errno(c) \in Cqes /\ Errno(c).cmd = c /\ Errno(c).res = "error"
  BY DEF Errno, Cqes, NoFlags, Flags, Results
<1> QED BY <1>1, <1>2

\* The driver's answers are results.
LEMMA AnswerType == \A c : Answers(c) \subseteq {"ok", "badop", "badpath", "nodev", "exists", "fail"}
BY DEF Answers, Understands

LEMMA FlagsType ==
  /\ NoFlags \in Flags /\ DriverFlags \in Flags /\ DriverFlags' \in Flags
  /\ \A b \in BOOLEAN : [DriverFlags EXCEPT !.unprivileged = b] \in Flags
<1>1. \A a, b \in BOOLEAN : [ioctl |-> a, unprivileged |-> b] \in Flags
  BY DEF Flags
<1>2. NoFlags \in Flags
  BY <1>1 DEF NoFlags
<1>3. ("ioctl" \in drv.enc) \in BOOLEAN /\ (kdev = "unprivileged") \in BOOLEAN
  OBVIOUS
<1>4. DriverFlags \in Flags
  BY <1>1, <1>3, Zenon DEF DriverFlags
<1>5. \A b \in BOOLEAN : [DriverFlags EXCEPT !.unprivileged = b] \in Flags
  <2> DEFINE f == DriverFlags
  <2>1. f \in Flags
    BY <1>4
  <2> HIDE DEF f
  <2>2. \A b \in BOOLEAN : [f EXCEPT !.unprivileged = b] \in Flags
    BY <2>1 DEF Flags
  <2> QED BY <2>2 DEF f
<1>6. ("ioctl" \in drv'.enc) \in BOOLEAN /\ (kdev' = "unprivileged") \in BOOLEAN
  OBVIOUS
<1>7. DriverFlags' \in Flags
  BY <1>1, <1>6, Zenon DEF DriverFlags
<1> QED BY <1>2, <1>4, <1>5, <1>7

\* One answer of the driver.
LEMMA DriverStep ==
  ASSUME NEW c, ublk_ctrl_uring_cmd(c)
  PROVE  \E r \in Answers(c), f \in Flags :
           /\ pc # "ended" /\ c \in busy /\ busy' = busy \ {c}
           /\ cq' = Append(cq, [cmd |-> c, res |-> r, flags |-> f])
           /\ kdev' = CASE r = "ok" /\ c.op = "ADD_DEV" -> "privileged"
                        [] r = "ok" /\ c.op = "DEL_DEV" -> "none"
                        [] OTHER -> kdev
           /\ r = "ok" /\ c.op = "GET_DEV_INFO2" => f = DriverFlags'
           /\ info' = IF r = "ok" /\ c.op \in {"ADD_DEV", "GET_DEV_INFO"} THEN DriverFlags' ELSE info
           /\ learned' = IF r = "ok" /\ c.op \in InfoOps THEN "yes" ELSE learned
           /\ UNCHANGED <<session, pc, call, todo, qid, cmd, cqe, fds, sq, drv, why, slips, signals>>
<1> DEFINE dev(r) == CASE r = "ok" /\ c.op = "ADD_DEV" -> "privileged"
                       [] r = "ok" /\ c.op = "DEL_DEV" -> "none"
                       [] OTHER -> kdev
           flags(r) == [DriverFlags EXCEPT !.unprivileged = dev(r) = "unprivileged"]
           f(r) == IF r = "ok" /\ c.op = "GET_DEV_INFO2" THEN flags(r) ELSE NoFlags
<1>1. PICK r \in Answers(c) :
        /\ busy' = busy \ {c} /\ cq' = Append(cq, [cmd |-> c, res |-> r, flags |-> f(r)])
        /\ kdev' = dev(r)
        /\ info' = IF r = "ok" /\ c.op \in {"ADD_DEV", "GET_DEV_INFO"} THEN flags(r) ELSE info
        /\ learned' = IF r = "ok" /\ c.op \in {"ADD_DEV", "GET_DEV_INFO", "GET_DEV_INFO2"}
                        THEN "yes" ELSE learned
  BY DEF ublk_ctrl_uring_cmd
<1>2. /\ pc # "ended" /\ c \in busy
      /\ UNCHANGED <<session, pc, call, todo, qid, cmd, cqe, fds, sq, drv, why, slips, signals>>
  BY DEF ublk_ctrl_uring_cmd
<1>3. flags(r) = DriverFlags'
  BY <1>1, <1>2 DEF DriverFlags
<1>4. f(r) \in Flags
  BY FlagsType
<1> QED BY <1>1, <1>2, <1>3, <1>4 DEF InfoOps

\* The types of the client, of its ring and of the world around it.
ClientType == /\ session \in {"serve", "del", "info"}
              /\ pc \in {"init", "issue", "wait", "return", "deinit", "ended"}
              /\ call \in Calls /\ todo \in Seq(Tries) /\ qid \in 0 .. NrHwQueues - 1
              /\ info \in Flags /\ cmd \in Commands /\ cqe \in Cqes
              /\ fds \subseteq {"ctrl_fd", "ring_fd"} /\ why \subseteq Results
RingType == /\ sq \in Seq(Commands) /\ Len(sq) <= SqEntries
            /\ busy \subseteq Commands /\ cq \in Seq(Cqes)
WorldType == /\ drv \in [enc : SUBSET Encodings, info2 : BOOLEAN]
             /\ kdev \in {"none", "privileged", "unprivileged"}
             /\ learned \in {"no", "yes", "stale"}
             /\ slips \in 0 .. MaxSlips /\ signals \in 0 .. MaxSignals

LEMMA TypeParts == TypeOK <=> ClientType /\ RingType /\ WorldType
BY DEF TypeOK, ClientType, RingType, WorldType, Tries

LEMMA TypePartsNext == TypeOK' <=> ClientType' /\ RingType' /\ WorldType'
BY DEF TypeOK, ClientType, RingType, WorldType, Tries

\* The three ways a function returns: to its next attempt, to the next
\* function, or to the end of the session.
Retries == /\ pc' = "issue" /\ cqe.res # "ok" /\ Rest # <<>> /\ todo' = Rest
           /\ why' = why \cup {cqe.res} /\ UNCHANGED <<call, qid>>
Proceeds == /\ pc' = "issue" /\ call' = Then(cqe.res = "ok") /\ call' \in OneCalls
            /\ todo' = Attempts(call', info') /\ why' = {}
            /\ qid' = IF call = call' THEN qid + 1 ELSE 0
            /\ cqe.res = "ok" \/ call \notin {"get_info"}
Finishes == /\ pc' \in {"ended", "deinit"} /\ (pc' = "ended" => session = "serve")
            /\ why' = {} /\ UNCHANGED <<call, todo, qid>>

LEMMA ReturnStep ==
  ASSUME TypeOK, Programme, return_cmd
  PROVE  /\ pc = "return" /\ info' \in Flags /\ cqe' = Errno(NoCommand)
         /\ cqe.res = "ok" /\ cmd.op = "GET_DEV_INFO2" /\ cqe.cmd = cmd => info' = cqe.flags
         /\ cqe.res # "ok" \/ cmd.op # "GET_DEV_INFO2" => info' = info
         /\ UNCHANGED <<session, cmd, fds, ringVars, drv, kdev, learned, slips, signals>>
         /\ Retries \/ Proceeds \/ Finishes
<1>1. /\ call \in Calls /\ session \in {"serve", "del", "info"} /\ qid \in 0 .. NrHwQueues - 1
      /\ info \in Flags /\ cqe.flags \in Flags
  BY DEF TypeOK, Cqes
<1>2. /\ pc = "return" /\ info' \in Flags /\ cqe' = Errno(NoCommand)
      /\ cqe.res = "ok" /\ cmd.op = "GET_DEV_INFO2" /\ cqe.cmd = cmd => info' = cqe.flags
      /\ cqe.res # "ok" \/ cmd.op # "GET_DEV_INFO2" => info' = info
      /\ UNCHANGED <<session, cmd, fds, ringVars, drv, kdev, learned, slips, signals>>
  BY <1>1 DEF return_cmd
<1>3. ASSUME cqe.res # "ok" /\ Rest # <<>> PROVE Retries
  BY <1>3 DEF return_cmd, Retries
<1>4. ASSUME ~(cqe.res # "ok" /\ Rest # <<>>), Then(cqe.res = "ok") \in Calls PROVE Proceeds
  <2>1. /\ pc' = "issue" /\ call' = Then(cqe.res = "ok")
        /\ todo' = Attempts(call', info') /\ why' = {}
        /\ qid' = IF call = call' THEN qid + 1 ELSE 0
    BY <1>4 DEF return_cmd
  <2>2. Then(cqe.res = "ok") \in OneCalls /\ (cqe.res = "ok" \/ call # "get_info")
    <3> DEFINE ok == cqe.res = "ok"
    <3>1. ok \in BOOLEAN
      OBVIOUS
    <3>2. (call \in {"get_info"} /\ ~ok) => Then(ok) = "deinit"
      <4>1. call = "get_info" => session # "serve"
        BY <1>1 DEF Programme
      <4> QED BY <1>1, <4>1 DEF Then
    <3> QED BY <1>1, <1>4, <3>1, <3>2, NextCall DEF OneCalls, Calls
  <2> QED BY <2>1, <2>2 DEF Proceeds
<1>5. ASSUME ~(cqe.res # "ok" /\ Rest # <<>>), Then(cqe.res = "ok") \notin Calls PROVE Finishes
  <2>1. pc' = Then(cqe.res = "ok") /\ why' = {} /\ UNCHANGED <<call, todo, qid>>
    BY <1>5 DEF return_cmd
  <2>2. Then(cqe.res = "ok") \in {"ended", "deinit"} /\ (Then(cqe.res = "ok") = "ended" => session = "serve")
    BY <1>1, <1>5, NextCall DEF Calls
  <2> QED BY <2>1, <2>2 DEF Finishes
<1> QED BY <1>2, <1>3, <1>4, <1>5

\* Every step keeps the types.
LEMMA NextTypeOK ==
  ASSUME TypeOK, Programme, [Next]_vars
  PROVE  TypeOK'
<1>0. ClientType /\ RingType /\ WorldType /\ Head(todo) \in Tries /\ todo # <<>>
  BY TypeParts, TodoShape DEF ClientType
<1>1. CASE ublksrv_ctrl_init \/ ublksrv_ctrl_deinit
  <2>1. <<>> \in Seq(Commands) /\ <<>> \in Seq(Cqes) /\ Len(<<>>) = 0
    OBVIOUS
  <2>2. ClientType'
    BY <1>0, <1>1 DEF ublksrv_ctrl_init, ublksrv_ctrl_deinit, ClientType
  <2>3. RingType'
    <3>1. CASE ublksrv_ctrl_init
      BY <1>0, <3>1 DEF ublksrv_ctrl_init, RingType
    <3>2. CASE ublksrv_ctrl_deinit
      <4>1. sq' = <<>> /\ busy' = {} /\ cq' = <<>>
        BY <3>2 DEF ublksrv_ctrl_deinit
      <4> QED BY <2>1, <4>1 DEF RingType
    <3> QED BY <1>1, <3>1, <3>2
  <2>4. WorldType'
    BY <1>0, <1>1 DEF ublksrv_ctrl_init, ublksrv_ctrl_deinit, WorldType
  <2> QED BY <2>2, <2>3, <2>4, TypePartsNext
<1>2. CASE no_sqe \/ io_uring_submit \/ submit_fails
  <2>1. Command(Head(todo)) \in Commands /\ Errno(Command(Head(todo))) \in Cqes
    BY <1>0, CommandType, ErrnoType
  <2>2. ClientType' /\ WorldType'
    <3>1. ClientType'
      BY <1>0, <1>2, <2>1 DEF no_sqe, io_uring_submit, submit_fails, ClientType
    <3>2. WorldType'
      BY <1>0, <1>2 DEF no_sqe, io_uring_submit, submit_fails, WorldType
    <3> QED BY <3>1, <3>2
  <2>3. CASE no_sqe
    BY <1>0, <2>2, <2>3, TypePartsNext DEF no_sqe, RingType
  <2>4. CASE io_uring_submit
    <3>1. {sq[i] : i \in 1 .. Len(sq)} \subseteq Commands
      BY <1>0 DEF RingType
    <3>2. <<>> \in Seq(Commands) /\ Len(<<>>) = 0
      OBVIOUS
    <3> QED BY <1>0, <2>1, <2>2, <2>4, <3>1, <3>2, TypePartsNext DEF io_uring_submit, RingType
  <2>5. CASE submit_fails
    <3>1. /\ Append(sq, Command(Head(todo))) \in Seq(Commands)
          /\ Len(Append(sq, Command(Head(todo)))) = Len(sq) + 1
      BY <1>0, <2>1 DEF RingType
    <3> QED BY <1>0, <2>2, <2>5, <3>1, TypePartsNext DEF submit_fails, RingType
  <2> QED BY <1>2, <2>3, <2>4, <2>5
<1>3. CASE io_uring_wait_cqe
  <2>1. Head(cq) \in Cqes /\ Tail(cq) \in Seq(Cqes)
    BY <1>0, <1>3 DEF io_uring_wait_cqe, RingType
  <2> QED BY <1>0, <1>3, <2>1, TypePartsNext
          DEF io_uring_wait_cqe, ClientType, RingType, WorldType
<1>4. CASE wait_eintr \/ wait_fails
  <2>0. Errno(cmd) \in Cqes
    BY <1>0, ErrnoType DEF ClientType
  <2>1. ClientType'
    BY <1>0, <1>4, <2>0 DEF wait_eintr, wait_fails, ClientType
  <2>2. RingType' /\ WorldType'
    BY <1>0, <1>4 DEF wait_eintr, wait_fails, RingType, WorldType
  <2> QED BY <2>1, <2>2, TypePartsNext
<1>5. CASE return_cmd
  <2>1. RingType' /\ WorldType'
    BY <1>0, <1>5, ReturnStep DEF RingType, WorldType
  <2>2. cqe.res \in Results /\ cqe' \in Cqes /\ info' \in Flags
    BY <1>0, <1>5, ReturnStep, ErrnoType DEF ClientType, Cqes
  <2>3. CASE Retries
    <3>1. Rest \in Seq(Tries)
      BY <1>0, <2>3, NextTry, Pair, InfoTries DEF Retries, ClientType, Ops
    <3> QED BY <1>0, <1>5, <2>1, <2>2, <2>3, <3>1, ReturnStep, TypePartsNext DEF Retries, ClientType
  <2>4. CASE Proceeds
    <3>1. call' \in Calls /\ todo' \in Seq(Tries)
      BY <2>4, OneTry DEF Proceeds, OneCalls
    <3>2. qid' \in 0 .. NrHwQueues - 1
      <4>1. CASE call = call'
        <5>1. call \in OneCalls /\ Then(cqe.res = "ok") = call
          BY <2>4, <4>1 DEF Proceeds
        <5>2. qid + 1 < NrHwQueues
          BY <1>0, <5>1, NextCall DEF ClientType, OneCalls, Calls
        <5> QED BY <1>0, <2>4, <4>1, <5>2 DEF Proceeds, ClientType
      <4>2. CASE call # call'
        BY <2>4, <4>2 DEF Proceeds
      <4> QED BY <4>1, <4>2
    <3> QED BY <1>0, <1>5, <2>1, <2>2, <2>4, <3>1, <3>2, ReturnStep, TypePartsNext
            DEF Proceeds, ClientType
  <2>5. CASE Finishes
    BY <1>0, <1>5, <2>1, <2>2, <2>5, ReturnStep, TypePartsNext DEF Finishes, ClientType
  <2> QED BY <1>5, <2>3, <2>4, <2>5, ReturnStep
<1>6. ASSUME NEW c \in busy, ublk_ctrl_uring_cmd(c) PROVE TypeOK'
  <2>1. PICK r \in Answers(c), f \in Flags :
          /\ busy' = busy \ {c} /\ cq' = Append(cq, [cmd |-> c, res |-> r, flags |-> f])
          /\ kdev' \in {"none", "privileged", kdev}
          /\ info' \in {DriverFlags', info} /\ learned' \in {"yes", learned}
          /\ UNCHANGED <<session, pc, call, todo, qid, cmd, cqe, fds, sq, drv, why, slips, signals>>
    BY <1>6, DriverStep
  <2>2. c \in Commands /\ r \in Results
    BY <1>0, AnswerType DEF RingType, Results
  <2>3. [cmd |-> c, res |-> r, flags |-> f] \in Cqes
    BY <2>2 DEF Cqes
  <2>4. Append(cq, [cmd |-> c, res |-> r, flags |-> f]) \in Seq(Cqes)
    BY <1>0, <2>3 DEF RingType
  <2>5. DriverFlags' \in Flags
    BY FlagsType
  <2>6. ClientType'
    BY <1>0, <2>1, <2>5 DEF ClientType
  <2>7. RingType' /\ WorldType'
    BY <1>0, <2>1, <2>4 DEF RingType, WorldType
  <2> QED BY <2>6, <2>7, TypePartsNext
<1>7. CASE Other
  BY <1>0, <1>7, TypePartsNext DEF Other, ClientType, RingType, WorldType
<1>8. CASE daemon_fails
  BY <1>0, <1>8, TypePartsNext DEF daemon_fails, ClientType, RingType, WorldType
<1>9. CASE UNCHANGED vars
  BY <1>9 DEF TypeOK
<1> QED BY <1>1, <1>2, <1>3, <1>4, <1>5, <1>6, <1>7, <1>8, <1>9 DEF Next, Client

----------------------------------------------------------------------------
(* The order of the commands *)

\* The steps that leave the client in its function and at its attempt.
LEMMA SameAttempt ==
  ASSUME [Next]_vars
  PROVE  UNCHANGED <<session, call, todo, qid>> \/ return_cmd
<1>1. ASSUME NEW c \in busy, ublk_ctrl_uring_cmd(c)
      PROVE  UNCHANGED <<session, call, todo, qid>>
  BY <1>1 DEF ublk_ctrl_uring_cmd
<1> QED BY <1>1 DEF Next, Client, ublksrv_ctrl_init, no_sqe, io_uring_submit, submit_fails,
       io_uring_wait_cqe, wait_eintr, wait_fails, ublksrv_ctrl_deinit, daemon_fails, Other

LEMMA NextProgramme ==
  ASSUME TypeOK, Programme, [Next]_vars
  PROVE  Programme'
<1>0. call \in Calls /\ session \in {"serve", "del", "info"} /\ qid \in 0 .. NrHwQueues - 1
  BY DEF TypeOK
<1>1. pc' = "init" => cmd' = NoCommand
  <2>1. ASSUME NEW c \in busy, ublk_ctrl_uring_cmd(c) PROVE UNCHANGED <<pc, cmd>>
    BY <2>1 DEF ublk_ctrl_uring_cmd
  <2>2. return_cmd => pc' # "init"
    BY ReturnStep DEF Retries, Proceeds, Finishes
  <2>3. ASSUME ~return_cmd, \A c \in busy : ~ublk_ctrl_uring_cmd(c)
        PROVE  pc' # "init" \/ UNCHANGED <<pc, cmd>>
    BY <2>3 DEF Next, Client, ublksrv_ctrl_init, no_sqe, io_uring_submit, submit_fails,
       io_uring_wait_cqe, wait_eintr, wait_fails, ublksrv_ctrl_deinit, daemon_fails, Other
  <2> QED BY <2>1, <2>2, <2>3 DEF Programme
<1>2. CASE UNCHANGED <<session, call, todo, qid>>
  BY <1>1, <1>2 DEF Programme
<1>3. CASE return_cmd
  <2>1. session' = session /\ info' \in Flags
    BY <1>3, ReturnStep
  <2>2. CASE Retries
    <3>1. call' = call /\ todo' = Rest /\ Rest # <<>>
      BY <2>2 DEF Retries
    <3>2. call \in {"add_dev", "get_info"} /\ (call = "add_dev" => Rest = Legacy("ADD_DEV"))
          /\ (call = "get_info" => Rest \in {Info3, Info2, Info1})
      BY <1>0, <3>1, NextTry
    <3> QED BY <1>1, <2>1, <3>1, <3>2 DEF Programme, InfoTodo, Info3, Info2, Info1
  <2>3. CASE Proceeds
    <3>1. call' = Then(cqe.res = "ok") /\ call' \in OneCalls /\ todo' = Attempts(call', info')
      BY <2>3 DEF Proceeds
    <3>2. \/ session = "serve" /\ call' \in {"set_params", "get_affinity", "start_dev"}
          \/ session = "del" /\ call' \in {"stop_dev", "del_dev"}
          \/ session = "info" /\ call' = "get_params"
      BY <1>0, <3>1, NextCall DEF OneCalls, Calls
    <3>3. \E f \in Flags : todo' = Attempts(call', f)
      BY <2>1, <3>1
    <3> QED BY <1>1, <2>1, <3>2, <3>3 DEF Programme
  <2>4. CASE Finishes
    BY <1>1, <2>1, <2>4 DEF Finishes, Programme
  <2> QED BY <1>3, <2>2, <2>3, <2>4, ReturnStep
<1> QED BY <1>2, <1>3, SameAttempt

\* The stages of the commands.
LEMMA Stages ==
  /\ \A op : Stage(op) \in Nat
  /\ Stage("ADD_DEV") = 0 /\ Stage("GET_DEV_INFO2") = 0 /\ Stage("GET_DEV_INFO") = 1
  /\ Stage("SET_PARAMS") = 1 /\ Stage("GET_QUEUE_AFFINITY") = 2 /\ Stage("STOP_DEV") = 2
  /\ Stage("GET_PARAMS") = 2 /\ Stage("START_DEV") = 3 /\ Stage("DEL_DEV") = 3
BY DEF Stage

\* The commands of the next attempt are later than those sent so far.
LEMMA LaterAttempt ==
  ASSUME TypeOK, Programme, return_cmd, pc' = "issue",
         NEW c \in Commands,
         \/ Earlier(c, Head(todo))
         \/ c.op = Head(todo).op /\ c.enc = Head(todo).enc /\ c.qid = qid
  PROVE  Earlier(c, Head(todo))'
<1>0. /\ call \in Calls /\ session \in {"serve", "del", "info"} /\ qid \in 0 .. NrHwQueues - 1
      /\ c.qid \in 0 .. NrHwQueues - 1 /\ c.op \in Ops /\ c.enc \in Encodings
  BY DEF TypeOK, Commands
<1>1. Stage(c.op) <= Stage(Head(todo).op)
  BY Stages DEF Earlier
<1>2. ASSUME Stage(Head(todo).op) < Stage(Head(todo').op) PROVE Earlier(c, Head(todo))'
  BY <1>1, <1>2, Stages DEF Earlier
<1>3. CASE Retries
  <2>1. todo' = Rest /\ qid' = qid /\ Rest # <<>>
    BY <1>3 DEF Retries
  <2>2. CASE todo = Info3 /\ Rest = Info2
    <3>1. Head(todo).op = "GET_DEV_INFO2" /\ Head(todo').op = "GET_DEV_INFO"
      BY <2>1, <2>2, InfoTries, TryFields
    <3> QED BY <1>2, <3>1, Stages
  <2>3. ASSUME NEW op, Head(todo) = Try(op, "ioctl"), Head(Rest) = Try(op, "legacy")
        PROVE  Earlier(c, Head(todo))'
    <3>1. /\ Head(todo).op = op /\ Head(todo).enc = "ioctl"
          /\ Head(todo').op = op /\ Head(todo').enc = "legacy"
      BY <2>1, <2>3, TryFields
    <3> QED BY <1>0, <2>1, <3>1, Stages DEF Earlier
  <2>4. CASE todo = Both("ADD_DEV") /\ Rest = Legacy("ADD_DEV")
    BY <2>3, <2>4, Pair DEF Ops
  <2>5. CASE (todo = Info4 /\ Rest = Info3) \/ (todo = Info2 /\ Rest = Info1)
    <3>1. \E op : Head(todo) = Try(op, "ioctl") /\ Head(Rest) = Try(op, "legacy")
      BY <2>5, InfoTries, Zenon
    <3> QED BY <2>3, <3>1
  <2>6. \/ todo = Both("ADD_DEV") /\ Rest = Legacy("ADD_DEV")
        \/ todo = Info3 /\ Rest = Info2
        \/ (todo = Info4 /\ Rest = Info3) \/ (todo = Info2 /\ Rest = Info1)
    BY <1>0, <2>1, NextTry, Zenon
  <2> QED BY <2>2, <2>4, <2>5, <2>6
<1>4. CASE Proceeds
  <2>1. /\ call' = Then(cqe.res = "ok") /\ call' \in OneCalls
        /\ qid' = IF call = call' THEN qid + 1 ELSE 0
        /\ Head(todo').op = OneOp(call')
    BY <1>4, OneTry, TryFields DEF Proceeds
  <2>2. Head(todo).op \in CASE call = "add_dev"  -> {"ADD_DEV"}
                            [] call = "get_info" -> {"GET_DEV_INFO2", "GET_DEV_INFO"}
                            [] OTHER             -> {OneOp(call)}
    BY <1>0, TodoShape
  <2>3. CASE call = "get_affinity" /\ call' = "get_affinity"
    <3>1. qid' = qid + 1 /\ Head(todo').op = Head(todo).op
      BY <2>1, <2>2, <2>3
    <3> QED BY <1>0, <3>1, Stages DEF Earlier
  <2>4. CASE \/ call = "add_dev" /\ call' = "set_params"
             \/ call = "set_params" /\ call' = "get_affinity"
             \/ call = "get_affinity" /\ call' = "start_dev"
             \/ call = "get_info" /\ call' = "stop_dev"
             \/ call = "stop_dev" /\ call' = "del_dev"
             \/ call = "get_info" /\ call' = "get_params"
    <3>1. Stage(Head(todo).op) < Stage(Head(todo').op)
      BY <2>1, <2>2, <2>4, Stages DEF OneOp
    <3> QED BY <1>2, <3>1
  <2> QED BY <1>0, <2>1, <2>3, <2>4, NextCall DEF OneCalls, Calls
<1>5. CASE Finishes
  BY <1>5 DEF Finishes
<1> QED BY <1>3, <1>4, <1>5, ReturnStep

----------------------------------------------------------------------------
(* The ring *)

\* What is in a sequence, and how much.
LEMMA SeqRange ==
  ASSUME NEW S, NEW s \in Seq(S)
  PROVE  /\ Range(s) = {s[i] : i \in 1 .. Len(s)} /\ Range(s) \subseteq S
         /\ \A e \in S : Range(Append(s, e)) = Range(s) \cup {e}
<1>1. Range(s) = {s[i] : i \in 1 .. Len(s)} /\ Range(s) \subseteq S
  BY DEF Range
<1>2. ASSUME NEW e \in S PROVE Range(Append(s, e)) = Range(s) \cup {e}
  <2>1. /\ Append(s, e) \in Seq(S) /\ Len(Append(s, e)) = Len(s) + 1 /\ Len(s) \in Nat
        /\ \A i \in 1 .. Len(s) : Append(s, e)[i] = s[i]
        /\ Append(s, e)[Len(s) + 1] = e
    OBVIOUS
  <2>2. Range(Append(s, e)) = {Append(s, e)[i] : i \in 1 .. Len(s) + 1}
    BY <2>1 DEF Range
  <2>3. 1 .. Len(s) + 1 = (1 .. Len(s)) \cup {Len(s) + 1}
    BY <2>1
  <2> QED BY <1>1, <2>1, <2>2, <2>3
<1> QED BY <1>1, <1>2

LEMMA EmptyRange == Range(<<>>) = {}
BY DEF Range

LEMMA RangeSize ==
  ASSUME NEW S, NEW s \in Seq(S), \A i, j \in 1 .. Len(s) : s[i] = s[j] => i = j
  PROVE  IsFiniteSet(Range(s)) /\ Cardinality(Range(s)) = Len(s)
<1>1. Len(s) \in Nat /\ s \in [1 .. Len(s) -> Range(s)] /\ DOMAIN s = 1 .. Len(s)
  BY SeqRange DEF Range
<1>2. s \in Injection(1 .. Len(s), Range(s))
  BY <1>1 DEF Injection, IsInjective
<1>3. s \in Surjection(1 .. Len(s), Range(s))
  BY <1>1, SeqRange DEF Surjection
<1>4. IsFiniteSet(1 .. Len(s)) /\ Cardinality(1 .. Len(s)) = Len(s)
  BY <1>1, FS_Interval
<1> QED BY <1>2, <1>3, <1>4, FS_Surjection

\* The command of the present attempt is not in the ring yet.
LEMMA FreshCommand ==
  ASSUME TypeOK, Programme, NoRepeat, pc = "issue"
  PROVE  Command(Head(todo)) \notin busy \cup Range(sq)
<1>1. Head(todo) \in Tries
  BY TodoShape DEF TypeOK
<1>2. ~Earlier(Command(Head(todo)), Head(todo))
  <2>1. qid \in Int /\ Stage(Head(todo).op) \in Nat
    BY Stages DEF TypeOK
  <2> QED BY <1>1, <2>1, CommandType DEF Earlier
<1> QED BY <1>2 DEF NoRepeat, Active

\* The steps that leave the ring alone.
LEMMA SameRing ==
  ASSUME [Next]_vars
  PROVE  \/ ublksrv_ctrl_init \/ io_uring_submit \/ submit_fails \/ ublksrv_ctrl_deinit
         \/ \E c \in busy : ublk_ctrl_uring_cmd(c)
         \/ /\ UNCHANGED <<sq, busy>>
            /\ \/ return_cmd \/ no_sqe \/ io_uring_wait_cqe \/ wait_eintr \/ wait_fails
               \/ daemon_fails \/ UNCHANGED <<pc, cmd, todo, qid>>
BY DEF Next, Client, return_cmd, no_sqe, io_uring_wait_cqe, wait_eintr, wait_fails, daemon_fails, Other

LEMMA NextNoRepeat ==
  ASSUME TypeOK, Programme, NoRepeat, RingCount, [Next]_vars
  PROVE  NoRepeat'
<1>0. /\ sq \in Seq(Commands) /\ busy \subseteq Commands /\ cmd \in Commands
      /\ Head(todo) \in Tries /\ Range(sq) \subseteq Commands
  BY TodoShape, SeqRange DEF TypeOK
<1>00. /\ Command(Head(todo)) \in Commands /\ Command(Head(todo)).op = Head(todo).op
       /\ Command(Head(todo)).enc = Head(todo).enc /\ Command(Head(todo)).qid = qid
  BY <1>0, CommandType
<1>1. CASE ublksrv_ctrl_init
  BY <1>1, EmptyRange DEF ublksrv_ctrl_init, RingCount, NoRepeat
<1>2. CASE io_uring_submit
  <2>1. /\ pc = "issue" /\ pc' = "wait" /\ cmd' = Command(Head(todo)) /\ sq' = <<>>
        /\ busy' = busy \cup Range(sq) \cup {cmd'} /\ UNCHANGED <<todo, qid>>
    BY <1>0, <1>2, SeqRange DEF io_uring_submit
  <2>2. \A c \in busy' : Earlier(c, Head(todo))' \/ c = cmd'
    BY <2>1 DEF NoRepeat, Active, Earlier
  <2> QED BY <1>00, <2>1, <2>2, EmptyRange DEF NoRepeat
<1>3. CASE submit_fails
  <2>1. /\ pc = "issue" /\ pc' = "return" /\ cmd' = Command(Head(todo)) /\ sq' = Append(sq, cmd')
        /\ UNCHANGED <<todo, qid, busy>>
    BY <1>3 DEF submit_fails
  <2>2. Range(sq') = Range(sq) \cup {cmd'}
    BY <1>0, <1>00, <2>1, SeqRange
  <2>3. \A c \in busy' \cup Range(sq') : Earlier(c, Head(todo))' \/ c = cmd'
    BY <2>1, <2>2 DEF NoRepeat, Active, Earlier
  <2>4. cmd' \notin busy \cup Range(sq)
    BY <2>1, FreshCommand
  <2>5. \A i, j \in 1 .. Len(sq') : sq'[i] = sq'[j] => i = j
    <3>1. /\ Len(sq') = Len(sq) + 1 /\ Len(sq) \in Nat /\ sq'[Len(sq) + 1] = cmd'
          /\ \A i \in 1 .. Len(sq) : sq'[i] = sq[i] /\ sq[i] \in Range(sq)
      BY <1>0, <1>00, <2>1, SeqRange
    <3> QED BY <2>4, <3>1 DEF NoRepeat
  <2> QED BY <1>00, <2>1, <2>2, <2>3, <2>4, <2>5 DEF NoRepeat
<1>4. CASE ublksrv_ctrl_deinit
  BY <1>4, EmptyRange DEF ublksrv_ctrl_deinit, NoRepeat, Active
<1>5. ASSUME NEW c \in busy, ublk_ctrl_uring_cmd(c) PROVE NoRepeat'
  BY <1>5 DEF ublk_ctrl_uring_cmd, NoRepeat, Active, Earlier
<1>6. CASE UNCHANGED <<sq, busy>> /\ return_cmd
  <2>1. ASSUME pc' = "issue", NEW c \in busy \cup Range(sq) PROVE Earlier(c, Head(todo))'
    <3>1. \/ Earlier(c, Head(todo))
          \/ c.op = Head(todo).op /\ c.enc = Head(todo).enc /\ c.qid = qid
      BY <1>6, ReturnStep DEF NoRepeat, Active
    <3> QED BY <1>0, <1>6, <2>1, <3>1, LaterAttempt
  <2>2. pc' \in {"issue", "ended", "deinit"}
    BY <1>6, ReturnStep DEF Retries, Proceeds, Finishes
  <2> QED BY <1>6, <2>1, <2>2 DEF NoRepeat, Active
<1>7. CASE UNCHANGED <<sq, busy>> /\ no_sqe
  BY <1>00, <1>7 DEF no_sqe, NoRepeat, Active, Earlier
<1>8. CASE UNCHANGED <<sq, busy>> /\ (io_uring_wait_cqe \/ wait_eintr \/ wait_fails)
  BY <1>8 DEF io_uring_wait_cqe, wait_eintr, wait_fails, NoRepeat, Active, Earlier
<1>9. CASE UNCHANGED <<sq, busy, pc, cmd, todo, qid>>
  BY <1>9 DEF NoRepeat, Active, Earlier
<1>10. CASE UNCHANGED <<sq, busy>> /\ daemon_fails
  BY <1>10 DEF daemon_fails, NoRepeat, Active
<1> QED BY <1>1, <1>2, <1>3, <1>4, <1>5, <1>6, <1>7, <1>8, <1>9, <1>10, SameRing

LEMMA NextRingCount ==
  ASSUME TypeOK, Programme, NoRepeat, RingCount, [Next]_vars
  PROVE  RingCount'
<1>0. /\ sq \in Seq(Commands) /\ busy \subseteq Commands /\ cq \in Seq(Cqes)
      /\ Head(todo) \in Tries /\ IsFiniteSet(busy) /\ Cardinality(busy) \in Nat
      /\ Len(sq) \in Nat /\ Len(cq) \in Nat /\ slips \in Nat
  BY TodoShape, FS_CardinalityType DEF TypeOK, RingCount
<1>1. CASE ublksrv_ctrl_init
  BY <1>1, FS_EmptySet DEF ublksrv_ctrl_init, RingCount
<1>2. CASE io_uring_submit
  <2>1. /\ pc = "issue" /\ pc' = "wait" /\ cmd' = Command(Head(todo)) /\ sq' = <<>>
        /\ busy' = (busy \cup Range(sq)) \cup {cmd'} /\ UNCHANGED <<cq, slips>>
    BY <1>0, <1>2, SeqRange DEF io_uring_submit
  <2>2. IsFiniteSet(Range(sq)) /\ Cardinality(Range(sq)) = Len(sq)
    BY <1>0, RangeSize DEF NoRepeat
  <2>3. /\ IsFiniteSet(busy \cup Range(sq))
        /\ Cardinality(busy \cup Range(sq)) = Cardinality(busy) + Len(sq)
    <3>1. busy \cap Range(sq) = {}
      BY DEF NoRepeat
    <3>2. /\ IsFiniteSet(busy \cup Range(sq))
          /\ Cardinality(busy \cup Range(sq))
               = Cardinality(busy) + Cardinality(Range(sq)) - Cardinality(busy \cap Range(sq))
      BY <1>0, <2>2, FS_Union
    <3>3. Cardinality(busy \cap Range(sq)) = 0
      BY <3>1, FS_EmptySet, Zenon
    <3> QED BY <1>0, <2>2, <3>2, <3>3
  <2>4. IsFiniteSet(busy') /\ Cardinality(busy') = Cardinality(busy) + Len(sq) + 1
    <3>1. cmd' \notin busy \cup Range(sq)
      BY <2>1, FreshCommand
    <3> QED BY <2>1, <2>3, <3>1, FS_AddElement
  <2>5. Len(sq) + Cardinality(busy) + Len(cq) = slips
    BY <2>1 DEF RingCount
  <2> QED BY <1>0, <2>1, <2>4, <2>5 DEF RingCount
<1>3. CASE submit_fails
  <2>1. /\ pc = "issue" /\ pc' = "return" /\ sq' = Append(sq, Command(Head(todo)))
        /\ slips' = slips + 1 /\ UNCHANGED <<busy, cq>>
    BY <1>3 DEF submit_fails
  <2>2. Len(sq') = Len(sq) + 1
    BY <1>0, <2>1, CommandType
  <2>3. IsFiniteSet(busy') /\ Cardinality(busy') = Cardinality(busy)
    BY <1>0, <2>1, Zenon
  <2>4. Len(sq) + Cardinality(busy) + Len(cq) = slips
    BY <2>1 DEF RingCount
  <2>5. Len(sq') + Cardinality(busy') + Len(cq') = slips' /\ pc' = "return"
    BY <1>0, <2>1, <2>2, <2>3, <2>4
  <2> QED BY <2>3, <2>5 DEF RingCount
<1>4. CASE ublksrv_ctrl_deinit
  <2>1. pc' = "ended" /\ busy' = {}
    BY <1>4 DEF ublksrv_ctrl_deinit
  <2>2. IsFiniteSet(busy')
    BY <2>1, FS_EmptySet, Zenon
  <2>3. pc' = "ended"
    BY <2>1
  <2> QED BY <2>2, <2>3 DEF RingCount
<1>5. ASSUME NEW c \in busy, ublk_ctrl_uring_cmd(c) PROVE RingCount'
  <2>1. PICK e \in Cqes : /\ busy' = busy \ {c} /\ cq' = Append(cq, e) /\ UNCHANGED <<pc, sq, slips>>
    <3>1. PICK r \in Answers(c), f \in Flags :
            /\ busy' = busy \ {c} /\ cq' = Append(cq, [cmd |-> c, res |-> r, flags |-> f])
            /\ UNCHANGED <<pc, sq, slips>>
      BY <1>5, DriverStep
    <3>2. [cmd |-> c, res |-> r, flags |-> f] \in Cqes
      BY <1>0, AnswerType DEF Cqes, Results
    <3> QED BY <3>1, <3>2
  <2>2. IsFiniteSet(busy') /\ Cardinality(busy') = Cardinality(busy) - 1
    BY <1>0, <2>1, FS_RemoveElement
  <2>3. Len(cq') = Len(cq) + 1
    BY <1>0, <2>1
  <2>4. pc # "init"
    BY <1>5 DEF RingCount
  <2>5. UNCHANGED <<pc, sq, slips>>
    BY <2>1
  <2> QED BY <1>0, <2>2, <2>3, <2>4, <2>5 DEF RingCount
<1>6. CASE return_cmd
  BY <1>6, ReturnStep DEF Retries, Proceeds, Finishes, RingCount
<1>7. CASE no_sqe
  BY <1>7 DEF no_sqe, RingCount
<1>8. CASE io_uring_wait_cqe
  <2>1. Len(Tail(cq)) = Len(cq) - 1
    BY <1>0, <1>8 DEF io_uring_wait_cqe
  <2>2. sq = <<>> /\ Len(sq) = 0 /\ Cardinality(busy) + Len(cq) = slips + 1
    BY <1>8 DEF io_uring_wait_cqe, RingCount
  <2> QED BY <1>0, <1>8, <2>1, <2>2 DEF io_uring_wait_cqe, RingCount
<1>9. CASE wait_eintr \/ wait_fails
  <2>1. pc = "wait" => Len(sq) = 0
    BY DEF RingCount
  <2> QED BY <1>0, <1>9, <2>1 DEF wait_eintr, wait_fails, RingCount
<1>10. CASE UNCHANGED <<pc, ringVars, slips>>
  BY <1>10 DEF RingCount
<1>11. CASE daemon_fails
  BY <1>11 DEF daemon_fails, RingCount
<1> QED BY <1>1, <1>2, <1>3, <1>4, <1>5, <1>6, <1>7, <1>8, <1>9, <1>10, <1>11
        DEF Next, Client, Other

----------------------------------------------------------------------------
(* Sessions without a slip *)

\* Between two commands nothing is in the ring.
LEMMA EmptyRing ==
  ASSUME TypeOK, RingCount, slips = 0, pc \in {"issue", "return"}
  PROVE  sq = <<>> /\ busy = {} /\ cq = <<>>
<1>1. /\ sq \in Seq(Commands) /\ cq \in Seq(Cqes) /\ IsFiniteSet(busy) /\ Cardinality(busy) \in Nat
      /\ Len(sq) \in Nat /\ Len(cq) \in Nat
  BY FS_CardinalityType DEF TypeOK, RingCount
<1>2. Len(sq) = 0 /\ Len(cq) = 0 /\ Cardinality(busy) = 0
  BY <1>1 DEF RingCount
<1> QED BY <1>1, <1>2, FS_EmptySet

\* What a step of such a session is: the first command may be sent, ...
Begins == /\ pc = "init" /\ pc' = "issue"
          /\ UNCHANGED <<call, todo, qid, info, cmd, drv, kdev, why, learned>>
\* ... a command is sent, ...
Sends == /\ pc = "issue" /\ pc' = "wait" /\ cmd' = Command(Head(todo))
         /\ busy' = {cmd'} /\ cq' = <<>>
         /\ UNCHANGED <<call, todo, qid, info, drv, kdev, why, learned>>
\* ... answered with r, ...
Handles(r) == /\ pc = "wait" /\ pc' = "wait" /\ cq = <<>> /\ busy' = {}
              /\ cq' # <<>> /\ Len(cq') = 1 /\ Head(cq').cmd = cmd /\ Head(cq').res = r
              /\ kdev' = CASE r = "ok" /\ cmd.op = "ADD_DEV" -> "privileged"
                           [] r = "ok" /\ cmd.op = "DEL_DEV" -> "none"
                           [] OTHER -> kdev
              /\ r = "ok" /\ cmd.op = "GET_DEV_INFO2" => Head(cq').flags = DriverFlags'
              /\ info' = IF r = "ok" /\ cmd.op \in {"ADD_DEV", "GET_DEV_INFO"} THEN DriverFlags' ELSE info
              /\ learned' = IF r = "ok" /\ cmd.op \in InfoOps THEN "yes" ELSE learned
              /\ UNCHANGED <<call, todo, qid, cmd, drv, why>>
\* ... the answer is fetched, ...
Receives == /\ pc = "wait" /\ cq # <<>> /\ pc' = "return" /\ cqe' = Head(cq)
            /\ UNCHANGED <<call, todo, qid, info, cmd, drv, kdev, why, learned>>
\* ... another process interferes, or nothing happens.
Waits == /\ UNCHANGED <<pc, call, todo, qid, info, cmd, cqe, busy, cq, drv, why>>
         /\ \/ UNCHANGED <<kdev, learned>>
            \/ /\ learned' # "yes" /\ (learned = "no" => learned' = "no")
               /\ kdev' = "unprivileged" => drv.info2
Stops == pc' \in {"deinit", "ended"} /\ drv' = drv /\ (kdev' = "unprivileged" => drv.info2)

LEMMA QuietStep ==
  ASSUME TypeOK, Programme, RingCount, OwnAnswer, ReasonHeard, [Next]_vars, slips' = 0
  PROVE  /\ slips = 0
         /\ \/ Begins \/ Sends \/ Receives \/ Waits \/ Stops
            \/ \E r \in Answers(cmd) : Handles(r)
            \/ return_cmd /\ cq' = <<>> /\ busy' = {}
<1>0. /\ slips \in Nat /\ sq \in Seq(Commands) /\ cq \in Seq(Cqes) /\ Len(sq) \in Nat
      /\ kdev = "unprivileged" => drv.info2
  BY DEF TypeOK, ReasonHeard
<1>1. CASE ublksrv_ctrl_init
  BY <1>0, <1>1 DEF ublksrv_ctrl_init, Begins, Stops
<1>2. CASE no_sqe
  <2>1. slips = 0 /\ pc = "issue" /\ Len(sq) = SqEntries
    BY <1>2 DEF no_sqe
  <2>2. Len(sq) = 0
    BY <2>1, EmptyRing
  <2> QED BY <2>1, <2>2
<1>3. CASE io_uring_submit
  <2>1. slips = 0 /\ pc = "issue"
    BY <1>3 DEF io_uring_submit
  <2>2. sq = <<>> /\ busy = {} /\ cq = <<>>
    BY <2>1, EmptyRing
  <2>3. {sq[i] : i \in 1 .. Len(sq)} = {}
    BY <2>2
  <2>4. busy' = {cmd'}
    BY <1>3, <2>2, <2>3 DEF io_uring_submit
  <2> QED BY <1>3, <2>1, <2>2, <2>4 DEF io_uring_submit, Sends
<1>4. CASE submit_fails \/ wait_fails
  BY <1>0, <1>4 DEF submit_fails, wait_fails
<1>5. CASE io_uring_wait_cqe
  BY <1>5 DEF io_uring_wait_cqe, Receives
<1>6. CASE wait_eintr
  BY <1>6 DEF wait_eintr, Waits
<1>7. CASE return_cmd
  <2>1. slips = 0 /\ pc = "return" /\ UNCHANGED <<busy, cq>>
    BY <1>7 DEF return_cmd
  <2> QED BY <1>7, <2>1, EmptyRing
<1>8. CASE ublksrv_ctrl_deinit
  BY <1>0, <1>8 DEF ublksrv_ctrl_deinit, Stops
<1>9. ASSUME NEW c \in busy, ublk_ctrl_uring_cmd(c)
      PROVE  slips = 0 /\ (Stops \/ \E r \in Answers(cmd) : Handles(r))
  <2>1. PICK r \in Answers(c), f \in Flags :
           /\ pc # "ended" /\ c \in busy /\ busy' = busy \ {c}
           /\ cq' = Append(cq, [cmd |-> c, res |-> r, flags |-> f])
           /\ kdev' = CASE r = "ok" /\ c.op = "ADD_DEV" -> "privileged"
                        [] r = "ok" /\ c.op = "DEL_DEV" -> "none"
                        [] OTHER -> kdev
           /\ r = "ok" /\ c.op = "GET_DEV_INFO2" => f = DriverFlags'
           /\ info' = IF r = "ok" /\ c.op \in {"ADD_DEV", "GET_DEV_INFO"} THEN DriverFlags' ELSE info
           /\ learned' = IF r = "ok" /\ c.op \in InfoOps THEN "yes" ELSE learned
           /\ UNCHANGED <<session, pc, call, todo, qid, cmd, cqe, fds, sq, drv, why, slips, signals>>
    BY <1>9, DriverStep
  <2>2. slips = 0 /\ pc \in {"wait", "deinit"}
    <3>1. slips = 0
      BY <2>1
    <3>2. pc \notin {"init", "issue", "return"}
      BY <1>9, <3>1, EmptyRing DEF RingCount
    <3> QED BY <2>1, <3>1, <3>2 DEF TypeOK
  <2>3. CASE pc = "deinit"
    BY <1>0, <2>1, <2>2, <2>3 DEF Stops
  <2>4. CASE pc = "wait"
    <3>1. cq = <<>> /\ c = cmd /\ busy = {cmd}
      BY <1>9, <2>2, <2>4 DEF OwnAnswer
    <3>2. busy' = {}
      BY <2>1, <3>1
    <3>3. cq' = <<[cmd |-> c, res |-> r, flags |-> f]>>
      BY <2>1, <3>1
    <3>4. \A e : <<e>> # <<>> /\ Len(<<e>>) = 1 /\ Head(<<e>>) = e
      OBVIOUS
    <3>5. /\ cq' # <<>> /\ Len(cq') = 1 /\ Head(cq').cmd = cmd /\ Head(cq').res = r
          /\ Head(cq').flags = f
      BY <3>1, <3>3, <3>4
    <3>6. Handles(r)
      BY <2>1, <2>4, <3>1, <3>2, <3>5 DEF Handles
    <3> QED BY <2>1, <2>2, <3>1, <3>6
  <2> QED BY <2>2, <2>3, <2>4
<1>10. CASE Other
  BY <1>10 DEF Other, Waits
<1>11. CASE daemon_fails
  BY <1>0, <1>11 DEF daemon_fails, Stops
<1>12. CASE UNCHANGED vars
  BY <1>12 DEF Waits
<1> QED BY <1>1, <1>2, <1>3, <1>4, <1>5, <1>6, <1>7, <1>8, <1>9, <1>10, <1>11, <1>12
        DEF Next, Client

LEMMA NextOwnAnswer ==
  ASSUME TypeOK, Programme, RingCount, OwnAnswer, ReasonHeard, [Next]_vars
  PROVE  OwnAnswer'
<1> SUFFICES ASSUME slips' = 0 PROVE OwnAnswer'
  BY DEF OwnAnswer
<1>0. slips = 0
  BY QuietStep
<1>1. CASE Begins \/ Stops
  BY <1>1 DEF Begins, Stops, OwnAnswer, Answered
<1>2. CASE Sends
  BY <1>2 DEF Sends, OwnAnswer, Answered, Command, HasPath
<1>3. CASE Receives
  BY <1>0, <1>3 DEF Receives, OwnAnswer, Answered, Answer
<1>4. CASE Waits
  BY <1>0, <1>4 DEF Waits, OwnAnswer, Answered, Answer, Command, HasPath
<1>5. ASSUME NEW r \in Answers(cmd), Handles(r) PROVE OwnAnswer'
  BY <1>5 DEF Handles, OwnAnswer, Answered, Answer
<1>6. CASE return_cmd /\ cq' = <<>> /\ busy' = {}
  <2>1. pc' \in {"issue", "ended", "deinit"}
    BY <1>6, ReturnStep DEF Retries, Proceeds, Finishes
  <2> QED BY <2>1 DEF OwnAnswer, Answered
<1> QED BY <1>1, <1>2, <1>3, <1>4, <1>5, <1>6, QuietStep

\* What the driver says to a command of a client that knows the device, ...
LEMMA KnownAnswers ==
  ASSUME TypeOK, ReasonHeard, info = DriverFlags, cmd.op \notin InfoOps,
         cmd.enc = Encoding(info), cmd.path = HasPath(cmd.op), NEW r \in Answers(cmd)
  PROVE  r \notin {"badop", "badpath"}
<1>1. cmd.enc \in drv.enc
  <2>1. drv.enc \subseteq {"ioctl", "legacy"} /\ drv.enc # {}
    BY DEF TypeOK, ReasonHeard, Encodings
  <2>2. info.ioctl <=> "ioctl" \in drv.enc
    BY DEF DriverFlags
  <2> QED BY <2>1, <2>2 DEF Encoding
<1>2. info.unprivileged <=> kdev = "unprivileged"
  BY DEF DriverFlags
<1>3. cmd.op \notin {"GET_DEV_INFO2", "ADD_DEV", "GET_DEV_INFO"}
  BY DEF InfoOps
<1>4. HasPath(cmd.op) <=> kdev = "unprivileged"
  BY <1>2, <1>3 DEF HasPath
<1>5. cmd.path = (kdev = "unprivileged" \/ cmd.op = "GET_DEV_INFO2")
  <2>1. cmd.path \in BOOLEAN
    BY DEF TypeOK, Commands
  <2>2. cmd.path <=> (kdev = "unprivileged" \/ cmd.op = "GET_DEV_INFO2")
    BY <1>3, <1>4
  <2> QED BY <2>1, <2>2
<1> QED BY <1>1, <1>3, <1>5 DEF Answers, Understands

\* ... and to the commands that ask for it, of a client that does not.
LEMMA FirstAnswers ==
  ASSUME TypeOK, ReasonHeard, cmd.op \in InfoOps, cmd.enc \in drv.enc,
         cmd.op = "GET_DEV_INFO2" => drv.info2, cmd.op = "GET_DEV_INFO" => ~drv.info2,
         cmd.path = HasPath(cmd.op), NEW r \in Answers(cmd)
  PROVE  r \in Reasons \cup {"ok"}
<1>1. CASE cmd.op = "ADD_DEV"
  <2>1. ~(cmd.enc \notin drv.enc \/ (cmd.op = "GET_DEV_INFO2" /\ ~drv.info2))
    BY <1>1
  <2>2. r \in {"ok", "fail", "exists"}
    BY <1>1, <2>1 DEF Answers, Understands
  <2> QED BY <2>2 DEF Reasons
<1>2. CASE cmd.op = "GET_DEV_INFO2"
  <2>1. cmd.path = TRUE
    BY <1>2 DEF HasPath
  <2>2. ~(cmd.path # (kdev = "unprivileged" \/ cmd.op = "GET_DEV_INFO2"))
    BY <1>2, <2>1
  <2>3. ~(cmd.enc \notin drv.enc \/ (cmd.op = "GET_DEV_INFO2" /\ ~drv.info2)) /\ cmd.op # "ADD_DEV"
    BY <1>2
  <2>4. r \in {"nodev", "ok"}
    BY <1>2, <2>2, <2>3 DEF Answers, Understands
  <2> QED BY <2>4 DEF Reasons
<1>3. CASE cmd.op = "GET_DEV_INFO"
  <2>1. cmd.path = FALSE /\ kdev # "unprivileged"
    BY <1>3 DEF HasPath, ReasonHeard
  <2>2. cmd.path = (kdev = "unprivileged" \/ cmd.op = "GET_DEV_INFO2")
    BY <1>3, <2>1
  <2> QED BY <1>3, <2>2 DEF Answers, Understands, Reasons
<1> QED BY <1>1, <1>2, <1>3 DEF InfoOps

LEMMA NextFlagsKnown ==
  ASSUME TypeOK, Programme, NoRepeat, RingCount, OwnAnswer, FlagsKnown, ReasonHeard, [Next]_vars
  PROVE  FlagsKnown'
<1> SUFFICES ASSUME slips' = 0 PROVE FlagsKnown'
  BY DEF FlagsKnown
<1>0. slips = 0 /\ call \in Calls
  BY QuietStep DEF TypeOK
<1>1. CASE Begins
  BY <1>0, <1>1 DEF Begins, FlagsKnown, Pending, Answered, DriverFlags
<1>2. CASE Sends
  BY <1>0, <1>2 DEF Sends, FlagsKnown, Pending, Answered, DriverFlags
<1>3. CASE Receives
  BY <1>0, <1>3 DEF Receives, FlagsKnown, Pending, Answered, Answer, DriverFlags
<1>4. CASE Waits
  BY <1>0, <1>4 DEF Waits, FlagsKnown, Pending, Answered, Answer, DriverFlags
<1>5. CASE Stops
  BY <1>5 DEF Stops, FlagsKnown, Pending, Answered
<1>6. ASSUME NEW r \in Answers(cmd), Handles(r) PROVE FlagsKnown'
  <2>1. /\ cmd = Command(Head(todo)) /\ Head(todo) \in Tries /\ cmd.op = Head(todo).op
        /\ cmd.enc = Head(todo).enc /\ cmd.path = HasPath(cmd.op) /\ Pending
    BY <1>0, <1>6, TodoShape, CommandType DEF Handles, OwnAnswer, Pending
  <2>2. /\ Answered' /\ ~Pending' /\ Answer'.res = r /\ cmd' = cmd
        /\ r = "ok" /\ cmd.op = "GET_DEV_INFO2" => Answer'.flags = DriverFlags'
    BY <1>6 DEF Handles, Answered, Pending, Answer
  <2>3. CASE cmd.op \in InfoOps
    <3>1. learned = "no" /\ info = NoFlags
      BY <1>0, <2>1, <2>3 DEF FlagsKnown
    <3>2. r # "ok" => learned' = "no" /\ info' = NoFlags
      BY <1>6, <3>1 DEF Handles
    <3>3. r = "ok" /\ cmd.op # "GET_DEV_INFO2" => info' = DriverFlags'
      BY <1>6, <2>3 DEF Handles, InfoOps
    <3> QED BY <2>2, <2>3, <3>2, <3>3 DEF FlagsKnown
  <2>4. CASE cmd.op \notin InfoOps
    <3>1. learned' = learned /\ info' = info
      BY <1>6, <2>4 DEF Handles, InfoOps
    <3>2. ASSUME learned = "yes" PROVE info = DriverFlags /\ r \notin {"badop", "badpath"}
      <4>1. info = DriverFlags /\ cmd.enc = Encoding(info)
        BY <1>0, <2>1, <2>4, <3>2 DEF FlagsKnown
      <4> QED BY <2>1, <2>4, <4>1, KnownAnswers
    <3>3. cmd.op # "DEL_DEV" => DriverFlags' = DriverFlags
      <4>1. cmd.op # "DEL_DEV" => kdev' = kdev /\ drv' = drv
        BY <1>6, <2>4 DEF Handles, InfoOps
      <4> QED BY <4>1 DEF DriverFlags
    <3> QED BY <2>2, <2>4, <3>1, <3>2, <3>3 DEF FlagsKnown
  <2> QED BY <2>3, <2>4
<1>7. CASE return_cmd /\ cq' = <<>> /\ busy' = {}
  <2>1. /\ pc = "return" /\ Answered /\ Answer = cqe /\ cqe.cmd = cmd /\ cmd.op = Head(todo).op
        /\ DriverFlags' = DriverFlags /\ learned' = learned
    BY <1>0, <1>7, ReturnStep DEF OwnAnswer, NoRepeat, Answered, Answer, DriverFlags
  <2>2. CASE Retries
    <3>1. /\ pc' = "issue" /\ cqe.res # "ok" /\ info' = info /\ todo' = Rest /\ Rest # <<>>
      BY <1>7, <2>2, ReturnStep DEF Retries
    <3>2. call \in {"add_dev", "get_info"} /\ Head(Rest).op \in InfoOps
      <4>1. /\ call \in {"add_dev", "get_info"}
            /\ \E op \in InfoOps : Head(Rest) = Try(op, "ioctl") \/ Head(Rest) = Try(op, "legacy")
        BY <1>0, <3>1, NextTry, Pair, InfoTries DEF InfoOps, Ops
      <4> QED BY <4>1, TryFields
    <3>3. cmd.op \in InfoOps
      BY <1>0, <2>1, <3>2, TodoShape DEF InfoOps
    <3>4. learned = "no" /\ info = NoFlags
      BY <1>0, <2>1, <3>1, <3>3 DEF FlagsKnown
    <3> QED BY <2>1, <3>1, <3>2, <3>4 DEF FlagsKnown, Answered, Pending
  <2>3. CASE Proceeds
    <3>1. /\ pc' = "issue" /\ call' = Then(cqe.res = "ok") /\ call' \in OneCalls
          /\ Head(todo') = Try(OneOp(call'), Encoding(info')) /\ OneOp(call') \notin InfoOps
      BY <2>3, OneTry DEF Proceeds
    <3>2. Head(todo').op \notin InfoOps /\ Head(todo').enc = Encoding(info')
      BY <3>1, TryFields
    <3>3. cmd.op # "DEL_DEV"
      <4>1. call # "del_dev"
        BY <1>0, <3>1, NextCall DEF OneCalls, Calls, TypeOK
      <4> QED BY <1>0, <2>1, <4>1, TodoShape DEF OneOp, Calls
    <3>4. ASSUME learned = "yes" PROVE info' = DriverFlags
      <4>1. CASE cmd.op \notin InfoOps
        <5>1. info' = info
          BY <1>7, <4>1, ReturnStep DEF InfoOps
        <5> QED BY <1>0, <2>1, <3>3, <3>4, <4>1, <5>1 DEF FlagsKnown
      <4>2. CASE cmd.op \in InfoOps
        <5>1. cqe.res = "ok"
          BY <1>0, <2>1, <3>4, <4>2 DEF FlagsKnown
        <5>2. info' = IF cmd.op = "GET_DEV_INFO2" THEN cqe.flags ELSE info
          BY <1>7, <2>1, <5>1, ReturnStep
        <5> QED BY <1>0, <2>1, <3>4, <4>2, <5>1, <5>2 DEF FlagsKnown
      <4> QED BY <4>1, <4>2
    <3>5. ~Answered'
      BY <3>1 DEF Answered
    <3>6. learned' = "yes" => info' = DriverFlags'
      BY <2>1, <3>4
    <3> QED BY <3>2, <3>5, <3>6 DEF FlagsKnown
  <2>4. CASE Finishes
    BY <2>4 DEF Finishes, FlagsKnown, Answered, Pending
  <2> QED BY <1>7, <2>2, <2>3, <2>4, ReturnStep
<1> QED BY <1>1, <1>2, <1>3, <1>4, <1>5, <1>6, <1>7, QuietStep

\* The attempts that are made only after others.
Later == {Legacy("ADD_DEV"), Info3, Info2, Info1}

LEMMA LaterHeads ==
  ASSUME NEW s \in Later PROVE Head(s).op \in InfoOps
<1>1. CASE s = Legacy("ADD_DEV")
  BY <1>1, Pair, TryFields DEF Ops, InfoOps
<1>2. CASE s = Info3 \/ s = Info2 \/ s = Info1
  BY <1>2, InfoTries, TryFields DEF InfoOps
<1> QED BY <1>1, <1>2 DEF Later

\* Whether the attempts already made must have brought a reason.
Owed(s) == \/ s = Legacy("ADD_DEV") /\ "ioctl" \in drv.enc
           \/ s = Info3 /\ "ioctl" \in drv.enc /\ drv.info2
           \/ s = Info2 /\ drv.info2
           \/ s = Info1 /\ (drv.info2 \/ "ioctl" \in drv.enc)

LEMMA ReasonOwed ==
  ASSUME ReasonHeard, slips = 0, Pending \/ Answered, Owed(todo)
  PROVE  why \cap Reasons # {}
BY DEF ReasonHeard, Owed, Info3, Info2, Info1

\* An attempt that fails brings its reason, or the ones before it have.
LEMMA RetryKeepsReason ==
  ASSUME TypeOK, Programme, NoRepeat, OwnAnswer, ReasonHeard, slips = 0, pc = "return",
         Retries, Owed(Rest)
  PROVE  why' \cap Reasons # {}
<1>0. /\ call \in Calls /\ cqe.res # "ok" /\ Rest # <<>> /\ why' = why \cup {cqe.res}
      /\ Answered /\ Answer = cqe /\ cmd.op = Head(todo).op /\ cmd.enc = Head(todo).enc
      /\ drv.enc \subseteq {"ioctl", "legacy"} /\ drv.enc # {}
  BY DEF TypeOK, Encodings, Retries, Answered, Answer, NoRepeat, ReasonHeard
<1>1. ASSUME NEW op \in InfoOps, NEW e \in drv.enc, Head(todo) = Try(op, e),
             op = "GET_DEV_INFO2" => drv.info2, op = "GET_DEV_INFO" => ~drv.info2
      PROVE  why' \cap Reasons # {}
  <2>1. cmd.op = op /\ cmd.enc = e
    BY <1>0, <1>1, TryFields
  <2>2. cqe.res \in Reasons
    BY <1>0, <1>1, <2>1 DEF ReasonHeard
  <2> QED BY <1>0, <2>2
<1>2. ASSUME Owed(todo) PROVE why' \cap Reasons # {}
  BY <1>0, <1>2, ReasonOwed
<1>3. CASE todo = Both("ADD_DEV") /\ Rest = Legacy("ADD_DEV")
  <2>1. Head(todo) = Try("ADD_DEV", "ioctl") /\ Head(Rest) = Try("ADD_DEV", "legacy")
    BY <1>3, Pair DEF Ops
  <2>2. Head(Rest).op = "ADD_DEV" /\ Head(Info3).op # "ADD_DEV" /\ Head(Info2).op # "ADD_DEV"
        /\ Head(Info1).op # "ADD_DEV"
    BY <2>1, InfoTries, TryFields
  <2>3. "ioctl" \in drv.enc
    BY <2>2 DEF Owed
  <2> QED BY <1>1, <2>1, <2>3 DEF InfoOps
<1>4. /\ Head(Legacy("ADD_DEV")).op = "ADD_DEV" /\ Head(Info3).op # "ADD_DEV"
      /\ Head(Info2).op # "ADD_DEV" /\ Head(Info1).op # "ADD_DEV"
      /\ Len(Info1) = 1 /\ Len(Info2) = 2 /\ Len(Info3) = 3
  BY Pair, InfoTries, TryFields DEF Ops
<1>5. CASE todo = Info4 /\ Rest = Info3
  <2>1. "ioctl" \in drv.enc /\ drv.info2
    BY <1>4, <1>5 DEF Owed
  <2>2. Head(todo) = Try("GET_DEV_INFO2", "ioctl")
    BY <1>5, InfoTries
  <2> QED BY <1>1, <2>1, <2>2 DEF InfoOps
<1>6. CASE todo = Info3 /\ Rest = Info2
  <2>1. drv.info2
    BY <1>4, <1>6 DEF Owed
  <2>2. Head(todo) = Try("GET_DEV_INFO2", "legacy")
    BY <1>6, InfoTries
  <2>3. CASE "ioctl" \in drv.enc
    BY <1>2, <1>6, <2>1, <2>3 DEF Owed
  <2>4. CASE "ioctl" \notin drv.enc
    <3>1. "legacy" \in drv.enc
      BY <1>0, <2>4
    <3> QED BY <1>1, <2>1, <2>2, <3>1 DEF InfoOps
  <2> QED BY <2>3, <2>4
<1>7. CASE todo = Info2 /\ Rest = Info1
  <2>1. drv.info2 \/ "ioctl" \in drv.enc
    BY <1>4, <1>7 DEF Owed
  <2>2. Head(todo) = Try("GET_DEV_INFO", "ioctl")
    BY <1>7, InfoTries
  <2>3. CASE drv.info2
    BY <1>2, <1>7, <2>3 DEF Owed
  <2>4. CASE ~drv.info2
    BY <1>1, <2>1, <2>2, <2>4 DEF InfoOps
  <2> QED BY <2>3, <2>4
<1>8. \/ todo = Both("ADD_DEV") /\ Rest = Legacy("ADD_DEV")
      \/ todo = Info4 /\ Rest = Info3
      \/ todo = Info3 /\ Rest = Info2
      \/ todo = Info2 /\ Rest = Info1
  BY <1>0, NextTry
<1> QED BY <1>3, <1>5, <1>6, <1>7, <1>8

LEMMA NextReasonHeard ==
  ASSUME TypeOK, Programme, NoRepeat, RingCount, OwnAnswer, FlagsKnown, ReasonHeard, [Next]_vars
  PROVE  ReasonHeard'
<1>1. drv' = drv /\ (kdev' = "unprivileged" => drv.info2)
  <2>0. kdev = "unprivileged" => drv.info2
    BY DEF ReasonHeard
  <2>1. ASSUME NEW c \in busy, ublk_ctrl_uring_cmd(c)
        PROVE  drv' = drv /\ kdev' \in {"privileged", "none", kdev}
    BY <2>1, DriverStep
  <2> QED BY <2>0, <2>1 DEF Next, Client, ublksrv_ctrl_init, no_sqe, io_uring_submit, submit_fails,
       io_uring_wait_cqe, wait_eintr, wait_fails, return_cmd, ublksrv_ctrl_deinit, daemon_fails, Other
<1>2. ASSUME slips' = 0, Answered', (cmd.op \in InfoOps)', (cmd.enc \in drv.enc)',
             (cmd.op = "GET_DEV_INFO2" => drv.info2)', (cmd.op = "GET_DEV_INFO" => ~drv.info2)'
      PROVE  Answer'.res \in Reasons \cup {"ok"}
  <2>0. slips = 0
    BY <1>2, QuietStep
  <2>1. CASE Begins \/ Sends \/ Stops
    BY <1>2, <2>1 DEF Begins, Sends, Stops, Answered
  <2>2. CASE Receives \/ Waits
    <3>1. Answered /\ Answer' = Answer /\ UNCHANGED <<cmd, drv>>
      BY <1>2, <2>2 DEF Receives, Waits, Answered, Answer
    <3> QED BY <1>2, <2>0, <3>1 DEF ReasonHeard
  <2>3. ASSUME NEW r \in Answers(cmd), Handles(r) PROVE Answer'.res \in Reasons \cup {"ok"}
    <3>1. cmd' = cmd /\ drv' = drv /\ Answer'.res = r
      BY <2>3 DEF Handles, Answer
    <3>2. cmd.path = HasPath(cmd.op)
      BY <2>0, <2>3, TodoShape, CommandType DEF Handles, OwnAnswer, TypeOK
    <3> QED BY <1>2, <3>1, <3>2, FirstAnswers
  <2>4. CASE return_cmd
    BY <1>2, <2>4, ReturnStep DEF Retries, Proceeds, Finishes, Answered
  <2> QED BY <1>2, <2>1, <2>2, <2>3, <2>4, QuietStep
<1>3. ASSUME slips' = 0, (Pending \/ Answered)', Owed(todo)' PROVE (why \cap Reasons # {})'
  <2>0. slips = 0
    BY <1>3, QuietStep
  <2>1. CASE Begins \/ Sends \/ Receives \/ Waits \/ \E r \in Answers(cmd) : Handles(r)
    <3>1. Pending \/ Answered
      BY <1>3, <2>1 DEF Begins, Sends, Receives, Waits, Handles, Pending, Answered
    <3>2. UNCHANGED <<todo, why>>
      BY <2>1 DEF Begins, Sends, Receives, Waits, Handles
    <3>3. Owed(todo)
      BY <1>1, <1>3, <3>2 DEF Owed
    <3> QED BY <2>0, <3>1, <3>2, <3>3, ReasonOwed
  <2>2. CASE Stops
    BY <1>3, <2>2 DEF Stops, Pending, Answered
  <2>3. CASE return_cmd
    <3>1. CASE Retries
      <4>1. pc = "return" /\ Owed(Rest)
        BY <1>1, <1>3, <2>3, <3>1, ReturnStep DEF Retries, Owed
      <4> QED BY <2>0, <3>1, <4>1, RetryKeepsReason
    <3>2. CASE Proceeds
      <4>1. Head(todo').op \notin InfoOps
        BY <3>2, OneTry, TryFields DEF Proceeds
      <4>2. todo' \in Later
        BY <1>3 DEF Owed, Later
      <4> QED BY <4>1, <4>2, LaterHeads
    <3>3. CASE Finishes
      BY <1>3, <3>3 DEF Finishes, Pending, Answered
    <3> QED BY <2>3, <3>1, <3>2, <3>3, ReturnStep
  <2> QED BY <1>3, <2>1, <2>2, <2>3, QuietStep
<1>4. drv'.enc # {}
  BY <1>1 DEF ReasonHeard
<1> QED BY <1>1, <1>2, <1>3, <1>4 DEF ReasonHeard, Owed, Info3, Info2, Info1

----------------------------------------------------------------------------
(* The theorems *)

LEMMA InitInv == Init => ClientInv
<1> SUFFICES ASSUME Init PROVE ClientInv
  OBVIOUS
<1>0. /\ session \in {"serve", "del", "info"} /\ pc = "init" /\ call = First(session)
      /\ todo = Attempts(First(session), NoFlags) /\ qid = 0 /\ info = NoFlags
      /\ cmd = NoCommand /\ cqe = Errno(NoCommand) /\ fds = {} /\ sq = <<>> /\ busy = {}
      /\ cq = <<>> /\ why = {} /\ learned = "no" /\ slips = 0 /\ signals = 0
      /\ drv \in [enc : SUBSET Encodings, info2 : BOOLEAN] /\ drv.enc # {}
      /\ kdev \in {"none", "privileged", "unprivileged"} /\ (kdev = "unprivileged" => drv.info2)
  BY DEF Init
<1>1. \/ session = "serve" /\ call = "add_dev" /\ todo = Both("ADD_DEV")
      \/ session \in {"del", "info"} /\ call = "get_info" /\ todo = Info4
  BY <1>0, FirstTries DEF First
<1>2. Programme
  BY <1>0, <1>1 DEF Programme, InfoTodo, Info4
<1>3. call \in Calls
  BY <1>1 DEF Calls
<1>4. todo \in Seq(Tries) /\ Head(todo).op \in InfoOps
  BY <1>1, <1>2, <1>3, TodoShape DEF InfoOps
<1>5. TypeOK
  <2>1. <<>> \in Seq(Commands) /\ <<>> \in Seq(Cqes) /\ Len(<<>>) = 0
    OBVIOUS
  <2>2. ClientType
    BY <1>0, <1>3, <1>4, ErrnoType, FlagsType DEF ClientType
  <2>3. RingType
    BY <1>0, <2>1 DEF RingType
  <2>4. WorldType
    BY <1>0 DEF WorldType
  <2> QED BY <2>2, <2>3, <2>4, TypeParts
<1>6. NoRepeat
  <2>1. Range(sq) = {} /\ Len(sq) = 0
    BY <1>0, EmptyRange
  <2> QED BY <1>0, <2>1 DEF NoRepeat, Active
<1>7. RingCount
  <2>1. IsFiniteSet(busy)
    BY <1>0, FS_EmptySet, Zenon
  <2> QED BY <1>0, <2>1 DEF RingCount
<1>8. OwnAnswer /\ FlagsKnown
  BY <1>0, <1>4 DEF OwnAnswer, FlagsKnown, Pending, Answered
<1>9. ReasonHeard
  <2>1. ~Owed(todo)
    <3>1. /\ Len(Both("ADD_DEV")) = 2 /\ Len(Legacy("ADD_DEV")) = 1
          /\ Head(Both("ADD_DEV")).op = "ADD_DEV"
      BY Pair, TryFields DEF Ops
    <3>2. /\ Len(Info4) = 4 /\ Len(Info3) = 3 /\ Len(Info2) = 2 /\ Len(Info1) = 1
          /\ Head(Info2).op = "GET_DEV_INFO"
      BY InfoTries, TryFields
    <3> QED BY <1>1, <3>1, <3>2 DEF Owed
  <2> QED BY <1>0, <2>1 DEF ReasonHeard, Answered, Owed, Info3, Info2, Info1
<1> QED BY <1>2, <1>5, <1>6, <1>7, <1>8, <1>9 DEF ClientInv

LEMMA NextInv == ClientInv /\ [Next]_vars => ClientInv'
BY NextTypeOK, NextProgramme, NextNoRepeat, NextRingCount, NextOwnAnswer, NextFlagsKnown,
   NextReasonHeard DEF ClientInv

\* ClientInv always holds: a session sends its commands in their order, none of
\* them twice, the ring holds exactly what was given up and what is waited
\* for, and a session without a failed submit or wait knows of the device what
\* the driver has told it and nothing else.
THEOREM ControlCorrect == Spec => []ClientInv
<1>1. Init => ClientInv
  BY InitInv
<1>2. ClientInv /\ [Next]_vars => ClientInv'
  BY NextInv
<1> QED BY <1>1, <1>2, PTL DEF Spec

\* No part leaves its type: in particular ublksrv_ctrl_get_affinity never asks
\* for a queue that does not exist, for any number of queues.
THEOREM ControlTypes == Spec => []TypeOK
<1>1. ClientInv => TypeOK
  BY DEF ClientInv
<1> QED BY <1>1, ControlCorrect, PTL

\* A function returns the result of the command it has just sent, whatever
\* signals came in between, and every failed submit or wait leaves exactly one
\* command behind, for any number of queues and slots.
THEOREM ResultsMatched == Spec => []OwnResult
<1>1. ClientInv => OwnResult
  <2> SUFFICES ASSUME ClientInv PROVE OwnResult
    OBVIOUS
  <2>1. slips = 0 /\ pc = "return" => cqe.cmd = cmd
    BY DEF ClientInv, OwnAnswer, Answered, Answer
  <2> QED BY <2>1 DEF ClientInv, RingCount, OwnResult
<1> QED BY <1>1, ControlCorrect, PTL

\* Once the client has the flags of the device, no command of it is turned down
\* for its encoding or its path, whatever the driver and whoever made the device.
THEOREM EncodingChosen == Spec => []EncodingRight
<1>1. ClientInv => EncodingRight
  BY DEF ClientInv, FlagsKnown, EncodingRight, Answered, Answer, InfoOps
<1> QED BY <1>1, ControlCorrect, PTL

\* ADD_DEV and GET_DEV_INFO fail only for a reason the driver has with the
\* device, whatever commands and encodings it understands.
THEOREM FallbackComplete == Spec => []FallbackReachesDriver
<1>1. ASSUME ClientInv, slips = 0, pc = "return", call \in {"add_dev", "get_info"},
             cqe.res # "ok", Rest = <<>>
      PROVE  (why \cup {cqe.res}) \cap {"nodev", "exists", "fail"} # {}
  <2>0. /\ TypeOK /\ Programme /\ NoRepeat /\ OwnAnswer /\ FlagsKnown /\ ReasonHeard
        /\ call \in Calls /\ drv.enc \subseteq {"ioctl", "legacy"} /\ drv.enc # {}
    BY <1>1 DEF ClientInv, TypeOK, ReasonHeard, Encodings
  <2>1. Answered /\ Answer = cqe /\ cmd.op = Head(todo).op /\ cmd.enc = Head(todo).enc
    BY <1>1, <2>0 DEF Answered, Answer, NoRepeat
  <2>2. cmd.op \in InfoOps
    BY <1>1, <2>0, <2>1, TodoShape DEF InfoOps
  <2>3. info = NoFlags /\ ~info.unprivileged
    BY <1>1, <2>0, <2>1, <2>2 DEF FlagsKnown, NoFlags
  <2>4. todo = Legacy("ADD_DEV") \/ todo = Info1
    BY <1>1, <2>0, <2>3, LastTry
  <2>5. cmd.enc = "legacy" /\ (todo = Legacy("ADD_DEV") => cmd.op = "ADD_DEV")
        /\ (todo = Info1 => cmd.op = "GET_DEV_INFO")
    BY <2>1, <2>4, Pair, InfoTries, TryFields DEF Ops
  <2>6. CASE Owed(todo)
    BY <1>1, <2>0, <2>1, <2>6, ReasonOwed DEF Reasons
  <2>7. CASE ~Owed(todo)
    <3>1. "ioctl" \notin drv.enc /\ (todo = Info1 => ~drv.info2)
      BY <2>4, <2>7 DEF Owed
    <3>2. cmd.enc \in drv.enc
      BY <2>0, <2>5, <3>1
    <3>3. cmd.op \in {"ADD_DEV", "GET_DEV_INFO"} /\ (cmd.op = "GET_DEV_INFO" => ~drv.info2)
      BY <2>4, <2>5, <3>1
    <3>4. cqe.res \in Reasons
      BY <1>1, <2>0, <2>1, <2>2, <3>2, <3>3 DEF ReasonHeard
    <3> QED BY <3>4 DEF Reasons
  <2> QED BY <2>6, <2>7
<1>2. ClientInv => FallbackReachesDriver
  BY <1>1 DEF FallbackReachesDriver
<1> QED BY <1>2, ControlCorrect, PTL

\* A deletion or a query that has sent a command has closed both descriptors
\* when it ends.
THEOREM DescriptorsClosed == Spec => []FdsReleased
<1> DEFINE I == ClientInv /\ FdsReleased
<1>1. Init => I
  BY InitInv DEF Init, FdsReleased
<1>2. I /\ [Next]_vars => I'
  <2> SUFFICES ASSUME ClientInv, FdsReleased, [Next]_vars PROVE FdsReleased'
    BY NextInv
  <2>1. CASE ublksrv_ctrl_init
    BY <2>1 DEF ublksrv_ctrl_init, ClientInv, Programme, FdsReleased
  <2>2. CASE return_cmd
    <3>1. pc' = "ended" => session' = "serve"
      BY <2>2, ReturnStep DEF ClientInv, Retries, Proceeds, Finishes
    <3> QED BY <3>1 DEF FdsReleased
  <2>3. CASE ublksrv_ctrl_deinit
    BY <2>3 DEF ublksrv_ctrl_deinit, FdsReleased
  <2>4. ASSUME NEW c \in busy, ublk_ctrl_uring_cmd(c) PROVE FdsReleased'
    BY <2>4 DEF ublk_ctrl_uring_cmd, FdsReleased
  <2>5. CASE \/ no_sqe \/ io_uring_submit \/ submit_fails \/ io_uring_wait_cqe
             \/ wait_eintr \/ wait_fails \/ daemon_fails \/ Other \/ UNCHANGED vars
    BY <2>5 DEF no_sqe, io_uring_submit, submit_fails, io_uring_wait_cqe, wait_eintr,
       wait_fails, daemon_fails, Other, FdsReleased
  <2> QED BY <2>1, <2>2, <2>3, <2>4, <2>5 DEF Next, Client
<1>3. I => FdsReleased
  OBVIOUS
<1> QED BY <1>1, <1>2, <1>3, PTL DEF Spec

=============================================================================
