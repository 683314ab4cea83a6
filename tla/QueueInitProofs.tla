--------------------------- MODULE QueueInitProofs ---------------------------
(***************************************************************************)
(* Theorems about QueueInit: whatever an application asks for, for every   *)
(* page size, number of processors and content of fresh memory, a queue    *)
(* is built from its own descriptors with a slot and a fetch command for   *)
(* each tag, and its requests reach their handler with their own length    *)
(* and place.                                                              *)
(***************************************************************************)
EXTENDS QueueInit, TLAPS

USE DEF vars, configVars, queueVars, requestVars

----------------------------------------------------------------------------
(* Arithmetic *)

\* The limits of the code, for the leaves that do not need their definitions.
LEMMA Limits == /\ USHRT_MAX \in Nat /\ UBLK_MAX_QUEUE_DEPTH \in Nat /\ MAX_NR_HW_QUEUES \in Nat
                /\ UBLK_MAX_QUEUE_DEPTH <= USHRT_MAX
                /\ 1 <= MAX_NR_HW_QUEUES /\ MAX_NR_HW_QUEUES <= USHRT_MAX
BY SMT DEF USHRT_MAX, UBLK_MAX_QUEUE_DEPTH, MAX_NR_HW_QUEUES

\* round_up covers what it is given, and not by as much as another page.
LEMMA RoundUp ==
  ASSUME NEW n \in Nat, NEW p \in Nat \ {0}
  PROVE  /\ round_up(n, p) \in Nat
         /\ n <= round_up(n, p)
         /\ round_up(n, p) < n + p
<1> DEFINE k == (n + p - 1) \div p
           r == (n + p - 1) % p
<1>1. k \in Int /\ r \in 0 .. p - 1 /\ n + p - 1 = p * k + r
  OBVIOUS
<1>2. p * k = k * p /\ k * p \in Int
  BY <1>1
<1>3. round_up(n, p) = k * p
  BY DEF round_up
<1> HIDE DEF k, r
<1>4. n <= k * p /\ k * p < n + p
  BY <1>1, <1>2
<1> QED BY <1>2, <1>3, <1>4

\* A multiple of m contains m as often as it says.
LEMMA Multiple ==
  ASSUME NEW q \in Nat, NEW m \in Nat \ {0}
  PROVE  (q * m) \div m = q
<1> DEFINE x == q * m
           k == x \div m
           r == x % m
<1>1. x \in Int
  OBVIOUS
<1> HIDE DEF x
<1>2. k \in Int /\ r \in 0 .. m - 1 /\ x = m * k + r
  BY <1>1
<1> HIDE DEF k, r
<1>3. m * (q - k) = r
  BY <1>2 DEF x
<1>4. ~(q - k >= 1)
  <2> SUFFICES ASSUME q - k >= 1 PROVE FALSE
    OBVIOUS
  <2>1. m * (q - k) >= m
    BY <1>2
  <2> QED BY <1>2, <1>3, <2>1
<1>5. ~(q - k <= -1)
  <2> SUFFICES ASSUME q - k <= -1 PROVE FALSE
    OBVIOUS
  <2>1. m * (q - k) <= -m
    BY <1>2
  <2> QED BY <1>2, <1>3, <2>1
<1>6. k = q
  BY <1>2, <1>4, <1>5
<1> QED BY <1>6 DEF k, x

\* The driver finds a queue by the offset that the queue maps.
LEMMA OffsetNamesQueue ==
  ASSUME NEW q \in Nat, NEW depth, NEW p \in Nat \ {0}
  PROVE  cmd_buf_off(q, depth, p) \div queue_max_cmd_buf_sz(p) = q
<1>1. queue_max_cmd_buf_sz(p) \in Nat \ {0}
  <2> DEFINE n == UBLK_MAX_QUEUE_DEPTH * iod_size
  <2>1. n \in Nat /\ n > 0
    BY SMT DEF UBLK_MAX_QUEUE_DEPTH, iod_size
  <2>2. queue_max_cmd_buf_sz(p) = round_up(n, p)
    BY SMT DEF queue_max_cmd_buf_sz
  <2> HIDE DEF n
  <2>3. round_up(n, p) \in Nat /\ n <= round_up(n, p)
    BY <2>1, RoundUp, SMT
  <2> QED BY <2>1, <2>2, <2>3, SMT
<1> QED BY <1>1, Multiple DEF cmd_buf_off

\* io_uring gives a ring that is large enough for each depth the driver takes.
LEMMA RingLarge ==
  ASSUME NEW n \in 1 .. UBLK_MAX_QUEUE_DEPTH
  PROVE  RingEntries(n) \in n .. UBLK_MAX_QUEUE_DEPTH
<1> DEFINE Fits(e) == e >= n /\ \A f \in RingSizes : f >= n => f >= e
<1>1. n \in Nat /\ n <= UBLK_MAX_QUEUE_DEPTH
  BY Limits, SMT
<1>2. n <= 4096
  BY <1>1, SMT DEF UBLK_MAX_QUEUE_DEPTH
<1>3. \E e \in RingSizes : Fits(e)
  BY <1>1, <1>2, SMT DEF RingSizes
<1>4. RingEntries(n) \in RingSizes /\ RingEntries(n) >= n
  BY <1>3 DEF RingEntries
<1>5. \A e \in RingSizes : e \in Nat /\ e <= UBLK_MAX_QUEUE_DEPTH
  BY SMT DEF RingSizes, UBLK_MAX_QUEUE_DEPTH
<1> QED BY <1>1, <1>4, <1>5, Limits, SMT

\* The user_data of a fetch command names its tag and its operation.
LEMMA UserData ==
  ASSUME NEW t \in 0 .. UBLK_MAX_QUEUE_DEPTH - 1
  PROVE  /\ build_user_data(t, FETCH_REQ) \in Nat
         /\ user_data_to_tag(build_user_data(t, FETCH_REQ)) = t
         /\ user_data_to_op(build_user_data(t, FETCH_REQ)) = FETCH_REQ
<1>1. t \in Nat /\ t < UBLK_MAX_QUEUE_DEPTH
  BY Limits, SMT
<1>2. t < 4096
  BY <1>1, SMT DEF UBLK_MAX_QUEUE_DEPTH
<1> QED BY <1>1, <1>2, SMT DEF build_user_data, user_data_to_tag, user_data_to_op, FETCH_REQ

----------------------------------------------------------------------------
(* The invariant *)

USE DEF None, PthreadStates

\* What startupC converts is an unsigned short.
LEMMA Converted ==
  ASSUME NEW n \in Int
  PROVE  nr_hw_queues(n) \in 0 .. USHRT_MAX /\ queue_depth(n) \in 0 .. USHRT_MAX
BY Limits, SMT DEF nr_hw_queues, queue_depth, ushort, DEF_NR_HW_QUEUES, DEF_QD

LEMMA BuildInit ==
  ASSUME Init
  PROVE  BuildInv
<1>1. TypeOK
  <2>1. info \in [nr_hw_queues : 0 .. USHRT_MAX, queue_depth : 0 .. USHRT_MAX]
    BY Limits, SMT DEF Init
  <2>2. flags \in Seq(SUBSET {"NEED_FETCH", "FREE"}) /\ sq \in Seq(Nat) /\ Len(sq) = 0
    BY SMT DEF Init, Unmalloced
  <2>3. lacking \in BOOLEAN /\ asked \in Asked
    BY DEF Init
  <2> QED BY <2>1, <2>2, <2>3, Limits, SMT DEF Init, Unmalloced, TypeOK
<1>2. Agreed /\ Filled /\ Excused
  BY Limits, SMT DEF Init, Unmalloced, Agreed, Filled, Excused
<1> QED BY <1>1, <1>2 DEF BuildInv

\* Numbers the driver has not taken make no queue thread.
LEMMA StartBuilds ==
  ASSUME BuildInv, startupC
  PROVE  BuildInv'
<1> DEFINE i == [nr_hw_queues |-> nr_hw_queues(asked.queues),
                 queue_depth |-> queue_depth(asked.depth)]
<1>1. /\ pc = "start"
      /\ UNCHANGED <<lacking, asked, page, cpus, queueVars, requestVars>>
  BY DEF startupC
<1>2. asked.queues \in Int /\ asked.depth \in Int
  BY AskedAssumption DEF BuildInv, TypeOK
<1>3. i.nr_hw_queues \in 0 .. USHRT_MAX /\ i.queue_depth \in 0 .. USHRT_MAX
  BY <1>2, Converted
<1>4. i \in [nr_hw_queues : 0 .. USHRT_MAX, queue_depth : 0 .. USHRT_MAX]
  BY <1>3
<1>5. CASE Accepted(i) /\ info' = Granted(i) /\ pc' = "malloc" /\ q_id' \in Qids(info'.nr_hw_queues)
  <2>0. cpus \in Nat \ {0}
    BY CpusAssumption DEF BuildInv, TypeOK
  <2>1. /\ info' \in [nr_hw_queues : 0 .. USHRT_MAX, queue_depth : 0 .. USHRT_MAX]
        /\ info'.queue_depth = queue_depth(asked.depth)
        /\ info'.queue_depth \in 1 .. UBLK_MAX_QUEUE_DEPTH
        /\ info'.nr_hw_queues \in Nat /\ info'.nr_hw_queues <= cpus
        /\ info'.nr_hw_queues <= nr_hw_queues(asked.queues)
    BY <2>0, <1>3, <1>4, <1>5, Limits, SMT DEF Accepted, Granted
  <2>2. q_id' \in 0 .. USHRT_MAX /\ q_id' < info'.nr_hw_queues
    BY <1>5, <2>1, Limits, SMT DEF Qids
  <2>3. TypeOK'
    BY <1>1, <1>5, <2>1, <2>2, Limits, SMT DEF BuildInv, TypeOK
  <2>4. Agreed' /\ Filled' /\ Excused'
    BY <1>1, <1>5, <2>1, Limits, SMT DEF BuildInv, Agreed, Filled, Excused
  <2> QED BY <2>3, <2>4 DEF BuildInv
<1>6. CASE ~Accepted(i) /\ info' = i /\ pc' = "rejected" /\ q_id' = q_id
  <2>1. TypeOK'
    BY <1>1, <1>4, <1>6, Limits, SMT DEF BuildInv, TypeOK
  <2>2. Agreed' /\ Filled' /\ Excused'
    BY <1>1, <1>6, Limits, SMT DEF BuildInv, Agreed, Filled, Excused
  <2> QED BY <2>1, <2>2 DEF BuildInv
<1> QED BY <1>5, <1>6 DEF startupC

\* A resource that is refused is an excuse.
LEMMA RefusalBuilds ==
  ASSUME BuildInv, NEW from \in {"mmap", "bufs"}, Refused(from)
  PROVE  BuildInv'
BY Limits, SMT DEF BuildInv, Refused, At, TypeOK, Agreed, Filled, Excused

LEMMA MallocBuilds ==
  ASSUME BuildInv, queue_malloc
  PROVE  BuildInv'
BY GarbageAssumption, Limits, SMT DEF BuildInv, queue_malloc, At, TypeOK, Agreed, Filled, Excused

\* The conversion of startupC asks for no more queues than the application.
LEMMA NoMoreQueues ==
  ASSUME NEW n \in Int, nr_hw_queues(n) > MAX_NR_HW_QUEUES
  PROVE  n > MAX_NR_HW_QUEUES
<1>1. CASE n <= 0
  <2>1. nr_hw_queues(n) = 1 /\ MAX_NR_HW_QUEUES = 32
    BY <1>1, SMT DEF nr_hw_queues, ushort, DEF_NR_HW_QUEUES, USHRT_MAX, MAX_NR_HW_QUEUES
  <2> QED BY <2>1
<1>2. CASE n > 0
  <2>1. nr_hw_queues(n) = n % (USHRT_MAX + 1)
    BY <1>2, SMT DEF nr_hw_queues, ushort
  <2>2. n % (USHRT_MAX + 1) \in Nat /\ n % (USHRT_MAX + 1) <= n
    BY <1>2, SMT DEF USHRT_MAX
  <2> QED BY <2>1, <2>2, Limits, SMT
<1> QED BY <1>1, <1>2

\* Only a large machine on which many queues were asked for is overwritten.
LEMMA OverflowBuilds ==
  ASSUME BuildInv, queue_overflow
  PROVE  BuildInv'
<1>1. /\ info.nr_hw_queues > MAX_NR_HW_QUEUES
      /\ pc \notin {"start", "rejected", "undefined"} /\ pc' = "undefined"
      /\ UNCHANGED <<lacking, configVars, queueVars, requestVars>>
  BY DEF queue_overflow
<1>2. info.nr_hw_queues <= cpus /\ info.nr_hw_queues <= nr_hw_queues(asked.queues)
  BY <1>1 DEF BuildInv, Agreed
<1>3. asked.queues \in Int /\ cpus \in Nat /\ info.nr_hw_queues \in Nat
  BY AskedAssumption, CpusAssumption, Limits, SMT DEF BuildInv, TypeOK
<1>4. nr_hw_queues(asked.queues) \in Nat
  BY <1>3, Converted, Limits, SMT
<1>5. cpus > MAX_NR_HW_QUEUES /\ nr_hw_queues(asked.queues) > MAX_NR_HW_QUEUES
  BY <1>1, <1>2, <1>3, <1>4, Limits, SMT
<1>6. asked.queues > MAX_NR_HW_QUEUES
  BY <1>3, <1>5, NoMoreQueues
<1>7. TypeOK' /\ Agreed' /\ Filled'
  BY <1>1, Limits, SMT DEF BuildInv, TypeOK, Agreed, Filled
<1>8. Excused'
  BY <1>1, <1>5, <1>6 DEF Excused
<1> QED BY <1>7, <1>8 DEF BuildInv

LEMMA MmapBuilds ==
  ASSUME BuildInv, queue_mmap
  PROVE  BuildInv'
<1>1. CASE Refused("mmap")
  BY <1>1, RefusalBuilds
<1>2. CASE /\ At("mmap", "bufs")
           /\ mapped' = cmd_buf_off(q_id, info.queue_depth, page) \div queue_max_cmd_buf_sz(page)
           /\ UNCHANGED <<lacking, lock, cond_mutex, cond, inflight, flags, entries, sq>>
  <2>1. q_id \in Nat /\ page \in Nat \ {0}
    BY PageAssumption, Limits, SMT DEF BuildInv, TypeOK
  <2>2. mapped' = q_id
    BY <1>2, <2>1, OffsetNamesQueue
  <2>3. TypeOK'
    BY <1>2, <2>2, Limits, SMT DEF At, BuildInv, TypeOK
  <2>4. Agreed' /\ Filled' /\ Excused'
    BY <1>2, <2>2, Limits, SMT DEF At, BuildInv, Agreed, Filled, Excused
  <2> QED BY <2>3, <2>4 DEF BuildInv
<1> QED BY <1>1, <1>2 DEF queue_mmap

LEMMA BufsBuild ==
  ASSUME BuildInv, alloc_bufs
  PROVE  BuildInv'
<1>1. CASE Refused("bufs")
  BY <1>1, RefusalBuilds
<1>2. CASE /\ At("bufs", "ring")
           /\ flags' = [t \in 1 .. info.queue_depth |-> {"NEED_FETCH", "FREE"}]
           /\ UNCHANGED <<lacking, lock, cond_mutex, cond, inflight, mapped, entries, sq>>
  <2>1. flags' \in Seq(SUBSET {"NEED_FETCH", "FREE"})
    BY <1>2, Limits, SMT DEF BuildInv, TypeOK
  <2>2. TypeOK'
    BY <1>2, <2>1, Limits, SMT DEF At, BuildInv, TypeOK
  <2>3. Agreed' /\ Filled' /\ Excused'
    BY <1>2, Limits, SMT DEF At, BuildInv, Agreed, Filled, Excused
  <2> QED BY <2>2, <2>3 DEF BuildInv
<1> QED BY <1>1, <1>2 DEF alloc_bufs

\* The ring is not refused for its size, and has a slot for each tag.
LEMMA RingBuilds ==
  ASSUME BuildInv, ring_init
  PROVE  BuildInv'
<1> DEFINE n == ring_depth(info.queue_depth, 0)
<1>1. n \in 1 .. UBLK_MAX_QUEUE_DEPTH /\ n = info.queue_depth
  BY Limits, SMT DEF ring_init, At, BuildInv, Agreed, TypeOK, ring_depth
<1> HIDE DEF n
<1>2. CASE /\ n > 0 /\ At("ring", "fetch")
           /\ entries' = RingEntries(n)
           /\ UNCHANGED <<lacking, lock, cond_mutex, cond, inflight, mapped, flags, sq>>
  <2>1. entries' \in n .. UBLK_MAX_QUEUE_DEPTH
    BY <1>1, <1>2, RingLarge
  <2>2. sq = <<>>
    BY <1>2, Limits, SMT DEF At, BuildInv, Filled
  <2>3. entries' \in 0 .. UBLK_MAX_QUEUE_DEPTH /\ Len(sq') <= entries'
    BY <1>1, <1>2, <2>1, <2>2, Limits, SMT
  <2>4. TypeOK'
    BY <1>2, <2>3, Limits, SMT DEF At, BuildInv, TypeOK
  <2>5. Agreed' /\ Filled' /\ Excused'
    BY <1>1, <1>2, <2>1, Limits, SMT DEF At, BuildInv, Agreed, Filled, Excused
  <2> QED BY <2>4, <2>5 DEF BuildInv
<1>3. CASE At("ring", "failed") /\ lacking' = (n > 0) /\ UNCHANGED queueVars
  <2>1. lacking'
    <3>1. n > 0
      BY <1>1, Limits, SMT
    <3> QED BY <1>3, <3>1
  <2> QED BY <1>3, <2>1, Limits, SMT DEF At, BuildInv, TypeOK, Agreed, Filled, Excused
<1> QED BY <1>2, <1>3 DEF ring_init, n

\* Each tag finds a slot, so that no fetch command returns with q->lock held.
LEMMA FetchBuilds ==
  ASSUME BuildInv, ublksrv_submit_fetch_commands \/ fetch_blocks
  PROVE  BuildInv'
<1>1. /\ pc = "fetch"
      /\ info.queue_depth \in 1 .. UBLK_MAX_QUEUE_DEPTH
      /\ entries \in Nat /\ entries >= info.queue_depth
  BY Limits, SMT DEF BuildInv, TypeOK, Agreed, Filled, ublksrv_submit_fetch_commands, fetch_blocks, At
<1>2. Fetches = info.queue_depth
  BY <1>1, Limits, SMT DEF Fetches
<1>3. CASE fetch_blocks
  <2>1. ~FetchBlocks
    BY <1>1, Limits, SMT DEF FetchBlocks
  <2>2. UsesGarbage /\ At("fetch", "hung") /\ UNCHANGED <<lacking, queueVars>>
    BY <1>3, <2>1 DEF fetch_blocks
  <2>3. UsesGarbage'
    BY <2>2 DEF At, UsesGarbage, Fetches
  <2>4. TypeOK'
    BY <2>2, Limits, SMT DEF At, BuildInv, TypeOK
  <2>5. Agreed' /\ Filled'
    BY <2>2, Limits, SMT DEF At, BuildInv, Agreed, Filled
  <2>6. Excused'
    BY <2>2, <2>3 DEF At, BuildInv, Excused
  <2> QED BY <2>4, <2>5, <2>6 DEF BuildInv
<1>4. CASE ublksrv_submit_fetch_commands
  <2> DEFINE d == info.queue_depth
  <2>1. /\ sq' = [i \in 1 .. d |-> build_user_data(i - 1, FETCH_REQ)]
        /\ flags' = [i \in 1 .. d |-> {}]
        /\ inflight' \in Int
        /\ At("fetch", "publish") /\ UNCHANGED <<lacking, lock, cond_mutex, cond, mapped, entries>>
    BY <1>1, <1>2, <1>4, Limits, SMT DEF ublksrv_submit_fetch_commands, BuildInv, TypeOK
  <2>2. d \in Nat /\ d <= entries
    BY <1>1, Limits, SMT
  <2>3. \A i \in 1 .. d : build_user_data(i - 1, FETCH_REQ) \in Nat
    BY <1>1, UserData, Limits, SMT
  <2>4. sq' \in Seq(Nat) /\ Len(sq') = d
    BY <2>1, <2>2, <2>3, Limits, SMT
  <2>5. flags' \in Seq(SUBSET {"NEED_FETCH", "FREE"})
    BY <2>1, <2>2, Limits, SMT
  <2>6. TypeOK'
    BY <2>1, <2>2, <2>4, <2>5, Limits, SMT DEF At, BuildInv, TypeOK
  <2>7. Agreed' /\ Filled' /\ Excused'
    BY <1>1, <2>1, Limits, SMT DEF At, BuildInv, Agreed, Filled, Excused
  <2> QED BY <2>6, <2>7 DEF BuildInv
<1> QED BY <1>3, <1>4

LEMMA PublishBuilds ==
  ASSUME BuildInv, publish
  PROVE  BuildInv'
BY Limits, SMT DEF BuildInv, publish, atomic_init, At, TypeOK, Agreed, Filled, Excused

\* A request changes nothing of the queue.
LEMMA RequestBuilds ==
  ASSUME BuildInv, demo_handle_io_async
  PROVE  BuildInv'
<1>1. /\ pc \in {"ready", "served"} /\ pc' = "served"
      /\ UNCHANGED <<lacking, configVars, queueVars>>
  BY DEF demo_handle_io_async
<1> QED BY <1>1, Limits, SMT DEF BuildInv, TypeOK, Agreed, Filled, Excused

\* The inductive invariant of QueueInit: a queue is built in the order of
\* ublksrv_queue_init from the numbers the driver took.  It fails only for want of
\* a resource, does not return only after a pthread call on q->lock, cond_mutex or
\* cond as malloc left them, and dev->__queues is overwritten only on a machine of
\* more than 32 processors on which more than 32 queues were asked for.
THEOREM BuildCorrect == Spec => []BuildInv
<1>1. Init => BuildInv
  BY BuildInit
<1>2. BuildInv /\ [Next]_vars => BuildInv'
  <2> SUFFICES ASSUME BuildInv, [Next]_vars PROVE BuildInv'
    OBVIOUS
  <2>1. CASE startupC
    BY <2>1, StartBuilds
  <2>2. CASE ublksrv_queue_init
    BY <2>2, MallocBuilds, OverflowBuilds, MmapBuilds, BufsBuild, RingBuilds, FetchBuilds, PublishBuilds
       DEF ublksrv_queue_init
  <2>3. CASE demo_handle_io_async
    BY <2>3, RequestBuilds
  <2>4. CASE UNCHANGED vars
    BY <2>4, Limits, SMT DEF BuildInv, TypeOK, Agreed, Filled, Excused, UsesGarbage, Fetches
  <2> QED BY <2>1, <2>2, <2>3, <2>4 DEF Next
<1> QED BY <1>1, <1>2, PTL DEF Spec

\* No field of the queue leaves its type, whatever numbers an application asks
\* for: a queue thread has the number of one of the driver's queues, and its ring
\* holds no more commands than it has slots.
THEOREM BuildTypes == Spec => []TypeOK
<1>1. BuildInv => TypeOK
  BY DEF BuildInv
<1> QED BY <1>1, BuildCorrect, PTL

----------------------------------------------------------------------------
(* What the queue is built of *)

\* A queue is shown its own descriptors, and the last of them is mapped, for each
\* number of queues, depth and page size.
THEOREM OwnQueueMapped == Spec => []MapsOwnQueue
<1>1. BuildInv => MapsOwnQueue
  <2> SUFFICES ASSUME BuildInv, mapped # None PROVE MapsOwnQueue
    BY DEF MapsOwnQueue
  <2>1. mapped = q_id
    BY DEF BuildInv, Filled
  <2>2. info.queue_depth * iod_size \in Nat /\ page \in Nat \ {0}
    BY PageAssumption, Limits, SMT DEF BuildInv, TypeOK, iod_size
  <2>3. ublksrv_get_iod(info.queue_depth) <= ublksrv_queue_cmd_buf_sz(info.queue_depth, page)
    BY <2>2, RoundUp DEF ublksrv_get_iod, ublksrv_queue_cmd_buf_sz
  <2> QED BY <2>1, <2>3 DEF MapsOwnQueue
<1> QED BY <1>1, BuildCorrect, PTL

\* A depth that the driver can take is not changed by the conversion.
LEMMA DepthKept ==
  ASSUME NEW n \in Int
  PROVE  /\ n \in 1 .. UBLK_MAX_QUEUE_DEPTH => queue_depth(n) = n
         /\ n <= 0 => queue_depth(n) = DEF_QD
<1>1. \A k \in Nat : k <= 4096 => ushort(k) = k
  BY SMT DEF ushort, USHRT_MAX
<1>2. ASSUME n \in 1 .. UBLK_MAX_QUEUE_DEPTH PROVE queue_depth(n) = n
  <2>1. n \in Nat /\ 1 <= n /\ n <= UBLK_MAX_QUEUE_DEPTH
    BY <1>2, Limits, SMT
  <2>2. n <= 4096
    BY <2>1, SMT DEF UBLK_MAX_QUEUE_DEPTH
  <2> QED BY <1>1, <2>1, <2>2, SMT DEF queue_depth
<1>3. ASSUME n <= 0 PROVE queue_depth(n) = DEF_QD
  <2>1. ushort(DEF_QD) = DEF_QD
    BY <1>1, SMT DEF DEF_QD
  <2> QED BY <1>3, <2>1, SMT DEF queue_depth
<1> QED BY <1>2, <1>3

\* The ring that ublksrv_submit_fetch_commands leaves is the one UblkQueue
\* starts from.
LEMMA RingHandedOver ==
  ASSUME BuildInv, pc = "ready"
  PROVE  [i \in 1 .. Len(sq) |-> FetchOf(sq[i])] =
           [i \in 1 .. info.queue_depth |->
              [cmd |-> "FETCH", tag |-> i - 1, res |-> "ZERO", filled |-> TRUE]]
<1> DEFINE d == info.queue_depth
<1>1. d \in 1 .. UBLK_MAX_QUEUE_DEPTH
  BY DEF BuildInv, Agreed
<1>2. sq = [i \in 1 .. d |-> build_user_data(i - 1, FETCH_REQ)]
  BY DEF BuildInv, Filled
<1>3. sq \in Seq(Nat)
  BY DEF BuildInv, TypeOK
<1> HIDE DEF d
<1>4. Len(sq) = d
  BY <1>1, <1>2, <1>3, Limits, SMT
<1>5. ASSUME NEW i \in 1 .. d
      PROVE  FetchOf(sq[i]) = [cmd |-> "FETCH", tag |-> i - 1, res |-> "ZERO", filled |-> TRUE]
  <2>1. i - 1 \in 0 .. UBLK_MAX_QUEUE_DEPTH - 1
    BY <1>1, Limits, SMT
  <2>2. sq[i] = build_user_data(i - 1, FETCH_REQ)
    BY <1>2
  <2> QED BY <2>1, <2>2, UserData DEF FetchOf
<1> QED BY <1>4, <1>5 DEF d

\* Whatever was in the memory, the queue that ublksrv_queue_init returns is in the
\* initial state of UblkQueue, with the depth that was asked for if the driver
\* takes it, and a ring slot for each tag.
THEOREM QueueHandedOver == Spec => []HandsOver
<1>1. BuildInv => HandsOver
  <2> SUFFICES ASSUME BuildInv, pc = "ready" PROVE HandsOver
    BY DEF HandsOver
  <2> DEFINE d == info.queue_depth
  <2>1. asked.depth \in Int /\ d = queue_depth(asked.depth) /\ entries >= d
    BY AskedAssumption DEF BuildInv, TypeOK, Agreed, Filled
  <2>2. /\ asked.depth \in 1 .. UBLK_MAX_QUEUE_DEPTH => d = asked.depth
        /\ asked.depth <= 0 => d = DEF_QD
    BY <2>1, DepthKept
  <2>3. /\ lock = "free" /\ inflight = 0
        /\ flags = [i \in 1 .. d |-> {}]
        /\ [i \in 1 .. Len(sq) |-> FetchOf(sq[i])] =
             [i \in 1 .. d |-> [cmd |-> "FETCH", tag |-> i - 1, res |-> "ZERO", filled |-> TRUE]]
    BY RingHandedOver DEF BuildInv, Filled
  <2>4. d \in Nat
    BY Limits, SMT DEF BuildInv, TypeOK
  <2> HIDE DEF d
  <2>5. ASSUME NEW e, e = d PROVE Queue(e)!Init
    BY <2>3, <2>4, <2>5 DEF Queue!Init, Queue!Tags, Queue!Reqs
  <2> QED BY <2>1, <2>2, <2>5 DEF HandsOver, d
<1> QED BY <1>1, BuildCorrect, PTL

----------------------------------------------------------------------------
(* The requests *)

\* init_params asks for neither FLUSH nor WRITE_ZEROES, and bounds the others.
LEMMA Limited ==
  /\ Limit("READ") = 1024 /\ Limit("WRITE") = 1024 /\ Limit("DISCARD") = 8388607
  /\ Limit("FLUSH") = 0 /\ Limit("WRITE_ZEROES") = 0
<1>1. max_sectors(DEF_BUF_SIZE) = 1024
  BY SMT DEF max_sectors, DEF_BUF_SIZE
<1>2. /\ params.max_sectors = 1024 /\ params.max_discard_sectors = 8388607
      /\ params.max_write_zeroes_sectors = 0 /\ params.attrs = {}
  BY <1>1, SMT DEF params, init_params, attrs
<1> QED BY <1>2, SMT DEF Limit

\* The operations whose limit allows a length, and the lengths.
LEMMA Issued ==
  ASSUME demo_handle_io_async
  PROVE  \E op \in {"READ", "WRITE", "DISCARD"}, n \in Nat, start \in Nat :
           /\ 1 <= n /\ n <= Limit(op) /\ start <= 2147483647
           /\ ublksrv_get_op(iod') = UBLK_IO_OP[op]
           /\ iod'.nr_sectors = n /\ iod'.start_sector = start
<1>1. PICK op \in DOMAIN UBLK_IO_OP, fua \in {0, 32} :
        \E n \in Lengths(op) : \E start \in {0, DevSectors - n} :
          iod' = [op_flags |-> UBLK_IO_OP[op] + 256 * fua, nr_sectors |-> n,
                  start_sector |-> start, tag |-> user_data_to_tag(sq[Len(sq)])]
  BY DEF demo_handle_io_async
<1>2. PICK n \in Lengths(op) : \E start \in {0, DevSectors - n} :
          iod' = [op_flags |-> UBLK_IO_OP[op] + 256 * fua, nr_sectors |-> n,
                  start_sector |-> start, tag |-> user_data_to_tag(sq[Len(sq)])]
  BY <1>1
<1>3. PICK start \in {0, DevSectors - n} :
          iod' = [op_flags |-> UBLK_IO_OP[op] + 256 * fua, nr_sectors |-> n,
                  start_sector |-> start, tag |-> user_data_to_tag(sq[Len(sq)])]
  BY <1>2
<1>4. op \in {"READ", "WRITE", "FLUSH", "DISCARD", "WRITE_ZEROES"}
  BY DEF UBLK_IO_OP
<1>5. Limit(op) \in Nat
  BY <1>4, Limited, SMT
<1>6. n \in Nat /\ 1 <= n /\ n <= Limit(op) /\ n <= DevSectors
  BY <1>5, SizeAssumption, SMT DEF Lengths, Smaller
<1>7. op \in {"READ", "WRITE", "DISCARD"}
  BY <1>4, <1>6, Limited, SMT
<1>8. start \in Nat /\ start <= 2147483647
  BY <1>3, <1>6, SizeAssumption, SMT
<1>9. ublksrv_get_op(iod') = UBLK_IO_OP[op]
  BY <1>3, <1>7, SMT DEF ublksrv_get_op, UBLK_IO_OP
<1> QED BY <1>3, <1>6, <1>7, <1>8, <1>9

\* The type of the message tells the operations apart.
LEMMA TypeOfOp ==
  ASSUME NEW i, NEW op \in {"READ", "WRITE", "DISCARD"}, ublksrv_get_op(i) = UBLK_IO_OP[op]
  PROVE  /\ op = "READ" => req_to_longhorn_cmd_type(i) = 0
         /\ op = "WRITE" => req_to_longhorn_cmd_type(i) = 1
         /\ op = "DISCARD" => req_to_longhorn_cmd_type(i) = 7
BY SMT DEF req_to_longhorn_cmd_type, UBLK_IO_OP, LONGHORN

\* Small numbers keep their value in the first byte.
LEMMA SmallU32 ==
  U32(0) = <<0, 0, 0, 0>> /\ U32(1) = <<1, 0, 0, 0>> /\ U32(7) = <<7, 0, 0, 0>>
BY SMT DEF U32

LEMMA SilentStep ==
  ASSUME demo_handle_io_async
  PROVE  NoSilentSuccess'
<1>1. PICK op \in {"READ", "WRITE", "DISCARD"} : ublksrv_get_op(iod') = UBLK_IO_OP[op]
  BY Issued
<1> DEFINE type == req_to_longhorn_cmd_type(iod')
<1>2. msg'.Type = U32(type)
  BY DEF demo_handle_io_async, Decode
<1>3. /\ op = "READ" => type = 0
      /\ op = "WRITE" => type = 1
      /\ op = "DISCARD" => type = 7
  BY <1>1, TypeOfOp
<1> HIDE DEF type
<1>4. /\ op = "READ" => handler(msg') = "ReadAt"
      /\ op = "WRITE" => handler(msg') = "WriteAt"
      /\ op = "DISCARD" => handler(msg') = "UnmapAt"
  BY <1>2, <1>3, SmallU32, SMT DEF handler, LONGHORN
<1>5. /\ op = "READ" => ublksrv_get_op(iod') = 0
      /\ op = "WRITE" => ublksrv_get_op(iod') = 1
      /\ op = "DISCARD" => ublksrv_get_op(iod') = 3
  BY <1>1, SMT DEF UBLK_IO_OP
<1>6. UBLK_IO_OP.READ = 0 /\ UBLK_IO_OP.WRITE = 1 /\ UBLK_IO_OP.DISCARD = 3
  BY SMT DEF UBLK_IO_OP
<1>7. CASE op = "READ"
  BY <1>4, <1>5, <1>6, <1>7, SMT DEF NoSilentSuccess
<1>8. CASE op = "WRITE"
  BY <1>4, <1>5, <1>6, <1>8, SMT DEF NoSilentSuccess
<1>9. CASE op = "DISCARD"
  BY <1>4, <1>5, <1>6, <1>9, SMT DEF NoSilentSuccess
<1> QED BY <1>1, <1>7, <1>8, <1>9

\* A request that is reported as successful has been given to the method of the
\* IOHandler meant for it, on machines of either byte order.
THEOREM NothingSilent == Spec => []NoSilentSuccess
<1>1. Init => NoSilentSuccess
  BY DEF Init, NoSilentSuccess
<1>2. NoSilentSuccess /\ [Next]_vars => NoSilentSuccess'
  <2> SUFFICES ASSUME NoSilentSuccess, [Next]_vars PROVE NoSilentSuccess'
    OBVIOUS
  <2>1. CASE demo_handle_io_async
    BY <2>1, SilentStep
  <2>2. CASE startupC \/ ublksrv_queue_init
    <3>1. pc' # "served"
      BY <2>2 DEF startupC, ublksrv_queue_init, queue_malloc, queue_overflow, queue_mmap, alloc_bufs, ring_init,
                  ublksrv_submit_fetch_commands, fetch_blocks, publish, Refused, At
    <3> QED BY <3>1 DEF NoSilentSuccess
  <2>3. CASE UNCHANGED vars
    BY <2>3 DEF NoSilentSuccess
  <2> QED BY <2>1, <2>2, <2>3 DEF Next
<1> QED BY <1>1, <1>2, PTL DEF Spec

\* A shift by 9 and back loses nothing of a length in four bytes, nor of a place
\* in eight.
LEMMA ShiftBack ==
  ASSUME NEW n \in Nat
  PROVE  /\ n <= 8388607 => Sectors(Shl9(n, 4)) = n
         /\ n <= 2147483647 => Sectors(Shl9(n, 8)) + 8388608 * Shl9(n, 8)[5] = n
<1>1. /\ Shl9(n, 4)[2] = (n % 128) * 2 /\ Shl9(n, 4)[3] = (n \div 128) % 256
      /\ Shl9(n, 4)[4] = (n \div 32768) % 256
  BY SMT DEF Shl9
<1>2. /\ Shl9(n, 8)[2] = (n % 128) * 2 /\ Shl9(n, 8)[3] = (n \div 128) % 256
      /\ Shl9(n, 8)[4] = (n \div 32768) % 256 /\ Shl9(n, 8)[5] = (n \div 8388608) % 256
  BY SMT DEF Shl9
<1>3. n <= 8388607 =>
        ((n % 128) * 2) \div 2 + 128 * ((n \div 128) % 256) + 32768 * ((n \div 32768) % 256) = n
  BY SMT
<1>4. n <= 2147483647 =>
        ((n % 128) * 2) \div 2 + 128 * ((n \div 128) % 256) + 32768 * ((n \div 32768) % 256)
          + 8388608 * ((n \div 8388608) % 256) = n
  BY SMT
<1>5. n <= 8388607 => Sectors(Shl9(n, 4)) = n
  BY <1>1, <1>3 DEF Sectors
<1>6. n <= 2147483647 => Sectors(Shl9(n, 8)) + 8388608 * Shl9(n, 8)[5] = n
  BY <1>2, <1>4 DEF Sectors
<1> QED BY <1>5, <1>6

LEMMA DecodeStep ==
  ASSUME demo_handle_io_async, Host = "little"
  PROVE  RequestDecoded'
<1>1. PICK op \in {"READ", "WRITE", "DISCARD"}, n \in Nat, start \in Nat :
        /\ 1 <= n /\ n <= Limit(op) /\ start <= 2147483647
        /\ ublksrv_get_op(iod') = UBLK_IO_OP[op]
        /\ iod'.nr_sectors = n /\ iod'.start_sector = start
  BY Issued
<1>2. n <= 8388607 /\ (op \in {"READ", "WRITE"} => n <= 1024)
  BY <1>1, Limited, SMT
<1> DEFINE type == req_to_longhorn_cmd_type(iod')
<1>3. /\ op = "READ" => type = 0
      /\ op = "WRITE" => type = 1
      /\ op = "DISCARD" => type = 7
  BY <1>1, TypeOfOp
<1>4. /\ msg'.Size = Shl9(n, 4) /\ msg'.Offset = Shl9(start, 8)
      /\ type = LONGHORN.WRITE => msg'.WData = Shl9(n, 4)
  BY <1>1 DEF demo_handle_io_async, Decode, longhorn_build_req, htole
<1>5. Sectors(msg'.Size) = n
  BY <1>2, <1>4, ShiftBack
<1>6. Sectors(msg'.Offset) + 8388608 * msg'.Offset[5] = start
  BY <1>1, <1>4, ShiftBack
<1>7. /\ ublksrv_get_op(iod') \in {UBLK_IO_OP.READ, UBLK_IO_OP.WRITE} => op \in {"READ", "WRITE"}
      /\ ublksrv_get_op(iod') = UBLK_IO_OP.WRITE => op = "WRITE"
  BY <1>1, SMT DEF UBLK_IO_OP
<1>8. ASSUME op \in {"READ", "WRITE"}
      PROVE  /\ 512 * n <= Smaller(RDataCap, DEF_BUF_SIZE)
             /\ Sectors(success(iod', type)) = n
  <2>1. 512 * n <= Smaller(RDataCap, DEF_BUF_SIZE)
    BY <1>2, <1>8, SMT DEF Smaller, RDataCap, DEF_BUF_SIZE
  <2>2. type # LONGHORN.UNMAP
    BY <1>3, <1>8, SMT DEF LONGHORN
  <2>3. success(iod', type) = Shl9(n, 4)
    BY <1>1, <2>2 DEF success
  <2> QED BY <1>2, <2>1, <2>3, ShiftBack
<1>9. op = "WRITE" => Sectors(msg'.WData) = n
  <2>1. op = "WRITE" => type = LONGHORN.WRITE
    BY <1>3, SMT DEF LONGHORN
  <2> QED BY <1>2, <1>4, <2>1, ShiftBack
<1> QED BY <1>1, <1>5, <1>6, <1>7, <1>8, <1>9 DEF RequestDecoded

\* On a little-endian machine the handler is told the length and the place of the
\* request, its data fit, and the result is the length.
THEOREM DecodeCorrect ==
  ASSUME Host = "little"
  PROVE  Spec => []RequestDecoded
<1>1. Init => RequestDecoded
  BY DEF Init, RequestDecoded
<1>2. RequestDecoded /\ [Next]_vars => RequestDecoded'
  <2> SUFFICES ASSUME RequestDecoded, [Next]_vars PROVE RequestDecoded'
    OBVIOUS
  <2>1. CASE demo_handle_io_async
    BY <2>1, DecodeStep
  <2>2. CASE startupC \/ ublksrv_queue_init
    <3>1. pc' # "served"
      BY <2>2 DEF startupC, ublksrv_queue_init, queue_malloc, queue_overflow, queue_mmap, alloc_bufs, ring_init,
                  ublksrv_submit_fetch_commands, fetch_blocks, publish, Refused, At
    <3> QED BY <3>1 DEF RequestDecoded
  <2>3. CASE UNCHANGED vars
    BY <2>3 DEF RequestDecoded
  <2> QED BY <2>1, <2>2, <2>3 DEF Next
<1> QED BY <1>1, <1>2, PTL DEF Spec

==============================================================================
