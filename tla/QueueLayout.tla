----------------------------- MODULE QueueLayout -----------------------------
(***************************************************************************)
(* The arithmetic of a queue: what becomes of the numbers an application   *)
(* gives to NewUblkDevice, how deep the ring is, where the driver's I/O    *)
(* descriptors are mapped, and how a completion names its tag.             *)
(***************************************************************************)
EXTENDS Integers

DEF_QD == 128
DEF_NR_HW_QUEUES == 1
UBLK_MAX_QUEUE_DEPTH == 4096
MAX_NR_HW_QUEUES == 32
USHRT_MAX == 65535
iod_size == 24                   \* sizeof(struct ublksrv_io_desc)

\* C.ushort of a Go int.
ushort(n) == n % (USHRT_MAX + 1)

nr_hw_queues(asked) == ushort(IF asked <= 0 THEN DEF_NR_HW_QUEUES ELSE asked)
queue_depth(asked) == ushort(IF asked <= 0 THEN DEF_QD ELSE asked)

\* For rnd a power of two, which page sizes are.
round_up(val, rnd) == ((val + rnd - 1) \div rnd) * rnd

\* (fault) takes the smaller one
fault_ring_depth(depth, tgt_depth) == IF depth > tgt_depth THEN tgt_depth ELSE depth

\* ublksrv_calculate_depths: the ring has room for one command per tag, or for
\* the target's own I/O if that is more.
ring_depth(depth, tgt_depth) == IF depth > tgt_depth THEN depth ELSE tgt_depth

ublksrv_queue_cmd_buf_sz(depth, page) == round_up(depth * iod_size, page)
queue_max_cmd_buf_sz(page) == round_up(UBLK_MAX_QUEUE_DEPTH * iod_size, page)

\* (fault) packs the queues
fault_cmd_buf_off(q_id, depth, page) == q_id * ublksrv_queue_cmd_buf_sz(depth, page)

\* Where on /dev/ublkc0 the descriptors of a queue begin: every queue has room
\* for the greatest depth.
cmd_buf_off(q_id, depth, page) == q_id * queue_max_cmd_buf_sz(page)

\* ublksrv_get_iod, as an offset into io_cmd_buf.
ublksrv_get_iod(tag) == tag * iod_size

\* user_data of a command: 16 bits of tag, 8 of operation; target data and the
\* bit of target I/O are 0 for the commands of the driver.
build_user_data(tag, op) == tag + op * 65536

user_data_to_tag(user_data) == user_data % 65536
user_data_to_op(user_data) == (user_data \div 65536) % 256
==============================================================================
