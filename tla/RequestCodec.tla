---------------------------- MODULE RequestCodec ----------------------------
(***************************************************************************)
(* What a request looks like on its way from the driver's I/O descriptor   *)
(* through the C message to the Go handler and back.  A 32- or 64-bit      *)
(* number is the sequence of its bytes, least significant first, so that   *)
(* shifts lose what they lose in C and a byte swap is what it is.          *)
(***************************************************************************)
EXTENDS Integers, Sequences, SequencesExt

UBLK_IO_OP == [READ |-> 0, WRITE |-> 1, FLUSH |-> 2, DISCARD |-> 3, WRITE_ZEROES |-> 5]
LONGHORN == [READ |-> 0, WRITE |-> 1, PING |-> 6, UNMAP |-> 7]

U32(n) == <<n % 256, (n \div 256) % 256, (n \div 65536) % 256, (n \div 16777216) % 256>>

\* n << 9 in `bytes` bytes, for n < 2^31.
Shl9(n, bytes) ==
    [i \in 1 .. bytes |-> CASE i = 1 -> 0
                            [] i = 2 -> (n % 128) * 2
                            [] i = 3 -> (n \div 128) % 256
                            [] i = 4 -> (n \div 32768) % 256
                            [] i = 5 -> (n \div 8388608) % 256
                            [] OTHER -> 0]

\* htole32, and cpu_to_le64 of HOST_CONVERT(le, 64, uint64_t).
htole(host, v) == IF host = "little" THEN v ELSE Reverse(v)

\* The low byte of op_flags; the others hold flags such as FUA.
ublksrv_get_op(iod) == iod.op_flags % 256

req_to_longhorn_cmd_type(iod) ==
    CASE ublksrv_get_op(iod) = UBLK_IO_OP.READ    -> LONGHORN.READ
      [] ublksrv_get_op(iod) = UBLK_IO_OP.WRITE   -> LONGHORN.WRITE
      [] ublksrv_get_op(iod) = UBLK_IO_OP.DISCARD -> LONGHORN.UNMAP
      [] OTHER -> -1

\* __longhorn_build_req
longhorn_build_req(iod, tag, type, host) ==
    [seq |-> htole(host, U32(tag)),
     type |-> htole(host, U32(type)),
     offset |-> htole(host, Shl9(iod.start_sector, 8)),
     size |-> htole(host, Shl9(iod.nr_sectors, 4)),
     data_length |-> htole(host, IF type = LONGHORN.WRITE
                                   THEN Shl9(iod.nr_sectors, 4) ELSE U32(0))]

\* The fields onRequestAsync sets; a message keeps the WData of the WRITE that
\* used it last.
Decode(req, iod, type, wdata) ==
    [Size |-> req.size, Seq |-> req.seq, Type |-> U32(type), Offset |-> req.offset,
     WData |-> IF type = LONGHORN.WRITE THEN Shl9(iod.nr_sectors, 4) ELSE wdata]

\* The method of the IOHandler that handleRequests has called; a ping and
\* anything unknown complete without one.
handler(msg) == CASE msg.Type = U32(LONGHORN.READ)  -> "ReadAt"
                  [] msg.Type = U32(LONGHORN.WRITE) -> "WriteAt"
                  [] msg.Type = U32(LONGHORN.UNMAP) -> "UnmapAt"
                  [] OTHER -> "none"

\* The result onRequestAsync's goroutine completes a request with that has not
\* failed.
success(iod, type) == IF type = LONGHORN.UNMAP THEN U32(0) ELSE Shl9(iod.nr_sectors, 4)

\* (fault) offers a write cache
fault_attrs == {"VOLATILE_CACHE"}

attrs == {}

\* (fault) shifts by 8
fault_max_sectors(bytes) == bytes \div 256

max_sectors(bytes) == bytes \div 512

\* What init_params tells the driver of the device, in sectors.
init_params(bytes, dev_sectors) ==
    [attrs |-> attrs, max_sectors |-> max_sectors(bytes), dev_sectors |-> dev_sectors,
     max_discard_sectors |-> 8388607,      \* UINT_MAX >> 9
     max_write_zeroes_sectors |-> 0]
==============================================================================
