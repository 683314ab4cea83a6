----------------------------- MODULE MCQueueInit -----------------------------
(* QueueInit for TLC: the numbers around which something changes. *)
EXTENDS QueueInit

\* More queues than dev->__queues has room for are asked for with one depth only.
AskedMC == [queues : {-1, 2, 65536}, depth : {0, 1, 3, 171, 4096, 4097, 65536, 65537}]
             \cup {[queues |-> 33, depth |-> 3]}
GarbageMC == {-1, 0, 2}
==============================================================================
