---------------------------- MODULE MCUblkQueue ----------------------------
(* UblkQueue for TLC: the messages of the pool are interchangeable. *)
EXTENDS UblkQueue, TLC

MessageSymmetry == Permutations(Messages)
==============================================================================
