---------------------------- MODULE WorkQueueMC ----------------------------
(***************************************************************************)
(* Instances of WorkQueue for TLC.                                         *)
(***************************************************************************)
EXTENDS WorkQueue, TLC

QueueSymmetry == Permutations(Consumer) \cup Permutations(Message \ (Refused \cup Unhandled))

=============================================================================
