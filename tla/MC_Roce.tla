------------------------------ MODULE MC_Roce ------------------------------
(* A RoCE queue pair whose ACKs may be lost: two writes and a read. *)
EXTENDS RoceTransport

MCOps == <<[read |-> FALSE, packets |-> 2], [read |-> TRUE, packets |-> 1],
           [read |-> FALSE, packets |-> 1]>>
=============================================================================
