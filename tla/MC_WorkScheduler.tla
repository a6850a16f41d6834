-------------------------- MODULE MC_WorkScheduler --------------------------
(* Two queue pairs: one reads up to its ORD limit, one writes and responds. *)
EXTENDS WorkScheduler

CONSTANTS q1, q2

MCQps == {q1, q2}
Read(n) == [kind |-> "read", packets |-> n]
Write(n) == [kind |-> "write", packets |-> n]
MCOps == [q \in MCQps |-> IF q = q1 THEN <<Read(1), Read(1)>> ELSE <<Write(2)>>]
MCInbound == [q \in MCQps |-> IF q = q1 THEN 0 ELSE 1]
MCCredits == [request |-> 2, response |-> 1]
MCQpCredits == [request |-> 2, response |-> 1]
MCXoffLimit == [request |-> 1, response |-> 1]
MCMaxUlpRequests == [txPacket |-> 2, txBuffer |-> 2]
MCMaxUlpData == [txPacket |-> 1, txBuffer |-> 1]

\* One queue pair both reads and responds, the other writes.
OrdOps == [q \in MCQps |-> IF q = q1 THEN <<Read(1), Read(1)>> ELSE <<Write(1)>>]
OrdInbound == [q \in MCQps |-> IF q = q1 THEN 1 ELSE 0]
=============================================================================
