-------------------------- MODULE ReceiverNotReady --------------------------
(***************************************************************************)
(* Requests on their way from the target's reorder engine to the RDMA      *)
(* queue pair and back: in-order delivery, receiver-not-ready (RNR) NACKs,  *)
(* retries by timer or by a duplicate from the network, and ULP ACKs.      *)
(*                                                                         *)
(* Source: host/falcon/falcon_protocol_buffer_reorder_engine.cc,           *)
(* host/falcon/falcon_model.cc (TransferRxPacket, ReorderCallback,         *)
(* AckTransaction), host/rdma/rdma_falcon_model.cc (incoming requests) and  *)
(* the target states of host/falcon/falcon_connection_state.cc.            *)
(*                                                                         *)
(* Time is abstracted: a retry_time in the future is "waiting", one that   *)
(* has come is "due".  rnr_timeout is a parameter of every NACK, so timers *)
(* may expire in any order.                                                *)
(***************************************************************************)
EXTENDS Naturals, Sequences, SequencesExt, FiniteSetsExt

CONSTANTS
  MaxRsn,   \* bound: requests 0..MaxRsn-1 are sent
  Pulls     \* those of them that are pull requests, the others are push data

\* The bounds of an instance.
RnrAssumption ==
  /\ MaxRsn \in Nat \ {0}
  /\ Pulls \subseteq 0..(MaxRsn - 1)

VARIABLES
  ordered,      \* the ordering mode of the connection, fixed when it is made
  buffer,       \* target_rsn_buffer: where an RSN's retry_time stands
  nextTarget,   \* next_target_rsn
  nextNetwork,  \* next_target_network_rsn
  inRnr,        \* in_rnr of the reorder engine
  stage,        \* TransactionState of the request at the target
  nacked,       \* RSNs whose nack_code is kUlpReceiverNotReady
  rxQ,          \* RX scheduler queue and RDMA pipeline, both FIFO
  nextRx,       \* next_rx_rsn of the queue pair
  qpRnr,        \* in_rnr of the queue pair
  responses,    \* scheduled AckTransaction calls, in the order of their time
  late          \* accepted writes still waiting for their host transfer

engineVars == <<buffer, nextTarget, nextNetwork, inRnr>>
metadataVars == <<stage, nacked>>
qpVars == <<ordered, nextRx, qpRnr>>
rnrVars == <<engineVars, metadataVars, rxQ, qpVars, responses, late>>

TargetRsns == 0..(MaxRsn - 1)
Response(r, ok) == [rsn |-> r, ok |-> ok]

RnrInit ==
  /\ ordered \in BOOLEAN
  /\ buffer = [r \in TargetRsns |-> "absent"]
  /\ nextTarget = 0 /\ nextNetwork = 0 /\ inRnr = FALSE
  /\ stage = [r \in TargetRsns |-> "none"] /\ nacked = {}
  /\ rxQ = <<>> /\ nextRx = 0 /\ qpRnr = FALSE
  /\ responses = <<>> /\ late = {}
-----------------------------------------------------------------------------
(* Reorder engine. *)

\* An entry never sent (retry_time zero) or whose retry_time has come.
Ready(b, r) == b[r] \in {"new", "due"}

\* The first RSN from n on at which CheckTargetRsnBuffer stops.
RunEnd(b, n) == Min({m \in n..MaxRsn : m = MaxRsn \/ ~Ready(b, m)})

\* A plausible bug: a retried request stays eligible while it is in flight.
SendToUlpTargetStaysReady(b, n, m) ==
  /\ buffer' = b
  /\ rxQ' = rxQ \o [i \in 1..(m - n) |-> n + i - 1]
  /\ nextTarget' = IF ordered THEN m ELSE nextTarget

\* SendToUlpTarget for every RSN of n..m-1.
SendToUlpTarget(b, n, m) ==
  /\ buffer' = [r \in TargetRsns |-> IF r \in n..(m - 1) THEN "flight" ELSE b[r]]
  /\ rxQ' = rxQ \o [i \in 1..(m - n) |-> n + i - 1]
  /\ nextTarget' = IF ordered THEN m ELSE nextTarget

\* In order: whatever is ready from next_target_rsn on.
CheckTargetRsnBuffer(b) ==
  SendToUlpTarget(b, nextTarget, RunEnd(b, nextTarget))

Hold(b) == buffer' = b /\ UNCHANGED <<rxQ, nextTarget>>

\* The metadata of a new request, which a refusal marks as RNR-NACKed.
TransferRxPacket(r, refused) ==
  /\ stage' = [stage EXCEPT ![r] = IF refused THEN "RnrUlpRx" ELSE "NtwkRx"]
  /\ nacked' = IF refused THEN nacked \cup {r} ELSE nacked

\* A new request from the network.  Push data that is not at the head while
\* the connection is in RNR state is RNR-NACKed to its initiator at once.
InsertPacket(r) ==
  /\ stage[r] = "none"
  /\ LET b == [buffer EXCEPT ![r] = "new"]
         refused == ordered /\ r # nextTarget /\ inRnr /\ r \notin Pulls
     IN /\ IF ~ordered THEN SendToUlpTarget(b, r, r + 1)
           ELSE IF r = nextTarget THEN CheckTargetRsnBuffer(b)
           ELSE Hold(b)
        /\ TransferRxPacket(r, refused)
  /\ UNCHANGED <<nextNetwork, inRnr, qpVars, responses, late>>

\* A duplicate of RNR-NACKed push data makes the head of line retry at once.
RetryRnrNackedPacket(r) ==
  /\ r \in nacked \ Pulls
  /\ buffer[r] \notin {"absent", "flight"}
  /\ IF ordered
     THEN /\ r = nextTarget
          /\ CheckTargetRsnBuffer([buffer EXCEPT ![r] = "due"])
     ELSE SendToUlpTarget(buffer, r, r + 1)
  /\ UNCHANGED <<nextNetwork, inRnr, metadataVars, qpVars, responses, late>>

\* A plausible bug: the expired timer is taken for an outdated one.
HandleRnrTimeoutIgnored(r) ==
  /\ buffer[r] = "waiting"
  /\ Hold(buffer)
  /\ UNCHANGED <<nextNetwork, inRnr, metadataVars, qpVars, responses, late>>

HandleRnrTimeout(r) ==
  /\ buffer[r] = "waiting"
  /\ LET b == [buffer EXCEPT ![r] = "due"]
     IN IF ~ordered THEN SendToUlpTarget(b, r, r + 1)
        ELSE IF r = nextTarget THEN CheckTargetRsnBuffer(b)
        ELSE Hold(b)
  /\ UNCHANGED <<nextNetwork, inRnr, metadataVars, qpVars, responses, late>>

\* A plausible bug: delivery is not rewound to the refused request.
HandleRnrNackWithoutRewind(r) ==
  /\ buffer' = [buffer EXCEPT ![r] = "waiting"]
  /\ UNCHANGED nextTarget
  /\ inRnr' = (ordered \/ inRnr)
  /\ UNCHANGED nextNetwork

HandleRnrNackFromUlp(r) ==
  /\ buffer' = [buffer EXCEPT ![r] = "waiting"]
  /\ nextTarget' = IF ordered /\ r < nextTarget THEN r ELSE nextTarget
  /\ inRnr' = (ordered \/ inRnr)
  /\ UNCHANGED nextNetwork

\* A plausible bug: the head of line jumps past the acknowledged request.
HandleAckFromUlpJumps(r) ==
  /\ buffer' = [buffer EXCEPT ![r] = "absent"]
  /\ nextNetwork' = IF ordered THEN nextNetwork + 2 ELSE nextNetwork
  /\ inRnr' = (inRnr /\ ~ordered)
  /\ UNCHANGED nextTarget

HandleAckFromUlp(r) ==
  /\ buffer' = [buffer EXCEPT ![r] = "absent"]
  /\ nextNetwork' = IF ordered THEN nextNetwork + 1 ELSE nextNetwork
  /\ inRnr' = (inRnr /\ ~ordered)
  /\ UNCHANGED nextTarget
-----------------------------------------------------------------------------
(* The queue pair. *)

\* IsRsnAcceptable; out of order outside RNR it is fatal (UlpInOrder).
IsRsnAcceptable(r) == ordered => r = nextRx

\* ProcessIncomingWrite, -Send and -ReadRequest: the request is refused when
\* it is out of order or when the receiver has no room for it.  (The stage is
\* set when the request leaves the RX scheduler for the RDMA pipeline; nothing
\* reads it before the queue pair takes it up, so the two steps are one.)
ProcessRefused ==
  /\ rxQ # <<>>
  /\ LET r == Head(rxQ)
     IN /\ stage' = [stage EXCEPT ![r] = "UlpTx"]
        /\ responses' = Append(responses, Response(r, FALSE))
  /\ rxQ' = Tail(rxQ)
  /\ qpRnr' = (ordered \/ qpRnr)
  /\ UNCHANGED <<ordered, engineVars, nacked, nextRx, late>>

\* A plausible bug: a request is accepted out of order.
ProcessAcceptedAnyOrder ==
  /\ rxQ # <<>>
  /\ LET r == Head(rxQ)
     IN /\ stage' = [stage EXCEPT ![r] = "UlpTx"]
        /\ responses' = Append(responses, Response(r, TRUE))
  /\ rxQ' = Tail(rxQ)
  /\ nextRx' = IF ordered THEN nextRx + 1 ELSE nextRx
  /\ qpRnr' = (qpRnr /\ ~ordered)
  /\ UNCHANGED <<ordered, engineVars, nacked, late>>

ProcessAccepted ==
  /\ rxQ # <<>>
  /\ IsRsnAcceptable(Head(rxQ))
  /\ LET r == Head(rxQ)
     IN /\ stage' = [stage EXCEPT ![r] = "UlpTx"]
        /\ responses' = Append(responses, Response(r, TRUE))
  /\ rxQ' = Tail(rxQ)
  /\ nextRx' = IF ordered THEN nextRx + 1 ELSE nextRx
  /\ qpRnr' = (qpRnr /\ ~ordered)
  /\ UNCHANGED <<ordered, engineVars, nacked, late>>
-----------------------------------------------------------------------------
(* AckTransaction. *)

\* An ACK: the transaction state, then the reorder engine.
AckUlpTransaction(r) ==
  /\ stage' = [stage EXCEPT ![r] = "AckUlpRx"]
  /\ HandleAckFromUlp(r)
  /\ UNCHANGED <<nacked, rxQ, qpVars>>

TransferAck ==
  /\ responses # <<>> /\ Head(responses).ok
  /\ responses' = Tail(responses)
  /\ AckUlpTransaction(Head(responses).rsn)
  /\ UNCHANGED late

\* The ACK of a write is due but its data is still in the host buffer.
WaitForHost ==
  /\ responses # <<>> /\ Head(responses).ok /\ Head(responses).rsn \notin Pulls
  /\ responses' = Tail(responses)
  /\ late' = late \cup {Head(responses).rsn}
  /\ UNCHANGED <<engineVars, metadataVars, rxQ, qpVars>>

\* The host buffer's transfer callback acknowledges the write.
TransferToHost(r) ==
  /\ r \in late
  /\ late' = late \ {r}
  /\ AckUlpTransaction(r)
  /\ UNCHANGED responses

TransferNack ==
  /\ responses # <<>> /\ ~Head(responses).ok
  /\ responses' = Tail(responses)
  /\ LET r == Head(responses).rsn
     IN /\ nacked' = nacked \cup {r}
        /\ stage' = [stage EXCEPT ![r] = "RnrUlpRx"]
        /\ HandleRnrNackFromUlp(r)
  /\ UNCHANGED <<rxQ, qpVars, late>>

Acked == {r \in TargetRsns : stage[r] = "AckUlpRx"}

\* Everything is delivered.
RnrFinished == Acked = TargetRsns /\ UNCHANGED rnrVars

RnrNext ==
  \/ \E r \in TargetRsns :
       \/ InsertPacket(r)
       \/ RetryRnrNackedPacket(r)
       \/ HandleRnrTimeout(r)
       \/ TransferToHost(r)
  \/ ProcessRefused
  \/ ProcessAccepted
  \/ TransferAck
  \/ WaitForHost
  \/ TransferNack
  \/ RnrFinished

RnrSpec == RnrInit /\ [][RnrNext]_rnrVars

\* The initiator retransmits until a request arrives, every scheduled event
\* runs, and the receiver is not refusing for ever.
RnrFairness ==
  /\ \A r \in TargetRsns : WF_rnrVars(InsertPacket(r)) /\ WF_rnrVars(HandleRnrTimeout(r))
                     /\ WF_rnrVars(TransferToHost(r))
  /\ WF_rnrVars(ProcessRefused \/ ProcessAccepted)
  /\ SF_rnrVars(ProcessAccepted)
  /\ WF_rnrVars(TransferAck \/ WaitForHost \/ TransferNack)

RnrFairSpec == RnrSpec /\ RnrFairness
-----------------------------------------------------------------------------
(* Properties. *)

\* IsRsnAcceptable's LOG(FATAL): outside RNR state the queue pair of an
\* ordered connection is handed exactly the request it expects, although
\* refused requests, requests sent before the refusal and retries interleave.
UlpInOrder ==
  (ordered /\ rxQ # <<>> /\ ~qpRnr) => Head(rxQ) = nextRx

\* The CHECKs of UpdateState at the target: a request is handed over only
\* after it arrived or was refused, never twice at a time, and answered only
\* after it was handed over.
StagesFollow ==
  /\ IsInjective(rxQ)
  /\ \A i \in 1..Len(rxQ) : stage[rxQ[i]] \in {"NtwkRx", "RnrUlpRx"}
  /\ \A i \in 1..Len(responses) : stage[responses[i].rsn] = "UlpTx"
  /\ \A r \in late : stage[r] = "UlpTx"

\* A refused or waiting request is never behind next_target_rsn, where
\* HandleRnrTimeout and CheckTargetRsnBuffer would not look for it again, and
\* next_target_rsn never rests on one that is ready or already acknowledged.
NothingLeftBehind ==
  ordered => /\ \A r \in TargetRsns : buffer[r] \in {"new", "due", "waiting"} => r >= nextTarget
             /\ nextTarget < MaxRsn => ~Ready(buffer, nextTarget)
             /\ \A r \in Acked : r < nextTarget

\* IsHeadOfLineNetworkRequest: next_target_network_rsn is never past a
\* request that has not arrived, so the oldest missing request becomes the
\* head of line, which admission control always lets in.
HeadOfLineNotPassed ==
  ordered => \A r \in TargetRsns : stage[r] = "none" => r >= nextNetwork

\* The ULP is handed the requests in order and in the right state, and the
\* head of line is not passed.
RequestsInOrder == UlpInOrder /\ StagesFollow /\ HeadOfLineNotPassed

\* Every request is finally accepted and acknowledged by the ULP.
AllRequestsAcked == <>(Acked = TargetRsns)
-----------------------------------------------------------------------------
(* The inductive invariant. *)

Stages == {"none", "NtwkRx", "RnrUlpRx", "UlpTx", "AckUlpRx"}
RetryTimes == {"absent", "new", "flight", "waiting", "due"}

\* Types of the variables.
RnrTypeOK ==
  /\ ordered \in BOOLEAN /\ inRnr \in BOOLEAN /\ qpRnr \in BOOLEAN
  /\ buffer \in [TargetRsns -> RetryTimes]
  /\ stage \in [TargetRsns -> Stages]
  /\ nextTarget \in 0..MaxRsn /\ nextNetwork \in Nat /\ nextRx \in 0..MaxRsn
  /\ nacked \subseteq TargetRsns /\ late \subseteq TargetRsns
  /\ rxQ \in Seq(TargetRsns) /\ responses \in Seq([rsn : TargetRsns, ok : BOOLEAN])

Queued(q, r) == \E i \in 1..Len(q) : q[i] = r
AnsweredAt(r) == {i \in 1..Len(responses) : responses[i].rsn = r}

\* Reorder buffer b, stages st and RX queue q agree on where a request is: in
\* the buffer, in the queue, with the ULP, in an answer on its way, or gone.
PlacesAgree(b, st, q) ==
  \A r \in TargetRsns :
    /\ b[r] = "absent" <=> st[r] \in {"none", "AckUlpRx"}
    /\ st[r] = "UlpTx" => b[r] = "flight"
    /\ Queued(q, r) <=> b[r] = "flight" /\ st[r] # "UlpTx"
    /\ AnsweredAt(r) # {} \/ r \in late => st[r] = "UlpTx"
    /\ AnsweredAt(r) # {} => r \notin late

\* A request is queued once and answered once.
OnePlaceEach ==
  /\ \A i, j \in 1..Len(rxQ) : rxQ[i] = rxQ[j] => i = j
  /\ \A i, j \in 1..Len(responses) : responses[i].rsn = responses[j].rsn => i = j

\* The queue pair has accepted exactly the requests below next_rx_rsn.
AcceptedBelow ==
  /\ nextRx <= nextTarget
  /\ \A i \in 1..Len(rxQ) : rxQ[i] >= nextRx
  /\ \A i \in 1..Len(responses) : responses[i].ok <=> responses[i].rsn < nextRx
  /\ \A r \in late \cup Acked : r < nextRx

\* From the request the queue pair waits for on, the RX queue is a run that
\* ends just before next_target_rsn.
QueueEndsInRun ==
  \A i \in 1..Len(rxQ) : rxQ[i] = nextRx =>
    /\ nextTarget = nextRx + (Len(rxQ) - i) + 1
    /\ \A j \in i..Len(rxQ) : rxQ[j] = nextRx + (j - i)

\* The request the queue pair waits for is the one the engine sends next, or
\* it is in the queue, or it was refused and the refusal is on its way.
ExpectedIsComing ==
  \/ nextTarget = nextRx
  \/ Queued(rxQ, nextRx)
  \/ qpRnr /\ AnsweredAt(nextRx) # {}

\* Requests in buffer b that are not under way, and those that never arrived,
\* are not behind position n of the engine.
NoneBehind(b, st, n) ==
  \A r \in TargetRsns : b[r] \in {"new", "due", "waiting"} \/ st[r] = "none" => r >= n

\* The engine has stopped where it had to.
EngineStopped == nextTarget < MaxRsn => ~Ready(buffer, nextTarget)

\* next_target_network_rsn counts the requests acknowledged.
RnrAcksCounted == nextNetwork = Cardinality(Acked)

\* What holds of an ordered connection.
OrderedInv ==
  /\ AcceptedBelow /\ QueueEndsInRun /\ ExpectedIsComing /\ UlpInOrder
  /\ NoneBehind(buffer, stage, nextTarget) /\ EngineStopped /\ RnrAcksCounted

\* The inductive invariant.
RnrIInv ==
  /\ RnrTypeOK
  /\ PlacesAgree(buffer, stage, rxQ) /\ OnePlaceEach
  /\ ordered => OrderedInv
=============================================================================
