------------------------ MODULE TransactionLifecycle ------------------------
(***************************************************************************)
(* The life of Falcon transactions on one connection, at the initiator and *)
(* at the target: the metadata each host keeps, the states it goes through *)
(* (a missing transition is a failed CHECK and stops the program), the     *)
(* credits and the receiver packet contexts it holds, and who erases it.   *)
(*                                                                         *)
(* Source: host/falcon/falcon_connection_state.{h,cc}, falcon_utils.cc,    *)
(* falcon_model.cc, the credit computations of                             *)
(* falcon_protocol_resource_manager.cc and the hand-overs of               *)
(* falcon_protocol_packet_reliability_manager.cc.                          *)
(*                                                                         *)
(* The windows are abstracted to the sets of packets sent, received and    *)
(* acknowledged (SlidingWindow has their bitmaps), credits are never short *)
(* (NetworkAdmission has the zones), and receiver-not-ready NACKs only     *)
(* meet unordered connections (ReceiverNotReady has the ordered ones).     *)
(* The reservation mode is FIRST_PHASE_RESERVATION, the default.           *)
(***************************************************************************)
EXTENDS Integers, Sequences, FiniteSets

CONSTANTS
  Workloads,   \* sequences of transaction types: what the ULP initiates
  Modes,       \* the ordering modes of the connection
  MaxFaults,   \* bound: packets lost or retransmitted in vain
  MaxRnr       \* bound: receiver-not-ready NACKs of the target's ULP

Types == {"kPull", "kPushSolicited", "kPushUnsolicited"}
OrderingModes == {"kOrdered", "kUnordered"}

LifecycleAssumption ==
  /\ Workloads \subseteq Seq(Types)
  /\ Modes \subseteq OrderingModes
  /\ MaxFaults \in Nat /\ MaxRnr \in Nat

VARIABLES
  work, mode,    \* the workload and the ordering mode of this connection
  made,          \* next_request_sequence_number of the initiator
  transactions,  \* the transaction metadata of each host
  toSend,        \* packets in the connection schedulers, eligible to leave
  unacked,       \* outstanding_packet_contexts of both transmitters
  network,       \* packets on their way
  received,      \* packets whose receive_window bit has been set
  ackable,       \* packets whose ack_window bit has been set
  arrived,       \* what each reorder buffer has been given so far
  rxQueue,       \* the inter-host RX scheduler of each host
  ulp,           \* requests the target's ULP has to ACK, pulls to respond to
  waiting,       \* RNR-NACKed requests with a retry_time to come
  faults, rnrs   \* what is left of the two bounds

answerVars == <<ulp, waiting, rnrs>>
netVars == <<unacked, network, received, ackable, faults>>
queueVars == <<toSend, arrived, rxQueue>>
lifeVars == <<work, mode, made, transactions, queueVars, netVars, answerVars>>

Locations == {"kInitiator", "kTarget"}
WorkRsns == 1..Len(work)
Packet(r, type) == [rsn |-> r, type |-> type]
-----------------------------------------------------------------------------
(* Packet types. *)

PushData == {"kPushSolicitedData", "kPushUnsolicitedData"}

GetTransactionLocation(type, incoming) ==
  IF (type \in {"kPullData", "kPushGrant"}) = incoming
  THEN "kInitiator" ELSE "kTarget"

\* The packet a ULP operation starts with.
RdmaOpcodeToPacketType(type) ==
  CASE type = "kPull" -> "kPullRequest"
    [] type = "kPushSolicited" -> "kPushRequest"
    [] type = "kPushUnsolicited" -> "kPushUnsolicitedData"

GetNextFalconPacket(type) ==
  IF type = "kPushRequest" THEN "kPushGrant" ELSE "kPushSolicitedData"

\* The packet that carries a transaction's request to the target's ULP.
UlpRequest(type) ==
  IF type = "kPushSolicited" THEN "kPushSolicitedData"
  ELSE RdmaOpcodeToPacketType(type)
-----------------------------------------------------------------------------
(* TransactionMetadata::UpdateState, a row for every case. *)

Absent == {"none", "erased"}
PullStates ==
  {"kPullReqUlpRx", "kPullReqNtwkTx", "kPullDataNtwkRx", "kPullDataUlpTx",
   "kPullReqNtwkRx", "kPullReqUlpTx", "kPullReqAckUlpRx", "kPullReqRnrUlpRx",
   "kPullDataUlpRx", "kPullDataNtwkTx", "kPullDataAckNtwkRx"}
SolicitedStates ==
  {"kPushSolicitedReqUlpRx", "kPushReqNtwkTx", "kPushGrantNtwkRx",
   "kPushSolicitedDataNtwkTx", "kPushSolicitedDataAckNtwkRx",
   "kPushReqNtwkRx", "kPushGrantNtwkTx", "kPushSolicitedDataNtwkRx",
   "kPushSolicitedDataUlpTx", "kPushSolicitedDataAckUlpRx",
   "kPushSolicitedDataRnrUlpRx", "kPushCompletionUlpTx"}
UnsolicitedStates ==
  {"kPushUnsolicitedReqUlpRx", "kPushUnsolicitedDataNtwkTx",
   "kPushUnsolicitedDataAckNtwkRx", "kPushUnsolicitedDataNtwkRx",
   "kPushUnsolicitedDataUlpTx", "kPushUnsolicitedDataAckUlpRx",
   "kPushUnsolicitedDataRnrUlpRx", "kPushCompletionUlpTx"}
Live == PullStates \cup SolicitedStates \cup UnsolicitedStates
AnyState == Absent \cup Live

Row(type, stage, from, to) ==
  [type |-> type, stage |-> stage, from |-> from, to |-> to]

\* "same": the ACK of a packet that does not change the state.
PullSteps ==
  {Row("kPullRequest", "UlpRx", AnyState, "kPullReqUlpRx"),
   Row("kPullRequest", "UlpTx", {"kPullReqNtwkRx", "kPullReqRnrUlpRx"},
       "kPullReqUlpTx"),
   Row("kPullRequest", "UlpAckRx", {"kPullReqUlpTx"}, "kPullReqAckUlpRx"),
   Row("kPullRequest", "NtwkRx", AnyState, "kPullReqNtwkRx"),
   Row("kPullRequest", "NtwkTx", {"kPullReqUlpRx"}, "kPullReqNtwkTx"),
   Row("kPullRequest", "NtwkAckRx", Live, "same"),
   Row("kPullRequest", "UlpRnrRx", {"kPullReqUlpTx", "kPullReqNtwkRx"},
       "kPullReqRnrUlpRx"),
   Row("kPullData", "UlpRx", {"kPullReqAckUlpRx"}, "kPullDataUlpRx"),
   Row("kPullData", "UlpTx", {"kPullDataNtwkRx"}, "kPullDataUlpTx"),
   Row("kPullData", "NtwkRx", {"kPullReqNtwkTx"}, "kPullDataNtwkRx"),
   Row("kPullData", "NtwkTx", {"kPullDataUlpRx"}, "kPullDataNtwkTx"),
   Row("kPullData", "NtwkAckRx", {"kPullDataNtwkTx"}, "kPullDataAckNtwkRx")}

RequestAndGrantSteps ==
  {Row("kPushRequest", "UlpRx", AnyState, "kPushSolicitedReqUlpRx"),
   Row("kPushRequest", "NtwkRx", AnyState, "kPushReqNtwkRx"),
   Row("kPushRequest", "NtwkTx", {"kPushSolicitedReqUlpRx"}, "kPushReqNtwkTx"),
   Row("kPushRequest", "NtwkAckRx", Live, "same"),
   Row("kPushGrant", "NtwkRx", {"kPushReqNtwkTx"}, "kPushGrantNtwkRx"),
   Row("kPushGrant", "NtwkTx", {"kPushReqNtwkRx"}, "kPushGrantNtwkTx"),
   Row("kPushGrant", "NtwkAckRx", Live, "same")}

SolicitedDataSteps ==
  {Row("kPushSolicitedData", "UlpTx",
       {"kPushSolicitedDataNtwkRx", "kPushSolicitedDataRnrUlpRx"},
       "kPushSolicitedDataUlpTx"),
   Row("kPushSolicitedData", "UlpAckRx", {"kPushSolicitedDataUlpTx"},
       "kPushSolicitedDataAckUlpRx"),
   Row("kPushSolicitedData", "UlpCompletionTx",
       {"kPushSolicitedDataAckNtwkRx"}, "kPushCompletionUlpTx"),
   Row("kPushSolicitedData", "NtwkRx", {"kPushGrantNtwkTx"},
       "kPushSolicitedDataNtwkRx"),
   Row("kPushSolicitedData", "NtwkTx", {"kPushGrantNtwkRx"},
       "kPushSolicitedDataNtwkTx"),
   Row("kPushSolicitedData", "NtwkAckRx", {"kPushSolicitedDataNtwkTx"},
       "kPushSolicitedDataAckNtwkRx"),
   Row("kPushSolicitedData", "UlpRnrRx",
       {"kPushSolicitedDataUlpTx", "kPushSolicitedDataNtwkRx"},
       "kPushSolicitedDataRnrUlpRx")}

UnsolicitedDataSteps ==
  {Row("kPushUnsolicitedData", "UlpRx", AnyState, "kPushUnsolicitedReqUlpRx"),
   Row("kPushUnsolicitedData", "UlpTx",
       {"kPushUnsolicitedDataNtwkRx", "kPushUnsolicitedDataRnrUlpRx"},
       "kPushUnsolicitedDataUlpTx"),
   Row("kPushUnsolicitedData", "UlpAckRx", {"kPushUnsolicitedDataUlpTx"},
       "kPushUnsolicitedDataAckUlpRx"),
   Row("kPushUnsolicitedData", "UlpCompletionTx",
       {"kPushUnsolicitedDataAckNtwkRx"}, "kPushCompletionUlpTx"),
   Row("kPushUnsolicitedData", "NtwkRx", AnyState, "kPushUnsolicitedDataNtwkRx"),
   Row("kPushUnsolicitedData", "NtwkTx", {"kPushUnsolicitedReqUlpRx"},
       "kPushUnsolicitedDataNtwkTx"),
   Row("kPushUnsolicitedData", "NtwkAckRx", {"kPushUnsolicitedDataNtwkTx"},
       "kPushUnsolicitedDataAckNtwkRx"),
   Row("kPushUnsolicitedData", "UlpRnrRx",
       {"kPushUnsolicitedDataUlpTx", "kPushUnsolicitedDataNtwkRx"},
       "kPushUnsolicitedDataRnrUlpRx")}

Steps ==
  PullSteps \cup RequestAndGrantSteps \cup SolicitedDataSteps
    \cup UnsolicitedDataSteps

\* A CHECK that fails leaves the transaction in this state for good.
Failed(t) == [t EXCEPT !.state = "failed"]

UpdateState(t, type, stage) ==
  LET rows == {row \in Steps : row.type = type /\ row.stage = stage
                                 /\ t.state \in row.from}
  IN IF rows = {} THEN Failed(t)
     ELSE LET to == (CHOOSE row \in rows : TRUE).to
          IN [t EXCEPT !.state = IF to = "same" THEN @ ELSE to]
-----------------------------------------------------------------------------
(* Credits: one of a packet pool and, for a payload, one of a buffer pool. *)

CreditPools ==
  {"txPacketUlp", "txBufferUlp", "txPacketUlpData", "txBufferUlpData",
   "txPacketNetwork", "rxPacketUlp", "rxBufferUlp", "rxPacketNetwork",
   "rxBufferNetwork"}

Credits(pools) == [p \in CreditPools |-> IF p \in pools THEN 1 ELSE 0]
CreditsPlus(a, b) == [p \in CreditPools |-> a[p] + b[p]]
CreditsMinus(a, b) == [p \in CreditPools |-> a[p] - b[p]]
NoCredits == Credits({})

ComputeOutgoingPullRequest == Credits({"txPacketUlp", "txBufferUlp"})
ComputeIncomingPullRequest == Credits({"rxPacketNetwork", "rxBufferNetwork"})
ComputeOutgoingPullData == Credits({"txPacketUlpData", "txBufferUlpData"})
ComputeIncomingPullData == Credits({"rxPacketUlp", "rxBufferUlp"})
ComputeOutgoingPushRequest == Credits({"txPacketUlp", "txBufferUlp"})
ComputeIncomingPushRequest == Credits({"rxPacketNetwork"})
ComputeOutgoingPushGrant == Credits({"txPacketNetwork"})
ComputeIncomingPushGrant == Credits({"rxPacketUlp"})
ComputeOutgoingSolicitedData ==
  CreditsMinus(Credits({"txPacketUlp", "txBufferUlp"}), ComputeOutgoingPushRequest)
ComputeIncomingSolicitedData ==
  CreditsMinus(Credits({"rxPacketNetwork", "rxBufferNetwork"}), ComputeIncomingPushRequest)
ComputeOutgoingUnsolicitedData == Credits({"txPacketUlp", "txBufferUlp"})
ComputeUnsolicitedCompletion == Credits({"rxPacketUlp"})
ComputeIncomingUnsolicitedData ==
  Credits({"rxPacketNetwork", "rxBufferNetwork"})

\* What the first packet of a transaction reserves, for its successors too.
ReserveOutgoing(type) ==
  CASE type = "kPullRequest" ->
         CreditsPlus(ComputeOutgoingPullRequest, ComputeIncomingPullData)
    [] type = "kPullData" -> ComputeOutgoingPullData
    [] type = "kPushRequest" ->
         CreditsPlus(CreditsPlus(ComputeOutgoingPushRequest, ComputeIncomingPushGrant),
              ComputeOutgoingSolicitedData)
    [] type = "kPushUnsolicitedData" ->
         CreditsPlus(ComputeOutgoingUnsolicitedData, ComputeUnsolicitedCompletion)

ReserveIncoming(type) ==
  CASE type = "kPullRequest" -> ComputeIncomingPullRequest
    [] type = "kPushRequest" ->
         CreditsPlus(CreditsPlus(ComputeIncomingPushRequest, ComputeOutgoingPushGrant),
              ComputeIncomingSolicitedData)
    [] type = "kPushUnsolicitedData" -> ComputeIncomingUnsolicitedData
    [] OTHER -> NoCredits

\* What ReleaseResources gives back, by the direction of the packet.
ReleaseOutgoing(type) ==
  CASE type = "kPullRequest" -> ComputeOutgoingPullRequest
    [] type = "kPullData" -> ComputeOutgoingPullData
    [] type = "kPushRequest" -> NoCredits
    [] type = "kPushGrant" -> ComputeOutgoingPushGrant
    [] type = "kPushSolicitedData" ->
         CreditsPlus(CreditsPlus(ComputeOutgoingSolicitedData, ComputeIncomingPushGrant),
              ComputeOutgoingPushRequest)
    [] type = "kPushUnsolicitedData" ->
         CreditsPlus(ComputeOutgoingUnsolicitedData, ComputeUnsolicitedCompletion)

ReleaseIncoming(type) ==
  CASE type = "kPullRequest" -> ComputeIncomingPullRequest
    [] type = "kPullData" -> ComputeIncomingPullData
    [] type = "kPushSolicitedData" ->
         CreditsPlus(ComputeIncomingSolicitedData, ComputeIncomingPushRequest)
    [] type = "kPushUnsolicitedData" -> ComputeIncomingUnsolicitedData
-----------------------------------------------------------------------------
(* The metadata of a transaction at one host. *)

\* freed: the packets whose resources_reserved is no longer OK.
NoTransaction ==
  [state |-> "none", packets |-> {}, freed |-> {}, context |-> "none",
   held |-> NoCredits]

\* The credits taken stay on record: they are the resource manager's.
Erase(t) ==
  IF t.state = "failed" THEN t
  ELSE [t EXCEPT !.state = "erased", !.packets = {}, !.freed = {},
                 !.context = "none"]

\* New metadata for a packet replaces what there was.
CreatePacket(t, type) ==
  [t EXCEPT !.packets = @ \cup {type}, !.freed = @ \ {type}]

Reserve(t, credits) == [t EXCEPT !.held = CreditsPlus(@, credits)]

\* Without metadata, or a second time, the caller's CHECK_OK fails.
ReleaseResources(t, type, credits) ==
  IF t.state \notin Live \/ type \notin t.packets \ t.freed THEN Failed(t)
  ELSE [t EXCEPT !.held = CreditsMinus(@, credits), !.freed = @ \cup {type}]

\* The context names the last packet received, or only that one was sent.
CreateOrUpdateReceiverPacketContext(t, type, incoming) ==
  [t EXCEPT !.context = IF incoming THEN type
                        ELSE IF @ = "none" THEN "sent" ELSE @]

Set(host, r, t) == transactions' = [transactions EXCEPT ![host][r] = t]

CreateOrUpdateTransactionFromUlp(t, type) ==
  LET first == RdmaOpcodeToPacketType(type)
      packets == {first}
                 \cup (IF type = "kPushSolicited"
                       THEN {"kPushSolicitedData"} ELSE {})
                 \cup (IF type = "kPushUnsolicited" /\ mode = "kOrdered"
                       THEN {"kInvalid"} ELSE {})
  IN UpdateState([t EXCEPT !.packets = packets, !.freed = {}], first, "UlpRx")

\* Requests and unsolicited data create the metadata, unless it is there;
\* a new push request creates the grant as well.
CreateOrUpdateTransactionFromNetwork(t, type) ==
  LET fresh == t.state \in Absent
      first == type \in {"kPullRequest", "kPushRequest",
                         "kPushUnsolicitedData"}
      u == IF fresh /\ type = "kPushRequest"
           THEN CreatePacket(t, "kPushGrant") ELSE t
  IN IF fresh /\ ~first THEN Failed(t)
     ELSE UpdateState(CreatePacket(u, type), type, "NtwkRx")
-----------------------------------------------------------------------------
(* The reorder engine. *)

Lanes == {"initiatorRsn", "targetRsn", "initiatorSsn", "targetSsn"}

Lane(type) ==
  CASE type \in {"kPullData", "kAck"} -> "initiatorRsn"
    [] type = "kPushGrant" -> "initiatorSsn"
    [] type = "kPushRequest" -> "targetSsn"
    [] OTHER -> "targetRsn"

\* SSNs number the solicited transactions, in the order of their RSNs.
LaneRsns(lane) ==
  IF lane \in {"initiatorSsn", "targetSsn"}
  THEN {r \in WorkRsns : work[r] = "kPushSolicited"} ELSE WorkRsns

\* What the engine has let go of what it was given: all of it at once, or what
\* follows the RSNs before.
LetGo(lane, given) ==
  IF mode = "kUnordered" THEN given
  ELSE {r \in given : \A q \in LaneRsns(lane) : q < r => q \in given}

\* What an insertion lets go.
Freed(r, lane) ==
  LetGo(lane, arrived[lane] \cup {r}) \ LetGo(lane, arrived[lane])

LaneType(lane, r) ==
  CASE lane = "initiatorSsn" -> "kPushGrant"
    [] lane = "targetSsn" -> "kPushRequest"
    [] lane = "targetRsn" -> UlpRequest(work[r])
    [] lane = "initiatorRsn" ->
         IF work[r] = "kPull" THEN "kPullData" ELSE "kAck"

\* RSNs in the order in which next_target_rsn passes them.
Ascending(rsns) ==
  CHOOSE s \in [1..Cardinality(rsns) -> rsns] :
    \A j, k \in DOMAIN s : j < k => s[j] < s[k]

\* ReorderCallback: up to the ULP by way of the RX scheduler, or on with the
\* next packet of a solicited push.
ReorderCallbacks(rsns, lane) ==
  LET packets == [k \in 1..Cardinality(rsns) |->
                    Packet(Ascending(rsns)[k], LaneType(lane, Ascending(rsns)[k]))]
      host == IF lane \in {"initiatorRsn", "initiatorSsn"}
              THEN "kInitiator" ELSE "kTarget"
  IN IF lane \in {"initiatorRsn", "targetRsn"}
     THEN /\ rxQueue' = [rxQueue EXCEPT ![host] = @ \o packets]
          /\ UNCHANGED toSend
     ELSE /\ toSend' = toSend \cup
               {Packet(r, GetNextFalconPacket(LaneType(lane, r))) : r \in rsns}
          /\ UNCHANGED rxQueue

InsertInOrder(r, type) ==
  LET lane == Lane(type)
  IN /\ arrived' = [arrived EXCEPT ![lane] = @ \cup {r}]
     /\ ReorderCallbacks(Freed(r, lane), lane)
-----------------------------------------------------------------------------
(* Operations. *)

LifeInit ==
  /\ work \in Workloads /\ mode \in Modes
  /\ made = 0
  /\ transactions = [h \in Locations |-> [r \in WorkRsns |-> NoTransaction]]
  /\ toSend = {} /\ arrived = [l \in Lanes |-> {}]
  /\ rxQueue = [h \in Locations |-> <<>>]
  /\ unacked = {} /\ network = {} /\ received = {} /\ ackable = {}
  /\ ulp = {} /\ waiting = {}
  /\ faults = MaxFaults /\ rnrs = MaxRnr

\* The initiator's ULP hands over its next operation.
InitiateTransaction ==
  /\ made < Len(work)
  /\ made' = made + 1
  /\ LET r == made + 1
         first == RdmaOpcodeToPacketType(work[r])
     IN /\ Set("kInitiator", r,
               CreateOrUpdateTransactionFromUlp(
                 Reserve(transactions["kInitiator"][r], ReserveOutgoing(first)),
                 work[r]))
        /\ toSend' = toSend \cup {Packet(r, first)}
  /\ UNCHANGED <<work, mode, arrived, rxQueue, netVars, answerVars>>

\* The target's ULP responds to a pull request, some time after its ACK.
InitiatePullData(r) ==
  /\ Packet(r, "kPullData") \in ulp
  /\ ulp' = ulp \ {Packet(r, "kPullData")}
  /\ LET t == Reserve(transactions["kTarget"][r], ReserveOutgoing("kPullData"))
     IN Set("kTarget", r,
            UpdateState(CreatePacket(t, "kPullData"), "kPullData", "UlpRx"))
  /\ toSend' = toSend \cup {Packet(r, "kPullData")}
  /\ UNCHANGED <<work, mode, made, arrived, rxQueue, netVars, waiting, rnrs>>

\* In an ordered connection requests leave in the order of their RSNs, and
\* unsolicited data follows its phantom request.
MayGo(p) ==
  \/ mode = "kUnordered"
  \/ p.type \in {"kPushGrant", "kPullData", "kPushSolicitedData"}
  \/ \A q \in toSend : q.type \in {"kPullRequest", "kPushRequest"} => q.rsn >= p.rsn

\* The first transmission.  Without metadata the packet is not sent.
TransmitPacket(p) ==
  /\ p \in toSend /\ MayGo(p)
  /\ LET host == GetTransactionLocation(p.type, FALSE)
         t == transactions[host][p.rsn]
     IN IF p.type \notin t.packets THEN Set(host, p.rsn, Failed(t))
        ELSE Set(host, p.rsn,
                 UpdateState(CreateOrUpdateReceiverPacketContext(t, p.type, FALSE),
                             p.type, "NtwkTx"))
  /\ toSend' = toSend \ {p}
  /\ unacked' = unacked \cup {p}
  /\ network' = network \cup {p}
  /\ UNCHANGED <<work, mode, made, arrived, rxQueue, received, ackable, faults,
                 answerVars>>

\* A retransmission does not touch the state.  One of a packet that has
\* arrived is in vain.
Retransmit(p) ==
  /\ p \in unacked \ network
  /\ IF p \in received THEN faults > 0 /\ faults' = faults - 1
     ELSE UNCHANGED faults
  /\ network' = network \cup {p}
  /\ LET host == GetTransactionLocation(p.type, FALSE)
     IN Set(host, p.rsn, CreateOrUpdateReceiverPacketContext(
                           transactions[host][p.rsn], p.type, FALSE))
  /\ UNCHANGED <<work, mode, made, queueVars, unacked, received, ackable,
                 answerVars>>

Lose(p) ==
  /\ p \in network /\ faults > 0
  /\ network' = network \ {p} /\ faults' = faults - 1
  /\ UNCHANGED <<work, mode, made, transactions, queueVars, unacked,
                 received, ackable, answerVars>>
-----------------------------------------------------------------------------
(* Acknowledgements from the network. *)

\* The transaction after EnqueueAckToUlp of one of its packets.
AckedFromNetwork(t, type) ==
  LET u == UpdateState(t, type, "NtwkAckRx")
      v == ReleaseResources(u, type, ReleaseOutgoing(type))
  IN IF type \in PushData THEN u
     ELSE IF type = "kPullData" THEN Erase(v) ELSE v

\* An ACK that covers p.  Push data completes by way of the reorder engine.
EnqueueAckToUlp(p) ==
  /\ p \in unacked \cap ackable
  /\ unacked' = unacked \ {p}
  /\ LET host == GetTransactionLocation(p.type, FALSE)
     IN Set(host, p.rsn, AckedFromNetwork(transactions[host][p.rsn], p.type))
  /\ IF p.type \in PushData THEN InsertInOrder(p.rsn, "kAck")
     ELSE UNCHANGED queueVars
  /\ UNCHANGED <<work, mode, made, network, received, ackable, faults, answerVars>>

\* A response acknowledges what it responds to.
Implied(p) ==
  CASE p.type = "kPullData" -> {Packet(p.rsn, "kPullRequest")}
    [] p.type = "kPushGrant" -> {Packet(p.rsn, "kPushRequest")}
    [] p.type = "kPushSolicitedData" -> {Packet(p.rsn, "kPushGrant")}
    [] OTHER -> {}

\* A plausible bug: what has been acknowledged is acknowledged once more.
HandleImplicitAckTwice(t, p) ==
  IF Implied(p) = {} THEN t
  ELSE AckedFromNetwork(t, (CHOOSE q \in Implied(p) : TRUE).type)

HandleImplicitAck(t, p) ==
  IF Implied(p) \cap unacked = {} THEN t
  ELSE AckedFromNetwork(t, (CHOOSE q \in Implied(p) : TRUE).type)

\* A plausible bug: push data is acknowledged before the ULP has taken it.
UpdateReceiveAckBitmapAtOnce(p) == ackable \cup {p}

\* Push data waits for the ULP's ACK.
UpdateReceiveAckBitmap(p) ==
  IF p.type \in PushData THEN ackable ELSE ackable \cup {p}

\* A new packet: implicit ACK, window, context, metadata, credits, reordering.
AcceptPacket(p) ==
  /\ p \in network \ received
  /\ network' = network \ {p}
  /\ received' = received \cup {p}
  /\ ackable' = UpdateReceiveAckBitmap(p)
  /\ unacked' = unacked \ Implied(p)
  /\ LET host == GetTransactionLocation(p.type, TRUE)
         t == HandleImplicitAck(transactions[host][p.rsn], p)
         u == CreateOrUpdateReceiverPacketContext(t, p.type, TRUE)
     IN Set(host, p.rsn,
            Reserve(CreateOrUpdateTransactionFromNetwork(u, p.type),
                    ReserveIncoming(p.type)))
  /\ InsertInOrder(p.rsn, p.type)
  /\ UNCHANGED <<work, mode, made, faults, answerVars>>

\* SendToUlpTarget once more.
Retry(r) ==
  /\ waiting' = waiting \ {r}
  /\ rxQueue' = [rxQueue EXCEPT !["kTarget"] =
                   Append(@, Packet(r, UlpRequest(work[r])))]
  /\ UNCHANGED <<work, mode, made, transactions, toSend, arrived, ulp, rnrs>>

\* A duplicate is dropped; one of RNR-NACKed push data makes it retry.
HandleDuplicateNackedPacket(p) ==
  /\ p \in network \cap received
  /\ network' = network \ {p}
  /\ IF p.type \in PushData /\ p.rsn \in waiting THEN Retry(p.rsn)
     ELSE UNCHANGED <<work, mode, made, transactions, queueVars, answerVars>>
  /\ UNCHANGED <<unacked, received, ackable, faults>>
-----------------------------------------------------------------------------
(* The ULP side. *)

\* The completion of a push: state, credits, context and metadata at once.
Complete(t, type) ==
  LET data == UlpRequest(type)
  IN Erase(ReleaseResources(UpdateState(t, data, "UlpCompletionTx"),
                            data, ReleaseOutgoing(data)))

\* A plausible bug: the pull transaction goes without giving back its credits.
ForwardToUlpUnreleased(t, type) ==
  LET u == IF t.state \in Live /\ type \in t.packets
           THEN UpdateState(t, type, "UlpTx") ELSE Failed(t)
  IN IF type = "kPullData" THEN Erase(u) ELSE u

\* Pull data ends the transaction at the initiator.
ForwardToUlp(t, type) ==
  LET u == IF t.state \in Live /\ type \in t.packets
           THEN UpdateState(t, type, "UlpTx") ELSE Failed(t)
  IN IF type = "kPullData"
     THEN Erase(ReleaseResources(u, type, ReleaseIncoming(type))) ELSE u

\* The RX scheduler of a host runs the callback at its head.
DeliverToUlp(host) ==
  /\ rxQueue[host] # <<>>
  /\ rxQueue' = [rxQueue EXCEPT ![host] = Tail(@)]
  /\ LET p == Head(rxQueue[host])
         t == transactions[host][p.rsn]
     IN /\ Set(host, p.rsn, IF p.type = "kAck" THEN Complete(t, work[p.rsn])
                            ELSE ForwardToUlp(t, p.type))
        /\ ulp' = IF host = "kTarget" THEN ulp \cup {p} ELSE ulp
  /\ UNCHANGED <<work, mode, made, toSend, arrived, netVars, waiting, rnrs>>

\* HandleAckFromUlp: push data leaves no metadata, a pull goes on.
AckedFromUlp(t, type) ==
  IF t.context = "none" THEN Failed(t)
  ELSE IF type = "kPullRequest" THEN t ELSE Erase(t)

AckFromUlp(p) ==
  /\ p \in ulp /\ p.type # "kPullData"
  /\ ulp' = (ulp \ {p}) \cup
       (IF p.type = "kPullRequest" THEN {Packet(p.rsn, "kPullData")} ELSE {})
  /\ LET t == UpdateState(transactions["kTarget"][p.rsn], p.type, "UlpAckRx")
         u == ReleaseResources(t, p.type, ReleaseIncoming(p.type))
     IN Set("kTarget", p.rsn, AckedFromUlp(u, p.type))
  /\ ackable' = ackable \cup {p}
  /\ UNCHANGED <<work, mode, made, queueVars, unacked, network, received,
                 faults, waiting, rnrs>>

\* A receiver-not-ready NACK: the metadata keeps it for the retry.
HandleNackFromUlp(p) ==
  /\ mode = "kUnordered" /\ rnrs > 0
  /\ p \in ulp /\ p.type # "kPullData"
  /\ ulp' = ulp \ {p} /\ waiting' = waiting \cup {p.rsn} /\ rnrs' = rnrs - 1
  /\ LET t == transactions["kTarget"][p.rsn]
     IN Set("kTarget", p.rsn, IF t.context \notin t.packets THEN Failed(t)
                              ELSE UpdateState(t, p.type, "UlpRnrRx"))
  /\ UNCHANGED <<work, mode, made, queueVars, netVars>>

\* A plausible bug: the timer takes the entry without sending it again.
RnrTimeoutDropped(r) ==
  /\ r \in waiting
  /\ waiting' = waiting \ {r}
  /\ UNCHANGED <<work, mode, made, transactions, queueVars, netVars, ulp, rnrs>>

RnrTimeout(r) == r \in waiting /\ Retry(r) /\ UNCHANGED netVars

Gone(host) == \A r \in WorkRsns : transactions[host][r].state = "erased"

LifeFinished == (\A h \in Locations : Gone(h)) /\ network = {} /\ UNCHANGED lifeVars

LifeNext ==
  \/ InitiateTransaction
  \/ \E r \in WorkRsns : InitiatePullData(r) \/ RnrTimeout(r)
  \/ \E p \in toSend : TransmitPacket(p)
  \/ \E p \in unacked : Retransmit(p) \/ EnqueueAckToUlp(p)
  \/ \E p \in network : \/ AcceptPacket(p) \/ Lose(p)
                        \/ HandleDuplicateNackedPacket(p)
  \/ \E h \in Locations : DeliverToUlp(h)
  \/ \E p \in ulp : AckFromUlp(p) \/ HandleNackFromUlp(p)
  \/ LifeFinished

\* The event queue runs whatever is scheduled, and the bounded faults leave
\* no way to go on for ever.
LifeFairness == WF_lifeVars(LifeNext)

LifeSpec == LifeInit /\ [][LifeNext]_lifeVars /\ LifeFairness
-----------------------------------------------------------------------------
(* Properties. *)

LifeTypeOK ==
  /\ made \in 0..Len(work)
  /\ \A h \in Locations, r \in WorkRsns :
       transactions[h][r].state \in AnyState \cup {"failed"}
  /\ waiting \subseteq WorkRsns

\* No order of packets, ACKs, duplicates, retries and ULP answers makes a
\* CHECK of UpdateState, of a metadata or context lookup or of a release fail.
NoCheckFails ==
  \A h \in Locations, r \in WorkRsns : transactions[h][r].state # "failed"

\* ReleaseResources never gives back more than was reserved, and a host has
\* nothing left of a transaction it has erased.
CreditsReturned ==
  \A h \in Locations, r \in WorkRsns :
    LET t == transactions[h][r]
    IN /\ \A p \in CreditPools : t.held[p] >= 0
       /\ t.state \in Absent => t.held = NoCredits

TransactionsSound == LifeTypeOK /\ NoCheckFails /\ CreditsReturned

\* The initiator's ULP sees a push complete only when the target's ULP has
\* acknowledged it, and a pull only when the target has sent the data.
CompletedAtTheTarget ==
  \A r \in WorkRsns :
    transactions["kInitiator"][r].state \in {"kPushCompletionUlpTx", "erased"}
      => transactions["kTarget"][r].state \in
           {"erased"} \cup (IF work[r] = "kPull" THEN {"kPullDataNtwkTx"} ELSE {})
=============================================================================
