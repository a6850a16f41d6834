--------------------------- MODULE SchedulerQueues ---------------------------
(***************************************************************************)
(* What the connection schedulers of Falcon share: the per-connection      *)
(* queues by packet type, the packets that ordering holds back, the counts *)
(* of outstanding packets, the gates of the packet reliability manager and *)
(* the admission control manager, and what a transmission changes.         *)
(*                                                                         *)
(* Source: host/falcon/falcon_protocol_base_connection_scheduler.cc,       *)
(* falcon_protocol_fast_connection_scheduler.cc,                           *)
(* falcon_protocol_connection_scheduler_types.cc,                          *)
(* falcon_protocol_admission_control_manager.cc, and the gating criteria   *)
(* of falcon_protocol_packet_reliability_manager.cc.                       *)
(*                                                                         *)
(* The state is one record s, so that a handler that calls others is a     *)
(* composition of functions on it.  A PSN is the index of a packet in      *)
(* s.sent; every solicited transfer has the length of one request.         *)
(***************************************************************************)
EXTENDS Naturals, Sequences, FiniteSets, FiniteSetsExt, Functions

CONSTANTS
  Conns,            \* source connection ids, integers
  Ordered,          \* those in ordered mode
  Ops,              \* Ops[c]: the transactions of c in RSN order, see First
  Fast,             \* event-based schedulers, else the polling ones
  MaxCwnd, Ncwnd,   \* congestion windows, in packets
  Controls,         \* admission_control_policy: a set of "rx_window", "rx_rate", "tx_rate"
  AdmissionWindow,  \* admission_window_bytes in requests
  Burst             \* burst_size_bytes of the rate limiters in requests

Windows == {"request", "data"}

\* The queues of a connection (PacketTypeQueue).
Requests == 0
UnorderedPush == 1
PushData == 2
Grants == 3
PullData == 4
QueueTypes == 0..4

QueuesAssumption ==
  /\ Conns \subseteq Nat /\ Ordered \subseteq Conns /\ Fast \in BOOLEAN
  /\ {MaxCwnd, Ncwnd, AdmissionWindow, Burst} \subseteq Nat \ {0}
  /\ Controls \subseteq {"rx_window", "rx_rate", "tx_rate"}

\* The first packet this side sends for a transaction.
First == [pull |-> "pull_request", solicited |-> "push_request", unsolicited |-> "unsolicited_data",
          granted |-> "push_grant", pulled |-> "pull_data"]

QueueOf(c, type) ==
  CASE type = "pull_request" -> Requests
    [] type = "push_request" -> IF c \in Ordered THEN Requests ELSE UnorderedPush
    [] type \in {"solicited_data", "unsolicited_data"} -> PushData
    [] type = "push_grant" -> Grants
    [] type = "pull_data" -> PullData

EmptyQueues ==
  [queue     |-> [c \in Conns |-> [t \in QueueTypes |-> <<>>]],
   ready     |-> {},                                     \* ordered push data that may go
   count     |-> [t \in QueueTypes |-> 0],               \* packet_queue_wise_pkt_count_
   limited   |-> {},                                     \* connections within kPerConnectionInterOpGap
   sent      |-> [c \in Conns |-> [w \in Windows |-> <<>>]],
   base      |-> [c \in Conns |-> [w \in Windows |-> 0]],
   resent    |-> [c \in Conns |-> [w \in Windows |-> {}]],  \* retransmitted, not yet acked
   lost      |-> [c \in Conns |-> [w \in Windows |-> {}]],  \* retransmission queues, by PSN
   cwnd      |-> [c \in Conns |-> MaxCwnd],
   oow       |-> [c \in Conns |-> {}],                   \* windows with oow_notification_received
   solicited |-> 0,                                      \* solicited_data_bytes
   tokens    |-> [rx_rate |-> Burst, tx_rate |-> Burst],
   acks      |-> 0,                                      \* ack_nack_queue_
   xoff      |-> FALSE,                                  \* packet_builder_xoff_
   scheduled |-> FALSE,                                  \* the arbiter's event is pending
   turn      |-> 1]                                      \* candidate_scheduler_index_

(***************************************************************************)
(* Queues.                                                                 *)
(***************************************************************************)
\* What AddPacketToQueue appends to queue u.  With ordering, solicited data is
\* queued along with its request and becomes eligible when the grant enqueues
\* it; unsolicited data brings a phantom request that holds its place among the
\* requests.
Added(c, rsn, type, u) ==
  LET work(x) == <<[rsn |-> rsn, type |-> x]>> IN
     (IF u = QueueOf(c, type) /\ ~(c \in Ordered /\ type = "solicited_data") THEN work(type) ELSE <<>>)
  \o (IF u = Requests /\ c \in Ordered /\ type = "unsolicited_data" THEN work("phantom") ELSE <<>>)
  \o (IF u = PushData /\ c \in Ordered /\ type = "push_request" THEN work("solicited_data") ELSE <<>>)

\* AddPacketToQueue.  The polling variant counts ordered unsolicited data later.
AddPacketToQueue(s, c, rsn, type) ==
  LET phantom == c \in Ordered /\ type = "unsolicited_data"
      counted(u) == (IF u = QueueOf(c, type) /\ ~(phantom /\ ~Fast) THEN 1 ELSE 0)
                  + (IF u = Requests /\ phantom THEN 1 ELSE 0)
  IN [s EXCEPT !.queue[c] = [u \in QueueTypes |-> @[u] \o Added(c, rsn, type, u)],
               !.count = [u \in QueueTypes |-> @[u] + counted(u)],
               !.ready = IF c \in Ordered /\ type = "solicited_data" THEN @ \cup {<<c, rsn>>} ELSE @]

Peek(s, c, t) == s.queue[c][t][1]
IsEmpty(s, c, t) == s.queue[c][t] = <<>>
Uncounted(s, t) == [s EXCEPT !.count[t] = @ - 1]     \* UpdateOutstandingPacketCount
WithoutHead(s, c, t) == [s EXCEPT !.queue[c][t] = Tail(@)]
Pop(s, c, t) == WithoutHead(Uncounted(s, t), c, t)

IsPhantom(s, c, t) == ~IsEmpty(s, c, t) /\ Peek(s, c, t).type = "phantom"

\* A plausible bug: the polling variant does not count the data either.
HandlePhantomUncounted(s, c, t) ==
  Pop([s EXCEPT !.ready = @ \cup {<<c, Peek(s, c, t).rsn>>}], c, t)

\* HandlePhantomRequest: the data may go; the polling variant counts it only now.
HandlePhantom(s, c, t) ==
  LET eligible == [s EXCEPT !.ready = @ \cup {<<c, Peek(s, c, t).rsn>>},
                            !.count[PushData] = IF Fast THEN @ ELSE @ + 1]
  IN Pop(eligible, c, t)

(***************************************************************************)
(* Gates.                                                                  *)
(***************************************************************************)
WindowOf(type) == IF type \in {"pull_request", "push_request"} THEN "request" ELSE "data"
IsRequest(type) == type \in {"pull_request", "push_request", "unsolicited_data"}
NumRequests(s, c, w, psns) == Cardinality({p \in psns : IsRequest(s.sent[c][w][p].type)})

\* A plausible bug: unsolicited data does not wait for its phantom request.
MayGoUnsolicited(s, c, work) ==
  c \in Ordered /\ work.type = "solicited_data" => <<c, work.rsn>> \in s.ready

\* is_transmission_eligible
MayGo(s, c, work) ==
  c \in Ordered /\ work.type \in {"solicited_data", "unsolicited_data"} => <<c, work.rsn>> \in s.ready

\* MeetsInitialTransmissionCCTxGatingCriteria and ...OowTxGatingCriteria
MeetsCc(s, c, type) ==
  LET w == WindowOf(type) IN
  /\ Len(s.sent[c][w]) < s.base[c][w] + s.cwnd[c]
  /\ IsRequest(type) => NumRequests(s, c, w, (s.base[c][w] + 1)..Len(s.sent[c][w])) < Ncwnd
MeetsOow(s, c, type) == WindowOf(type) \notin s.oow[c]

\* MeetsRetransmissionCCTxGatingCriteria
MeetsRetransmissionCc(s, c, w, psn) ==
  /\ psn <= s.base[c][w] + s.cwnd[c]
  /\ IsRequest(s.sent[c][w][psn].type) => NumRequests(s, c, w, s.resent[c][w]) < Ncwnd

\* The resources a packet type needs (MeetsAdmissionControlCriteria).
Needs(type) ==
  Controls \cap (IF type \in {"pull_request", "push_grant"} THEN {"rx_window", "rx_rate"}
                 ELSE IF type = "push_request" THEN {"tx_rate"} ELSE {})
MeetsAdmission(s, type) ==
  \A k \in Needs(type) : IF k = "rx_window" THEN s.solicited < AdmissionWindow ELSE s.tokens[k] > 0

\* CanSend of the connection schedulers.
CanSend(s, c, work) ==
  /\ MayGo(s, c, work)
  /\ c \notin s.limited
  /\ MeetsCc(s, c, work.type) /\ MeetsOow(s, c, work.type) /\ MeetsAdmission(s, work.type)

(***************************************************************************)
(* Transmissions.                                                          *)
(***************************************************************************)
\* ReserveAdmissionControlResource
Reserve(s, type) ==
  [s EXCEPT !.solicited = IF "rx_window" \in Needs(type) THEN @ + 1 ELSE @,
            !.tokens = [k \in DOMAIN @ |-> IF k \in Needs(type) THEN @[k] - 1 ELSE @[k]]]

\* The send time of the connection and TransmitPacket of the reliability manager.
Transmit(s, c, work) ==
  [s EXCEPT !.limited = @ \cup {c}, !.sent[c][WindowOf(work.type)] = Append(@, work)]
Retransmit(s, c, w, psn) ==
  [s EXCEPT !.limited = @ \cup {c}, !.resent[c][w] = @ \cup {psn}, !.lost[c][w] = @ \ {psn}]

\* The packets of a connection that were handed to the reliability manager.
Sent(s, c) == UNION {{s.sent[c][w][p] : p \in DOMAIN s.sent[c][w]} : w \in Windows}

\* The grant for push request rsn has come: its data is eligible, queued or sent.
HasGrant(s, c, rsn) ==
  \/ <<c, rsn>> \in s.ready
  \/ c \notin Ordered /\ [rsn |-> rsn, type |-> "solicited_data"]
                            \in Sent(s, c) \cup Range(s.queue[c][PushData])
=============================================================================
