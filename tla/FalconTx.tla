------------------------------ MODULE FalconTx ------------------------------
(***************************************************************************)
(* The transmit side of Falcon: a connection scheduler and a               *)
(* retransmission scheduler (event-based or polling), the ACK/NACK         *)
(* scheduler, the arbiter that gives them turns, and the events that open  *)
(* and close their gates.                                                  *)
(*                                                                         *)
(* Source: host/falcon/falcon_protocol_round_robin_arbiter.cc,             *)
(* falcon_protocol_ack_nack_scheduler.cc, and the callers of the           *)
(* schedulers in falcon_model.cc and                                       *)
(* falcon_protocol_packet_reliability_manager.cc.                          *)
(***************************************************************************)
EXTENDS SchedulerQueues

CONSTANTS
  Weighted, Normalizer,   \* see PolledScheduler and FastScheduler
  MaxChanges              \* bound: windows changed, losses, notifications, XOFFs and ACKs

F == INSTANCE FastScheduler
P == INSTANCE PolledScheduler

VARIABLES
  s,         \* schedulers and gates, see NewFast and NewPolled
  started,   \* started[c]: transactions enqueued so far
  failed,    \* the CHECK that stopped the program, or ""
  changes    \* how many of the bounded events happened

vars == <<s, started, failed, changes>>

Init ==
  /\ s = IF Fast THEN F!NewFast ELSE P!NewPolled
  /\ started = [c \in Conns |-> 0]
  /\ failed = ""
  /\ changes = 0

(***************************************************************************)
(* The arbiter.                                                            *)
(***************************************************************************)
Schedulers == <<"connection", "retransmission", "ack">>

\* Without the gating functions a change of a gate is seen at the next poll.
Gated(z, c) == IF Fast THEN F!Gated(z, c) ELSE z
ScheduleSchedulerArbiter(z) ==
  IF Fast THEN F!ScheduleSchedulerArbiter(z) ELSE P!ScheduleSchedulerArbiter(z)
ArbiterHasWork(z) == IF Fast THEN F!ArbiterHasWork(z) ELSE P!ArbiterHasWork(z)
Asked(z) == IF Fast THEN F!Asked(z) ELSE z

HasWork(z, k) ==
  CASE k = "connection" -> IF Fast THEN F!ConnectionHasWork(z) ELSE P!ConnectionHasWork(z)
    [] k = "retransmission" -> IF Fast THEN F!RetransmissionHasWork(z) ELSE P!RetransmissionHasWork(z)
    [] k = "ack" -> ~z.xoff /\ z.acks > 0
ScheduleWork(z, k) ==
  CASE k = "connection" -> IF Fast THEN F!ConnectionWork(z) ELSE P!ConnectionWork(z)
    [] k = "retransmission" -> IF Fast THEN F!RetransmissionWork(z) ELSE P!RetransmissionWork(z)
    [] k = "ack" -> P!Done([z EXCEPT !.acks = @ - 1])

\* Turn i of the arbiter: a scheduler that has work tries to do one unit of it.
TurnEnds(r, k) == IF r.done THEN [r EXCEPT !.state.turn = 1 + (k % 3)] ELSE r
Turn(r, i) ==
  LET k == 1 + ((r.state.turn - 1 + i) % 3) IN
  IF r.done \/ r.check # "" \/ ~HasWork(r.state, Schedulers[k]) THEN r
  ELSE TurnEnds(ScheduleWork(r.state, Schedulers[k]), k)
Turns(r) == IF ArbiterHasWork(r.state) THEN Turn(Turn(Turn(r, 0), 1), 2) ELSE r

\* DoArbitration: the first scheduler that does work ends the loop; another
\* event is scheduled if there is more.
Arbitrated(r) ==
  /\ failed' = r.check
  /\ s' = IF r.check # "" THEN s
          ELSE [Asked(r.state) EXCEPT !.scheduled = ArbiterHasWork(r.state)]
DoArbitration ==
  /\ s.scheduled
  /\ Arbitrated(Turns([state |-> Asked(s), done |-> FALSE, check |-> ""]))
  /\ UNCHANGED <<started, changes>>

(***************************************************************************)
(* What the other components do.                                           *)
(***************************************************************************)
Enqueue(z, c, rsn, type) ==
  IF Fast THEN F!Enqueue(z, c, rsn, type) ELSE P!Enqueue(z, c, rsn, type)

\* The ULP, or a packet from the peer, starts the next transaction of c.
Start(c) ==
  /\ started[c] < Len(Ops[c])
  /\ started' = [started EXCEPT ![c] = @ + 1]
  /\ s' = Enqueue(s, c, started'[c], First[Ops[c][started'[c]]])
  /\ UNCHANGED <<failed, changes>>

\* The grant of a push request that was sent: its data is enqueued.
Granted(c, rsn) ==
  /\ [rsn |-> rsn, type |-> "push_request"] \in Sent(s, c)
  /\ ~HasGrant(s, c, rsn)
  /\ s' = Enqueue(s, c, rsn, "solicited_data")
  /\ UNCHANGED <<started, failed, changes>>

\* HandleACK: the base of a window moves to psn, a queued retransmission of that
\* packet is dequeued, and the window is paused if the ACK says that a packet
\* was out of the receiver's window (own), until nothing is outstanding.
MoveBase(c, w, psn, own) ==
  LET z == [s EXCEPT !.resent[c][w] = @ \ {psn}]
      y == IF psn \notin s.lost[c][w] THEN z
           ELSE IF Fast THEN F!DequeueRetransmission(z, c, w, psn)
           ELSE P!DequeueRetransmission(z, c, w, psn)
  IN Gated([y EXCEPT !.base[c][w] = psn,
                     !.oow[c] = IF psn = Len(s.sent[c][w]) THEN @ \ {w}
                                ELSE IF own THEN @ \cup {w} ELSE @], c)
Acked(c, w) ==
  /\ s.base[c][w] < Len(s.sent[c][w])
  /\ s' = MoveBase(c, w, s.base[c][w] + 1, FALSE)
  /\ UNCHANGED <<started, failed, changes>>

\* kPerConnectionInterOpGap after a transmission of the connection.
GapOver(c) ==
  /\ c \in s.limited
  /\ s' = Gated([s EXCEPT !.limited = @ \ {c}], c)
  /\ UNCHANGED <<started, failed, changes>>

\* A pull response or granted data arrives (RefundAdmissionControlResource), or
\* the refill interval of a rate limiter passes; neither is a gating variable.
Refund ==
  /\ s.solicited > 0
  /\ s' = [s EXCEPT !.solicited = @ - 1]
  /\ UNCHANGED <<started, failed, changes>>
Refill(k) ==
  /\ s.tokens[k] < Burst
  /\ s' = [s EXCEPT !.tokens[k] = @ + 1]
  /\ UNCHANGED <<started, failed, changes>>

\* A plausible bug: XON does not wake the arbiter.
XonSilent == s.xoff /\ s' = [s EXCEPT !.xoff = FALSE] /\ UNCHANGED <<started, failed, changes>>

\* SetXoffByPacketBuilder(false)
XonByPacketBuilder ==
  /\ s.xoff
  /\ s' = ScheduleSchedulerArbiter([s EXCEPT !.xoff = FALSE])
  /\ UNCHANGED <<started, failed, changes>>

Change(z) == changes < MaxChanges /\ changes' = changes + 1 /\ s' = z /\ UNCHANGED <<started, failed>>

\* The bounded events: a packet is found lost, a response of the rate update
\* engine, an ACK with an out-of-window notification, XOFF, an ACK to send.
Lost(c, w, psn) ==
  /\ psn > s.base[c][w] /\ psn \notin s.lost[c][w]
  /\ Change(IF Fast THEN F!EnqueueRetransmission(s, c, w, psn)
            ELSE P!EnqueueRetransmission(s, c, w, psn))
RateUpdate(c, cwnd) == cwnd # s.cwnd[c] /\ Change(Gated([s EXCEPT !.cwnd[c] = cwnd], c))
OutOfWindow(c, w) == s.base[c][w] + 1 < Len(s.sent[c][w])
                       /\ Change(MoveBase(c, w, s.base[c][w] + 1, TRUE))
XoffByPacketBuilder == ~s.xoff /\ Change([s EXCEPT !.xoff = TRUE])
EnqueueAck == Change(ScheduleSchedulerArbiter([s EXCEPT !.acks = @ + 1]))

Next ==
  /\ failed = ""
  /\ \/ DoArbitration \/ Refund \/ EnqueueAck
     \/ XonByPacketBuilder \/ XoffByPacketBuilder
     \/ \E k \in DOMAIN s.tokens : Refill(k)
     \/ \E c \in Conns :
          \/ Start(c) \/ GapOver(c)
          \/ \E rsn \in 1..Len(Ops[c]) : Granted(c, rsn)
          \/ \E cwnd \in 1..MaxCwnd : RateUpdate(c, cwnd)
          \/ \E w \in Windows : \/ Acked(c, w) \/ OutOfWindow(c, w)
                                \/ \E psn \in 1..Len(s.sent[c][w]) : Lost(c, w, psn)

Spec == Init /\ [][Next]_vars

(***************************************************************************)
(* Properties.                                                             *)
(***************************************************************************)
\* No CHECK of the schedulers fails: whoever a policy picks may send.
NoCheckFails == failed = ""

\* The policies agree with the queues and, when events drive them, with every
\* gate: no cached eligibility is stale.
PoliciesFresh == IF Fast THEN F!Fresh(s) /\ F!Solvent(s) ELSE P!Fresh(s)

\* The arbiter never sleeps while a scheduler could send.
ArbiterAwake == ArbiterHasWork(s) => s.scheduled

\* The weights of the packet types count what is queued and waits for nothing
\* but its turn: not data without its grant, nor, polling, without its phantom.
Counts(c, work) ==
  MayGo(s, c, work) \/ (Fast /\ work.type = "unsolicited_data")
CountsMatchQueues ==
  \A t \in QueueTypes :
    s.count[t] = MapThenSumSet(
      LAMBDA c : Cardinality({i \in DOMAIN s.queue[c][t] : Counts(c, s.queue[c][t][i])}), Conns)

\* In ordered mode push data goes out in RSN order, and unsolicited data goes
\* after the requests of all earlier transactions.
OrderedDataFollowsRequests ==
  \A c \in Ordered :
    LET data == s.sent[c]["data"]
        push == {p \in DOMAIN data : data[p].type \in {"solicited_data", "unsolicited_data"}}
    IN /\ \A p, q \in push : p < q => data[p].rsn < data[q].rsn
       /\ \A p \in push : data[p].type = "unsolicited_data" =>
            \A r \in 1..(data[p].rsn - 1) : Ops[c][r] \in {"pull", "solicited"} =>
              [rsn |-> r, type |-> First[Ops[c][r]]] \in Sent(s, c)
=============================================================================
