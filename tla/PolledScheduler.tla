--------------------------- MODULE PolledScheduler ---------------------------
(***************************************************************************)
(* The polling schedulers of Falcon: the packet-type-based connection      *)
(* scheduler and the retransmission scheduler.  Lists hold whoever has     *)
(* something queued, in round robin order; a scan asks each in turn        *)
(* whether its head may go.                                                *)
(*                                                                         *)
(* Source: host/falcon/falcon_protocol_packet_type_based_connection_       *)
(* scheduler.cc, falcon_protocol_base_connection_scheduler.cc,             *)
(* falcon_protocol_retransmission_scheduler.cc, and the inter/intra packet *)
(* type and connection round robin policies.                               *)
(*                                                                         *)
(* A scan that visits n entries of a list leaves it rotated by n; one that *)
(* ends because it came back to its first entry has visited one more.      *)
(***************************************************************************)
EXTENDS SchedulerQueues, SequencesExt, TLC

CONSTANTS
  Weighted,      \* InterPacketTypeWeightedRoundRobinPolicy, else the plain one
  Normalizer     \* kWeightNormalizer

NewPolled ==
  [types   |-> <<>>,                                   \* active_queues_ of the inter policy
   credits |-> [t \in QueueTypes |-> 0],               \* available_credits, if Weighted
   conns   |-> [t \in QueueTypes |-> <<>>],            \* active_connections of the intra policy
   retxConns |-> <<>>,
   retxWindows |-> [c \in Conns |-> <<>>]]
  @@ EmptyQueues

Rotated(q, n) == [i \in DOMAIN q |-> q[1 + ((i - 1 + n) % Len(q))]]
With(q, x) == IF x \in Range(q) THEN q ELSE Append(q, x)
Without(q, x) == SelectSeq(q, LAMBDA y : y # x)

Total(z) == MapThenSumSet(LAMBDA t : z.credits[t], QueueTypes)

(***************************************************************************)
(* The inter packet type policies.                                         *)
(***************************************************************************)
\* ComputePerPacketCredits: a new round of the weighted policy.
ComputePerPacketCredits(z) ==
  LET new == SelectSeq(<<0, 1, 2, 3, 4>>, LAMBDA t : z.count[t] > 0 /\ t \notin Range(z.types)) IN
  [z EXCEPT !.credits = [t \in QueueTypes |-> (z.count[t] + Normalizer - 1) \div Normalizer],
            !.types = SelectSeq(@, LAMBDA t : z.count[t] > 0) \o new]

\* MarkPacketTypeBasedQueueTypeActive and ...Inactive
MarkTypeActive(z, t) ==
  IF ~Weighted THEN [z EXCEPT !.types = With(@, t)]
  ELSE IF Total(z) = 0 THEN ComputePerPacketCredits(z) ELSE z
MarkTypeInactive(z, t) == [z EXCEPT !.types = Without(@, t), !.credits[t] = 0]

\* UpdatePolicyState
UpdatePolicyState(z, blocked) ==
  LET y == [z EXCEPT !.types = SelectSeq(@, LAMBDA t : z.credits[t] > 0)] IN
  IF ~Weighted THEN z ELSE IF blocked \/ Total(y) = 0 THEN ComputePerPacketCredits(y) ELSE y

\* Selecting the first n entries, with the credits that costs.
Visited(z, n) ==
  [z EXCEPT !.types = Rotated(@, n),
            !.credits = [t \in QueueTypes |->
               IF Weighted /\ t \in Range(SubSeq(z.types, 1, n)) THEN @[t] - 1 ELSE @[t]]]

(***************************************************************************)
(* The connection scheduler.                                               *)
(***************************************************************************)
ConnectionHasWork(z) == ~z.xoff /\ (IF Weighted THEN Total(z) > 0 ELSE z.types # <<>>)

Serves(z, c, t) == IsPhantom(z, c, t) \/ CanSend(z, c, Peek(z, c, t))
Servable(z, t) == {i \in DOMAIN z.conns[t] : Serves(z, z.conns[t][i], t)}

\* HandlePhantomRequest: the data queue goes ahead of the request queue.
HandlePhantomRequest(z, c, t) ==
  LET y == MarkTypeActive(HandlePhantom(z, c, t), PushData)
      x == MarkTypeInactive([y EXCEPT !.conns[PushData] = With(@, c)], t)
      v == IF IsEmpty(x, c, t) THEN [x EXCEPT !.conns[t] = Without(@, c)] ELSE x
  IN IF v.conns[t] # <<>> THEN MarkTypeActive(v, t) ELSE v

\* SchedulePacket and UpdatePolicyStates
SchedulePacket(z, c, t) ==
  LET work == Peek(z, c, t)
      y == Pop(Transmit(Reserve(z, work.type), c, work), c, t)
      x == IF IsEmpty(y, c, t) THEN [y EXCEPT !.conns[t] = Without(@, c)] ELSE y
  IN UpdatePolicyState(IF x.conns[t] = <<>> THEN MarkTypeInactive(x, t) ELSE x, FALSE)

Done(z) == [state |-> z, done |-> TRUE, check |-> ""]

\* ScheduleWork: packet types in turn, within a type connections in turn.  A
\* phantom request costs nothing: the scan starts again after it.
RECURSIVE ConnectionWork(_)

\* The scan ended without success; the first type is tried once more if it may.
NothingServed(z) ==
  LET again == ~Weighted \/ (z.types # <<>> /\ z.credits[z.types[1]] > 0) IN
  [state |-> UpdatePolicyState(IF again THEN Visited(z, 1) ELSE z, TRUE),
   done |-> FALSE, check |-> ""]
Serve(z, c, t) ==
  IF IsPhantom(z, c, t)
  THEN [ConnectionWork(UpdatePolicyState(HandlePhantomRequest(z, c, t), FALSE)) EXCEPT !.done = TRUE]
  ELSE Done(SchedulePacket(z, c, t))

\* The first k types are visited, the last of them up to its i-th connection,
\* or all in vain if i is 0; a type visited in vain leaves its list rotated by one.
Scanned(z, k, i) ==
  LET turns(u) == IF i > 0 /\ u = z.types[k] THEN i
                  ELSE IF u \in Range(SubSeq(z.types, 1, k)) THEN 1 ELSE 0
  IN [Visited(z, k) EXCEPT !.conns = [u \in QueueTypes |-> Rotated(@[u], turns(u))]]
ServeType(z, k) ==
  LET t == z.types[k] IN
  IF \E u \in 1..k : z.conns[z.types[u]] = <<>>
  THEN [state |-> z, done |-> FALSE, check |-> "connection"]
  ELSE IF k = 0 \/ Servable(z, t) = {} THEN NothingServed(Scanned(z, k, 0))
  ELSE Serve(Scanned(z, k, Min(Servable(z, t))), z.conns[t][Min(Servable(z, t))], t)
ConnectionWork(z) ==
  LET found == {k \in DOMAIN z.types : Servable(z, z.types[k]) # {}} IN
  ServeType(z, IF found = {} THEN Len(z.types) ELSE Min(found))

(***************************************************************************)
(* The retransmission scheduler.                                           *)
(***************************************************************************)
RetransmissionHasWork(z) == ~z.xoff /\ z.retxConns # <<>>

\* DequeuePacket: the lists follow the queues.
DequeueRetransmission(z, c, w, psn) ==
  LET y == [z EXCEPT !.lost[c][w] = @ \ {psn}]
      x == [y EXCEPT !.retxWindows[c] = Without(@, w)]
  IN IF y.lost[c][w] # {} THEN y
     ELSE IF x.retxWindows[c] = <<>> THEN [x EXCEPT !.retxConns = Without(@, c)] ELSE x

\* The windows of c, as indices of its list, whose first packet may go.
Resendable(z, c) ==
  {i \in DOMAIN z.retxWindows[c] :
     /\ c \notin z.limited
     /\ MeetsRetransmissionCc(z, c, z.retxWindows[c][i], Min(z.lost[c][z.retxWindows[c][i]]))}

\* The first k connections are visited, the last of them up to its i-th window,
\* or one more than there are in vain if i is 0.
ScannedRetransmissions(z, k, i) ==
  LET turns(d) == IF i > 0 /\ d = z.retxConns[k] THEN i
                  ELSE IF d \in Range(SubSeq(z.retxConns, 1, Min({k, Len(z.retxConns)}))) THEN 1 ELSE 0
  IN [z EXCEPT !.retxConns = Rotated(@, k),
               !.retxWindows = [d \in Conns |-> Rotated(@[d], turns(d))]]
Resend(z, c, w, psn) ==
  Done(DequeueRetransmission([z EXCEPT !.limited = @ \cup {c}, !.resent[c][w] = @ \cup {psn}],
                             c, w, psn))
ResendOf(z, k, c, i) ==
  LET w == z.retxWindows[c][i] IN
  Resend(ScannedRetransmissions(z, k, i), c, w, Min(z.lost[c][w]))
ServeRetransmission(z, k) ==
  ResendOf(z, k, z.retxConns[k], Min(Resendable(z, z.retxConns[k])))
RetransmissionWork(z) ==
  LET found == {k \in DOMAIN z.retxConns : Resendable(z, z.retxConns[k]) # {}} IN
  IF found # {} THEN ServeRetransmission(z, Min(found))
  ELSE [state |-> ScannedRetransmissions(z, Len(z.retxConns) + 1, 0), done |-> FALSE, check |-> ""]

(***************************************************************************)
(* Enqueueing.                                                             *)
(***************************************************************************)
AckHasWork(z) == ~z.xoff /\ z.acks > 0
ArbiterHasWork(z) == ConnectionHasWork(z) \/ RetransmissionHasWork(z) \/ AckHasWork(z)
ScheduleSchedulerArbiter(z) == [z EXCEPT !.scheduled = @ \/ ArbiterHasWork(z)]

\* EnqueuePacket of the connection scheduler: AddPacketToQueue names the queue
\* to mark, the request queue for unsolicited data with its phantom.
Enqueue(z, c, rsn, type) ==
  LET t == IF c \in Ordered /\ type = "unsolicited_data" THEN Requests ELSE QueueOf(c, type)
      y == MarkTypeActive(AddPacketToQueue(z, c, rsn, type), t)
  IN ScheduleSchedulerArbiter([y EXCEPT !.conns[t] = With(@, c)])

EnqueueRetransmission(z, c, w, psn) ==
  ScheduleSchedulerArbiter(
    [z EXCEPT !.lost[c][w] = @ \cup {psn}, !.retxWindows[c] = With(@, w), !.retxConns = With(@, c)])

\* Every packet type with a packet that counts is in the arbiter's sight.
Fresh(z) ==
  /\ \A t \in QueueTypes : z.count[t] > 0 =>
       IF Weighted THEN Total(z) > 0 ELSE t \in Range(z.types)
  /\ \A t \in Range(z.types) : z.conns[t] # <<>>
  /\ \A c \in Conns, t \in QueueTypes : c \in Range(z.conns[t]) => ~IsEmpty(z, c, t)
  /\ \A c \in Conns, w \in Windows :
       z.lost[c][w] # {} <=> c \in Range(z.retxConns) /\ w \in Range(z.retxWindows[c])
=============================================================================
